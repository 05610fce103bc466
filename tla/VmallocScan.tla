---------------------------- MODULE VmallocScan ----------------------------
(***************************************************************************)
(* vmalloc's search for a block of virtual pages: one pass over the free   *)
(* bits of the pages, from lower to higher addresses.                      *)
(***************************************************************************)
EXTENDS Integers

(* What the pass knows: a run of free pages has begun (flag) at strt; cnt
   pages of it have been counted; it stopped at a page, or not yet (-1). *)
Start == [flag |-> FALSE, cnt |-> 0, strt |-> -1, stop |-> -1]

ScanNoReset(s, v, free, n) ==        \* fault: an interrupted run still counts
  LET t == IF free THEN [s EXCEPT !.flag = TRUE, !.cnt = @ + 1,
                                  !.strt = IF s.flag THEN @ ELSE v]
           ELSE [s EXCEPT !.flag = FALSE]
  IN  IF s.stop # -1 THEN s
      ELSE IF t.cnt = n THEN [t EXCEPT !.stop = v] ELSE t

(* The body of the loop at page v, searching for n pages. *)
ScanPage(s, v, free, n) ==
  LET t == IF free THEN [s EXCEPT !.flag = TRUE, !.cnt = @ + 1,
                                  !.strt = IF s.flag THEN @ ELSE v]
           ELSE [s EXCEPT !.flag = FALSE, !.cnt = 0]
  IN  IF s.stop # -1 THEN s
      ELSE IF t.cnt = n THEN [t EXCEPT !.stop = v] ELSE t

(* The search among the pages 0..last, free[v] telling whether v is free. *)
Scan(free, last, n) ==
  LET scan[v \in -1..last] ==
        IF v = -1 THEN Start ELSE ScanPage(scan[v - 1], v, free[v], n)
  IN  scan[last]

(* vmalloc(n pages) fails, or allocates the pages Block. *)
Fails(s, n) == s.strt = -1 \/ s.cnt # n
Block(s) == s.strt .. s.stop
=============================================================================
