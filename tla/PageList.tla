------------------------------- MODULE PageList -------------------------------
(***************************************************************************)
(* The doubly linked lists of index pages that still have room             *)
(* (src/internal/xstore/pagelist.go).  st has the field pages, a function  *)
(* from page numbers to records with the fields on, prev and nxt, and the  *)
(* field free, the first page of the list the caller means; 0 is no page.  *)
(***************************************************************************)

Unlinked(st, p) ==
  LET r == st.pages[p]
      a == IF r.prev = 0 THEN st.pages ELSE [st.pages EXCEPT ![r.prev].nxt = r.nxt]
      b == IF r.nxt = 0 THEN a ELSE [a EXCEPT ![r.nxt].prev = r.prev]
  IN [st EXCEPT !.pages = [b EXCEPT ![p].prev = 0, ![p].nxt = 0, ![p].on = FALSE],
                !.free = IF st.free = p THEN r.nxt ELSE st.free]
LinkedIn(st, p) ==
  LET a == IF st.free = 0 THEN st.pages ELSE [st.pages EXCEPT ![st.free].prev = p]
  IN [st EXCEPT !.pages = [a EXCEPT ![p].nxt = st.free, ![p].on = TRUE], !.free = p]

\* keep: the page has room for another node.  empty: it holds none any more
\* and goes back to the file.
SyncIndexFreeList(st, p, empty, keep) ==
  LET on == st.pages[p].on
  IN IF on /\ (empty \/ ~keep) THEN Unlinked(st, p)
     ELSE IF ~on /\ keep /\ ~empty THEN LinkedIn(st, p)
     ELSE st
=============================================================================
