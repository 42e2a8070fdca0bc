-------------------------------- MODULE VList --------------------------------
(***************************************************************************)
(* Linked lists of the code (export/vlist.h), as sequences: adding at the  *)
(* tail is Append, moving a list is \o, and vlist_delete is Unlink.        *)
(***************************************************************************)
EXTENDS SequencesExt

(* vlist_delete of node e: the list without it.  A node that is in no list *)
(* has no neighbours, and nothing is changed.                              *)
Unlink(list, e) ==
    IF e \in ToSet(list)
    THEN RemoveAt(list, CHOOSE i \in 1..Len(list) : list[i] = e)
    ELSE list
=============================================================================
