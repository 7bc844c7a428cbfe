----------------------------- MODULE MCUinetApi -----------------------------
(* Two threads, one place for a socket, three cells of memory.             *)
(* MCUinetApi.cfg is the user that keeps to the interface;                 *)
(* MCUinetApiAgain.cfg, MCUinetApiDeferral.cfg and MCUinetApiLeft.cfg each *)
(* ask one question more.                                                  *)
EXTENDS UinetApi

(* Any tag, no tag, one tag. *)
MCStackDepths == {-1, 0, 1}

(* Cells are alike and so are threads: the invariants name none of them. *)
MCSymmetry == Permutations(Mem) \cup Permutations(Threads)
=============================================================================
