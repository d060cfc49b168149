--------------------------- MODULE MCAsyncioBridge ---------------------------
(* Small instances of AsyncioBridge for TLC.                               *)
EXTENDS AsyncioBridge

CONSTANTS a1, a2

(* Two awaits of the same Dex future.                                      *)
MCAwaits == {a1, a2}

(* One await.                                                              *)
MCAwaitsOne == {a1}
=============================================================================
