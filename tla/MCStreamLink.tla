----------------------------- MODULE MCStreamLink -----------------------------
(***************************************************************************)
(* Frames of up to two symbols; the default channels of the self-tests,    *)
(* ten times as large, and channels with a silent antenna or a common      *)
(* phase.                                                                  *)
(***************************************************************************)
EXTENDS StreamLink

MCStbcChannels ==
  { <<<<9, 2>>, <<4, -6>>>>, <<<<1, 0>>, <<0, 0>>>>, <<<<0, 0>>, <<0, 1>>>>, <<<<1, 1>>, <<1, 1>>>> }

MCMimoChannels ==
  { << <<<<10, 0>>, <<3, 2>>>>, <<<<-2, 1>>, <<9, 0>>>> >>,
    << <<<<0, 0>>, <<0, 1>>>>, <<<<1, 0>>, <<1, 1>>>> >>,
    << <<<<1, 0>>, <<1, 0>>>>, <<<<1, 0>>, <<1, 0>>>> >> }
=============================================================================
