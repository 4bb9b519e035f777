------------------------------ MODULE Puncturing ------------------------------
(***************************************************************************)
(* puncture() of tools_gen_wifi.py: of every 2 * num coded bits at rate    *)
(* num/(num+1) the ones at the given places are not sent.                  *)
(***************************************************************************)
Dropped(num) ==
  CASE num = 1 -> {} [] num = 2 -> {3} [] num = 3 -> {3, 4} [] num = 5 -> {3, 4, 7, 8}
=============================================================================
