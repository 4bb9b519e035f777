------------------------------ MODULE StreamLink ------------------------------
(***************************************************************************)
(* The streams of StreamMap on the air: between MapTones and Demap each    *)
(* data tone carries points of SpaceTime through a channel.                *)
(***************************************************************************)
EXTENDS StreamMap, SpaceTime

CONSTANTS
  StbcChannels,     \* pairs h
  MimoChannels      \* matrices H

ASSUME LinkAssumption ==
  /\ StbcChannels \subseteq [{1, 2} -> Complex]
  /\ MimoChannels \subseteq [{1, 2} -> [{1, 2} -> Complex]]

(* Pairs of values on one tone: any value, beside the first, the last and  *)
(* itself.                                                                 *)
Pairs ==
  {<<v, w>> : v \in Values(Bpsc), w \in {0, 2^Bpsc - 1}} \cup {<<v, v>> : v \in Values(Bpsc)}
Points(vs) == <<Point(Bpsc, vs[1]), Point(Bpsc, vs[2])>>

StbcReceived(h, vs) ==
  LET s == Points(vs)
      est == TwiceEstimated(Training(P_STBC, h, 1), Training(P_STBC, h, 2))
      z == Combined(est, <<Slot0(h, s), Slot1(h, s)>>)
      double == Real(Gain(est) \div 2)     \* the estimate is twice the channel
  IN  <<Demapped(Bpsc, z[1], double), Demapped(Bpsc, z[2], double)>>

MimoReceived(H, vs) ==
  LET G == TwiceChannel(H)
      z == Solved(G, Heard(H, Points(vs)))
      Value(i) == Demapped(Bpsc, Times(Real(2), z[i]), Det(G))
  IN  <<Value(1), Value(2)>>

(* The link gives back the values that MapTones put on a tone, with the    *)
(* channels estimated from the training symbols, so Demap finds every bit  *)
(* where it was mapped (stbc_selftest, "Proves the STBC data model is      *)
(* invertible"; mimo_selftest likewise).                                   *)
LinkInverts ==
  stage = "mapped" /\ nsym = 1 =>
    \A vs \in Pairs :
      /\ cfg.path = "stbc" =>
           \A h \in StbcChannels : Gain(h) # 0 => StbcReceived(h, vs) = vs
      /\ cfg.path = "mimo" =>
           \A H \in MimoChannels : Det(H) # <<0, 0>> => MimoReceived(H, vs) = vs

(* A decision for a point next to the right one costs a single coded bit,  *)
(* whichever the point.                                                    *)
BitOf(v, b) == (v \div 2^b) % 2
GrayMapped ==
  stage = "mapped" /\ nsym = 1 =>
    \A v, w \in Values(Bpsc) :
      Norm(Add(Point(Bpsc, v), Minus(Point(Bpsc, w)))) = 4 =>
        Cardinality({b \in 0 .. Bpsc - 1 : BitOf(v, b) # BitOf(w, b)}) = 1
=============================================================================
