--------------------------------- MODULE MCBus ---------------------------------
(* Bus with one client: of two channels for the passing run, of one channel *)
(* that two transactions send to for the counterexample.                    *)
EXTENDS Bus, TLC

CONSTANTS c1, r1, r2, s1, s2, a, b

OneClient == {c1}
TwoRequests == {r1, r2}
OneSender == {s1}
TwoSenders == {s1, s2}
OneChannel == {a}
TwoChannels == {a, b}
AllChannels == [c \in Client |-> Channel]
=============================================================================
