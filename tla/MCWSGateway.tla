---------------------------- MODULE MCWSGateway ----------------------------
(***************************************************************************)
(* WSGateway with a user who has a private connection c1 and a connection  *)
(* c2 without a cookie.                                                    *)
(***************************************************************************)
EXTENDS WSGateway

CONSTANTS c1, c2, a, b, t1, t2

TwoConns == {c1, c2}
TwoNames == {a, b}
UserOf == [c \in Conns |-> a]
TokenOf == [c \in Conns |-> IF c = c1 THEN t1 ELSE t2]
PublicConns == {c2}
OneSilent == {c1}

\* All private connections of a; whoever holds token t2; everybody.
AppTargets == { [NoTarget EXCEPT !.users = {a}, !.access = 1],
                [NoTarget EXCEPT !.tokens = {t2}],
                NoTarget }

\* The client of c2 only listens, and an app makes one call or fails to answer one.
\* While a silent connection is being closed nothing is sent, and beside a call of the
\* app that sends, a POST that fails or the other connection c1 sends less.
OneTalks ==
    /\ sent[c2] = 0
    /\ pushes + closes + fails <= 1
    /\ (idle = {} /\ ~ticker.busy) \/ pushes + fails + sent[c1] = 0
    /\ pushes + fails + sent[c1] <= 2
    /\ peer[c2] # "no" => sent[c1] <= 1
=============================================================================
