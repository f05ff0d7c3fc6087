---------------------------- MODULE MCLineMatching ----------------------------
(* Instances of LineMatching for TLC. *)
EXTENDS LineMatching, TLC

CONSTANTS bolt, bolts, stud, nut   \* descriptions; all but the last are alike

No(kind, n) == [kind |-> kind, n |-> n, zeros |-> FALSE]
Zeros(n) == [kind |-> "plain", n |-> n, zeros |-> TRUE]
Row(no, desc, qty) == [no |-> no, desc |-> desc, qty |-> qty]

MCSimilar == [pair \in Descriptions \X Descriptions |->
                IF pair[1] = pair[2] THEN 100
                ELSE IF nut \in {pair[1], pair[2]} THEN 40 ELSE 90]

One(no, qty) == <<Row(no, bolt, qty)>>
MCPurchases ==
  {<<Row(No("plain", 10), bolt, 1), Row(No("plain", 100), nut, 1)>>,
   <<Row(No("plain", 10), bolt, 1), Row(No("plain", 100), bolt, 1), Row(Zeros(10), nut, 1)>>,
   <<Row(No("plain", 1), bolt, 1), Row(No("plain", 10), bolts, 2)>>,
   <<Row(No("rel", 1), bolt, 1), Row(No("rel", 10), nut, 1)>>,
   <<Row(No("plain", 1), nut, 1), Row(None, bolt, 1), Row(None, bolts, 1)>>,
   <<Row(No("other", 1), bolt, 2), Row(None, None, 1)>>}

MCDeliveries ==
  {One(No("plain", 1), 1), One(No("plain", 10), 1), One(Zeros(100), 1),
   One(No("rel", 1), 1), One(No("other", 1), 1), One(None, 1), <<Row(None, nut, 1)>>, <<Row(No("plain", 7), stud, 1)>>,
   <<Row(No("plain", 1), bolt, 1), Row(No("plain", 10), nut, 1)>>,
   <<Row(No("plain", 10), bolt, 1), Row(No("plain", 100), nut, 2)>>,
   <<Row(No("rel", 1), bolt, 1), Row(No("rel", 10), nut, 2)>>}

MCSwitches == {{}, Rules}
=============================================================================
