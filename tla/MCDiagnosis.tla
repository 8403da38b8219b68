---------------------------- MODULE MCDiagnosis ----------------------------
(* Three links of which one is read twice, one BGP session, a read from the  *)
(* future; a call may be made again.  The model may claim either class or    *)
(* one that does not exist, on claims that hold, that do not, that are about *)
(* something else or another link, that a healthy link meets, ill-typed, out *)
(* of their interval, or cite nothing that exists.                           *)
EXTENDS Diagnosis

CONSTANTS l1, l2, l3, idle, established

Oper(link, at) == [subject |-> link, metric |-> "oper_state", at |-> at]
Bgp == [subject |-> l1, metric |-> "bgp_session_state", at |-> 1]

MCTools == {{Oper(l1, 1), Oper(l1, 2), Oper(l1, 4)}, {Oper(l2, 1), Oper(l3, 2)}, {Bgp}}
MCTexts == {idle, established}
MCTextMetrics == {"bgp_session_state"}

Claim(id, sustained, key, operator, comparison, to) ==
    [id |-> id, sustained |-> sustained, subject |-> key.subject, metric |-> key.metric,
     operator |-> operator, comparison |-> comparison, polarity |-> TRUE,
     from |-> 1, to |-> to, cites |-> {k \in UNION MCTools : k.subject = key.subject}]

Claims(id) ==
    {Claim(id, TRUE, Oper(l1, 1), "<", 1, 3), Claim(id, FALSE, Oper(l1, 1), ">=", 1, 3),
     [Claim(id, TRUE, Oper(l1, 1), "<", 1, 1) EXCEPT !.polarity = FALSE],
     Claim(id, TRUE, Bgp, "==", idle, 3), Claim(id, TRUE, Bgp, ">", 1, 3),
     Claim(id, FALSE, Oper(l1, 1), "<=", 2, 3), Claim(id, TRUE, Oper(l2, 1), "<", 1, 3),
     [Claim(id, TRUE, Oper(l1, 1), "<", 1, 3) EXCEPT !.cites = {Oper(l1, 3)}]}

Hypotheses ==
    [class : {"link_down", "bgp_session_down", "bad_optics"}, subject : {l1},
     claims : {<<>>} \cup {<<c>> : c \in Claims("a")}]
Pairs ==
    [class : {"link_down"}, subject : {l1}, claims : Claims("a") \X (Claims("a") \cup Claims("b"))]

MCReplies ==
    {<<>>} \cup {<<h>> : h \in Hypotheses \cup Pairs}
           \cup {<<h, g, k>> : h, g, k \in {x \in Hypotheses : x.claims = <<Claim("a", TRUE, Oper(l1, 1), "<", 1, 3)>>}}
=============================================================================
