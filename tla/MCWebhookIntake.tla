-------------------------- MODULE MCWebhookIntake --------------------------
(***************************************************************************)
(* WebhookIntake with one client address and two server processes of one   *)
(* request each.  A request without a signature and four signed ones: of   *)
(* one pull request with its repository, of another one with the same      *)
(* number and no repository, and of both with the same id.  Each may be    *)
(* repeated any number of times.                                           *)
(***************************************************************************)
EXTENDS WebhookIntake

CONSTANTS p1, p2, s1, s2, i1, e1, e2, n1, n2, n3

ProcOfC == [s \in Slot |-> IF s = s2 THEN p2 ELSE p1]

Plain == [ip |-> i1, headers |-> {}, genuine |-> FALSE, qualifies |-> TRUE, event |-> e1,
          idempotencyKey |-> Missing, delivery |-> Missing, body |-> Missing,
          repository |-> Missing, pr |-> n1]
Signed == [Plain EXCEPT !.headers = {"x-hub-signature-256"}, !.genuine = TRUE,
                        !.repository = n2]
Nameless == [Signed EXCEPT !.repository = Missing, !.event = e2]
SharesId == [Signed EXCEPT !.idempotencyKey = n3]
SharesIdToo == [Nameless EXCEPT !.body = n3]
RequestC == {Plain, Signed, Nameless, SharesId, SharesIdToo}
=============================================================================
