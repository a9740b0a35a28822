------------------------------ MODULE MCGuard ------------------------------
(***************************************************************************)
(* Finite instances of Guard.tla for TLC: one user who arrives under two   *)
(* spellings of the e-mail, and small sets of requests, one per question.  *)
(***************************************************************************)
EXTENDS Guard, TLC

MCEmails == {"asha", "Asha"}
MCLower == [e \in MCEmails |-> "asha"]

request(e, s, v, k) ==
  [email |-> e, sig |-> s, value |-> v, key |-> k, confirmed |-> TRUE]

\* Two spellings, two sizes: one order of the largest size, one MARKET order
\* with an idempotency key.
CapRequests == {request("asha", "buy", 2, NoKey), request("Asha", "sell", 0, "k1")}

\* An order above the single-order cap, an unconfirmed one and a good one, of
\* which every repeat is a duplicate.
StrikeRequests == {request("asha", "buy", 3, NoKey),
                   [request("Asha", "buy", 1, NoKey) EXCEPT !.confirmed = FALSE],
                   request("asha", "sell", 1, NoKey)}

PlainRequest == {request("Asha", "buy", 1, NoKey)}

Symmetric == Permutations(Procs)
=============================================================================
