---------------------------- MODULE LESSSignInv ----------------------------
(***************************************************************************)
(* The inductive invariant of LESSSign: what holds half way through each   *)
(* of the three loops over the rounds.                                     *)
(***************************************************************************)
EXTENDS LESSSign

Late == step \in {"respond", "sent", "verify", "returned"}

\* Which step of the tree goes with which step of the scheme.
PhaseInv ==
  /\ step = "seeds" <=> phase = "generate"
  /\ step = "seeds" => i = 1
  /\ step = "commit" <=> phase = "challenge"
  /\ step \in {"respond", "sent"} => phase = "recover"
  /\ step = "verify" => phase = "done"
  /\ phase # "generate" => seeds \in [Rounds -> Seed]
  /\ phase = "done" =>
       recovered = [r \in Rounds |-> IF r \in opened THEN seeds[r] ELSE NoSeed]

\* The matrices of a round that was hashed are those of its last seed.
CommitInv == HashedOnce /\ \A r \in 1 .. Len(state) : pi_tilde[r] = linearized_rounds_seeds[r]

\* A round is only done again if its own seed has no form.
RetryInv == step # "seeds" => \A r \in Retried : ~HasForm(r, seeds[r])

ChallengeInv ==
  Late => /\ fixed_weight_string \in Challenges
          /\ opened = {r \in Rounds : fixed_weight_string[r] = 0}

\* The place of the response to a round.
Closed(n) == {r \in 1 .. n : fixed_weight_string[r] # 0}
Place(n)  == Cardinality(Closed(n))

Response(r) == [key |-> fixed_weight_string[r], code |-> <<r, linearized_rounds_seeds[r]>>]

RespondInv ==
  /\ ~Late => cf_monom_actions = <<>>
  /\ step = "respond" =>
       /\ Len(cf_monom_actions) = Place(i - 1)
       /\ \A r \in Closed(i - 1) : cf_monom_actions[Place(r)] = Response(r)
  /\ Late /\ step # "respond" =>
       /\ Len(cf_monom_actions) = W
       /\ \A r \in Closed(T) : cf_monom_actions[Place(r)] = Response(r)

SentInv ==
  /\ step = "sent" => /\ sm.last = Published[opened]
                      /\ sm.smlen = mlen + LESS_SIGNATURE_SIZE(Published[opened])
  /\ MessageFound

\* The verifier got through a round only if it was not done again.
VerifyInv ==
  /\ step \notin {"verify", "returned"} => recomputed = <<>> /\ employed_monoms = 0
  /\ step = "verify" =>
       /\ employed_monoms = Place(i - 1)
       /\ \A r \in 1 .. i - 1 : r \in opened => r \notin Retried
  /\ SameTranscript

ResultInv == (ok = "none" <=> step # "returned") /\ AcceptedUnlessOpened

IInv == /\ TypeOK /\ PhaseInv /\ CommitInv /\ RetryInv /\ ChallengeInv /\ RespondInv
        /\ SentInv /\ VerifyInv /\ ResultInv
=============================================================================
