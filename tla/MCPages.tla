------------------------------ MODULE MCPages ------------------------------
(* The two ends of a page, for TLC: the signatures of a validator, out of  *)
(* which it comes, or the cards of a Telegram channel, on which a warning  *)
(* and a critical alert of one node share a card.  They share neither      *)
(* state nor alerts, so a behaviour is one of a single part: which one is  *)
(* drawn at the start.                                                     *)
EXTENDS Signing, TelegramCards, TLC

CONSTANTS evmDown, nodeDown

MCCardOf == evmDown :> "node" @@ nodeDown :> "node"
MCRankOf == evmDown :> 2 @@ nodeDown :> 3

VARIABLE part

mcVars == <<signVars, cardVars, part>>

Signatures == part = "signatures" /\ UNCHANGED <<part, cardVars>>
Channel == part = "channel" /\ UNCHANGED <<part, signVars>>

MCInit == Init /\ CardsInit /\ part \in {"signatures", "channel"}

MCNext ==
  \/ Signatures /\ Next
  \/ Channel /\ CardsNext

MCSpec == MCInit /\ [][MCNext]_mcVars
=============================================================================
