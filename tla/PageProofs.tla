------------------------------ MODULE PageProofs ------------------------------
(***************************************************************************)
(* Votes never contaminate another height, and all-clears are earned, for  *)
(* a chain of any height, any number of sessions, reloads and restarts,    *)
(* and any threshold.  Two inductive invariants carry the results: the     *)
(* tracker never knows more of a height than was delivered for it          *)
(* (`TrackerIsSound`), and an open alert nothing excuses keeps its count   *)
(* at or above the threshold (`CountStands`).                              *)
(*                                                                         *)
(* At the other end of a page, the cards of a Telegram channel keep the    *)
(* messages that show something, for any number of alerts, cards, posts,   *)
(* failures and restarts (`MessagesAreKept`).                              *)
(***************************************************************************)
EXTENDS Signing, TelegramCards, TLAPS

TrackerIsSound == \A h \in Heights : pending[h] <= seen[h]

CountStands == open /\ ~ excused => consec >= ConsecutiveMissed

(* The better of two grades is one of them, and not below either.          *)
LEMMA HighestIsUpper ==
  ASSUME NEW s \in Unknown .. Proposed, NEW t \in Unknown .. Proposed
  PROVE  /\ Highest(s, t) \in {s, t}
         /\ s <= Highest(s, t) /\ t <= Highest(s, t)
  BY DEF Highest, Unknown, Proposed

(* A block has a successor, and what it says is a commit.                  *)
LEMMA NextBlock ==
  ASSUME TypeOK, at < head
  PROVE  /\ at + 1 \in Heights /\ blocks[at + 1] \in Commits
         /\ Best(at, blocks[at + 1]) \in Missed .. Proposed
<1> USE SigningAssumption
<1>1. at + 1 \in Heights
  BY DEF TypeOK, Heights
<1>2. blocks[at + 1] \in {0, 3, 4} /\ pending[at] \in 0 .. 2
  BY <1>1 DEF TypeOK, Commits, Missed, Signed, Proposed, Precommit
<1> QED
  BY <1>1, <1>2 DEF Best, Highest, Commits, Missed, Signed, Proposed

(* Every variable keeps its type.                                          *)
THEOREM SigningTyped == Spec => []TypeOK
<1> USE SigningAssumption
<1>1. Init => TypeOK
  <2>1. 0 \in Heights /\ 0 \in 0 .. MaxSessions /\ 0 \in 0 .. MaxRebuilds /\ 0 \in Nat
    BY DEF Heights
  <2>2. Missed \in Commits /\ Missed \in Missed .. Precommit /\ Unknown \in Unknown .. Proposed
    BY DEF Commits, Unknown, Missed, Precommit, Proposed
  <2> SUFFICES ASSUME Init PROVE TypeOK
    OBVIOUS
  <2>3. blocks \in [Heights -> Commits] /\ pending \in [Heights -> Missed .. Precommit]
        /\ seen \in [Heights -> Missed .. Precommit]
    BY <2>2 DEF Init, NoVotes
  <2>4. verdict \in [height : Heights, state : Unknown .. Proposed]
    BY <2>1, <2>2 DEF Init
  <2> QED
    BY <2>1, <2>3, <2>4 DEF Init, TypeOK, Targets
<1>2. TypeOK /\ [Next]_signVars => TypeOK'
  <2> SUFFICES ASSUME TypeOK, [Next]_signVars PROVE TypeOK'
    OBVIOUS
  <2>1. ASSUME NEW h \in Heights, NEW s \in {Prevote, Precommit}, HandleVote(h, s)
        PROVE  TypeOK'
    <3>1. \A t \in Missed .. Precommit : Highest(t, s) \in Missed .. Precommit
      BY DEF Highest, Missed, Prevote, Precommit
    <3>2. seen' \in [Heights -> Missed .. Precommit]
      BY <2>1, <3>1 DEF TypeOK, HandleVote
    <3>3. pending' \in [Heights -> Missed .. Precommit]
      BY <2>1, <3>1 DEF TypeOK, HandleVote
    <3> QED
      BY <2>1, <3>2, <3>3 DEF TypeOK, HandleVote, chainVars, targetVars, alarmVars
  <2>2. CASE HandleBlock
    <3>1. at' \in Heights /\ UNCHANGED <<chainVars, sessions, targetVars, alarmVars, rebuilds, seen>>
      BY <2>2, NextBlock DEF HandleBlock
    <3>2. CASE info
      <4>1. pending' \in [Heights -> Missed .. Precommit]
        BY <2>2, <3>2 DEF TypeOK, HandleBlock, Pruned, Missed, Precommit
      <4>2. DEFINE st == IF bonded THEN Best(at, blocks[at + 1]) ELSE Unknown
      <4>3. st \in Unknown .. Proposed
        BY <2>2, NextBlock DEF HandleBlock, Unknown, Missed, Proposed
      <4>4. consec' \in {consec, consec + 1, 0} /\ excused' \in BOOLEAN
        BY <2>2, <3>2, <4>3 DEF HandleBlock, TypeOK, Unknown, Missed, Prevote, Precommit, Signed, Proposed
      <4>5. consec' \in Nat
        BY <4>4 DEF TypeOK
      <4>6. verdict' \in [height : Heights, state : Unknown .. Proposed]
        BY <2>2, <3>2, NextBlock DEF HandleBlock, TypeOK, Unknown, Missed, Proposed
      <4> QED
        BY <3>1, <4>1, <4>4, <4>5, <4>6 DEF TypeOK, chainVars, targetVars, alarmVars
    <3>3. CASE ~ info
      BY <2>2, <3>1, <3>3 DEF HandleBlock, TypeOK, chainVars, targetVars, alarmVars
    <3> QED
      BY <3>2, <3>3
  <2>3. ASSUME NEW h \in Heights, Redial(h)
        PROVE  TypeOK'
    BY <2>3 DEF TypeOK, Redial, chainVars, targetVars, alarmVars
  <2>4. CASE RefreshStart
    BY <2>4 DEF TypeOK, RefreshStart, Targets, chainVars, alarmVars
  <2>5. ASSUME NEW b \in BOOLEAN, RefreshApply(b)
        PROVE  TypeOK'
    BY <2>5 DEF TypeOK, RefreshApply, Targets, chainVars, alarmVars
  <2>6. CASE WatchRaise
    BY <2>6 DEF TypeOK, WatchRaise, chainVars, targetVars
  <2>7. CASE WatchResolve
    BY <2>7 DEF TypeOK, WatchResolve, chainVars, targetVars
  <2>8. CASE Reload \/ Restart
    <3>1. FreshTarget /\ refresh' \in Targets
          /\ UNCHANGED <<chainVars, at, sessions, open, seen, verdict>>
      BY <2>8 DEF Reload, Restart, Targets
    <3>2. rebuilds' \in 0 .. MaxRebuilds
      BY <3>1 DEF FreshTarget, TypeOK
    <3>3. NoVotes \in [Heights -> Missed .. Precommit]
      BY DEF NoVotes, Missed, Precommit
    <3> QED
      BY <3>1, <3>2, <3>3 DEF TypeOK, FreshTarget, Targets, chainVars
  <2>9. ASSUME NEW c \in Commits, Commit(c)
        PROVE  TypeOK'
    <3>1. head' \in Heights
      BY <2>9 DEF TypeOK, Commit, Heights
    <3>2. blocks' \in [Heights -> Commits]
      BY <2>9 DEF TypeOK, Commit
    <3> QED
      BY <2>9, <3>1, <3>2 DEF TypeOK, Commit, targetVars, alarmVars
  <2>10. CASE UNCHANGED signVars
    BY <2>10 DEF TypeOK, signVars, chainVars, targetVars, alarmVars
  <2> QED
    BY <2>1, <2>2, <2>3, <2>4, <2>5, <2>6, <2>7, <2>8, <2>9, <2>10 DEF Next
<1> QED
  BY <1>1, <1>2, PTL DEF Spec

(* sign.go:157: a late vote can never contaminate the next block's         *)
(* classification.  A height graded as prevoted or precommitted was seen   *)
(* to be, whatever sessions, reloads and refreshes came in between.        *)
THEOREM VotesStayAtTheirHeight == Spec => []NoContamination
<1> DEFINE Inv == TrackerIsSound /\ NoContamination
<1> USE SigningAssumption
<1>1. Init => Inv
  BY DEF Init, TrackerIsSound, NoContamination, NoVotes, Missed, Unknown, Prevote, Precommit
<1>2. TypeOK /\ Inv /\ [Next]_signVars => Inv'
  <2> SUFFICES ASSUME TypeOK, TrackerIsSound, NoContamination, [Next]_signVars
               PROVE  Inv'
    OBVIOUS
  <2>1. ASSUME NEW h \in Heights, NEW s \in {Prevote, Precommit}, HandleVote(h, s)
        PROVE  Inv'
    <3>1. /\ seen' = [seen EXCEPT ![h] = Highest(@, s)]
          /\ pending' = [pending EXCEPT ![h] = Highest(@, s)] \/ pending' = pending
          /\ verdict' = verdict
      BY <2>1 DEF HandleVote
    <3>2. \A g \in Heights : /\ pending[g] \in 0 .. 2 /\ seen[g] \in 0 .. 2
                             /\ pending[g] <= seen[g] /\ seen[g] <= seen'[g]
                             /\ Highest(pending[g], s) <= Highest(seen[g], s)
      BY <3>1 DEF TypeOK, TrackerIsSound, Highest, Missed, Prevote, Precommit
    <3>3. TrackerIsSound'
      BY <3>1, <3>2 DEF TypeOK, TrackerIsSound, Highest, Prevote, Precommit
    <3>4. NoContamination'
      <4> SUFFICES ASSUME verdict.state \in {Prevote, Precommit}
                   PROVE  seen'[verdict.height] >= verdict.state
        BY <3>1 DEF NoContamination
      <4>1. verdict.height \in Heights /\ seen[verdict.height] >= verdict.state
        BY DEF TypeOK, NoContamination
      <4>2. seen'[verdict.height] \in 0 .. 2 /\ verdict.state \in 1 .. 2
        BY <3>1, <4>1 DEF TypeOK, Highest, Missed, Prevote, Precommit
      <4> QED
        BY <3>2, <4>1, <4>2
    <3> QED
      BY <3>3, <3>4
  <2>2. CASE HandleBlock /\ info
    <3>1. pending' = Pruned(at) /\ seen' = seen
          /\ verdict' = [height |-> at, state |-> Best(at, blocks[at + 1])]
      BY <2>2 DEF HandleBlock
    <3>2. TrackerIsSound'
      BY <3>1 DEF TypeOK, TrackerIsSound, Pruned, Missed, Precommit
    <3>3. blocks[at + 1] \in {0, 3, 4} /\ pending[at] \in 0 .. 2 /\ at \in Heights
      BY <2>2, NextBlock DEF HandleBlock, TypeOK, Commits, Missed, Signed, Proposed, Precommit
    <3>4. Best(at, blocks[at + 1]) \in {1, 2} => Best(at, blocks[at + 1]) = pending[at]
      BY <3>3 DEF Best, Highest
    <3>5. pending[at] <= seen[at] /\ seen[at] \in 0 .. 2
      BY <3>3 DEF TrackerIsSound, TypeOK, Missed, Precommit
    <3> QED
      BY <3>1, <3>2, <3>3, <3>4, <3>5 DEF NoContamination, Prevote, Precommit
  <2>3. CASE Reload \/ Restart
    BY <2>3 DEF Reload, Restart, FreshTarget, TypeOK, TrackerIsSound, NoContamination,
                NoVotes, Missed, Precommit
  <2>4. CASE UNCHANGED <<pending, seen, verdict>>
    BY <2>4 DEF TrackerIsSound, NoContamination
  <2>5. HandleBlock /\ ~ info => UNCHANGED <<pending, seen, verdict>>
    BY DEF HandleBlock
  <2> QED
    BY <2>1, <2>2, <2>3, <2>4, <2>5 DEF Next, Redial, RefreshStart, RefreshApply, WatchRaise,
       WatchResolve, Commit, signVars
<1> QED
  BY <1>1, <1>2, SigningTyped, PTL DEF Spec

(* An open alert about consecutive misses is cleared only after a block    *)
(* credited the validator, or by a reload or a restart.                    *)
THEOREM AllClearsAreEarned == Spec => AllClearIsEarned
<1> USE SigningAssumption
<1>1. Init => CountStands
  BY DEF Init, CountStands
<1>2. TypeOK /\ CountStands /\ [Next]_signVars => CountStands'
  <2> SUFFICES ASSUME TypeOK, CountStands, [Next]_signVars PROVE CountStands'
    OBVIOUS
  <2>1. CASE HandleBlock
    <3>1. CASE info
      <4>1. DEFINE st == IF bonded THEN Best(at, blocks[at + 1]) ELSE Unknown
      <4>2. st \in Unknown .. Proposed
        BY <2>1, NextBlock DEF HandleBlock, Unknown, Missed, Proposed
      <4>3. st < Signed => consec' \in {consec, consec + 1}
        BY <2>1, <3>1, <4>2 DEF HandleBlock, Unknown, Missed, Precommit, Signed, Proposed
      <4>4. excused' = (excused \/ st >= Signed) /\ open' = open
        BY <2>1, <3>1 DEF HandleBlock, alarmVars
      <4> QED
        BY <4>2, <4>3, <4>4 DEF TypeOK, CountStands, Unknown, Signed, Proposed
    <3>2. CASE ~ info
      BY <2>1, <3>2 DEF HandleBlock, CountStands, alarmVars
    <3> QED
      BY <3>1, <3>2
  <2>2. CASE WatchRaise
    BY <2>2 DEF WatchRaise, Raises, CountStands
  <2>3. CASE WatchResolve
    BY <2>3 DEF WatchResolve, CountStands
  <2>4. CASE Reload \/ Restart
    BY <2>4 DEF Reload, Restart, FreshTarget, CountStands
  <2>5. CASE UNCHANGED <<open, excused, consec>>
    BY <2>5 DEF CountStands
  <2> QED
    BY <2>1, <2>2, <2>3, <2>4, <2>5 DEF Next, HandleVote, Redial, RefreshStart, RefreshApply,
       Commit, signVars, alarmVars
<1>3. TypeOK /\ CountStands /\ [Next]_signVars => [open /\ ~ open' => excused]_signVars
  <2> SUFFICES ASSUME TypeOK, CountStands, Next, open, ~ open'
               PROVE  excused
    OBVIOUS
  <2>1. WatchResolve
    BY DEF Next, HandleVote, HandleBlock, Redial, RefreshStart, RefreshApply, WatchRaise,
           Reload, Restart, Commit, alarmVars
  <2> QED
    BY <2>1 DEF WatchResolve, Resolves, CountStands, TypeOK
<1> QED
  BY <1>1, <1>2, <1>3, SigningTyped, PTL DEF Spec, AllClearIsEarned

(***************************************************************************)
(* Cards.                                                                  *)
(***************************************************************************)
Chats == [posts : 0 .. MaxPosts, shows : [1 .. MaxPosts -> SUBSET CardKeys],
          gone : SUBSET (1 .. MaxPosts)]

(* A card names a message that was posted, or none.                        *)
NamesPosts == \A g \in CardNames :
  /\ cards[g] # NoCard => cards[g].msg <= chat.posts
  /\ kept[g] # NoCard => kept[g].msg <= chat.posts

(* Between two Sends the file has the message of every card.               *)
KeptUp == ~ unsaved =>
  \A g \in CardNames : cards[g] # NoCard /\ cards[g].msg # 0
    => kept[g] # NoCard /\ kept[g].msg = cards[g].msg

MessagesAreKept == NamesPosts /\ KeptUp /\ chat.gone \subseteq 1 .. chat.posts

LEMMA CardFields ==
  ASSUME NEW card \in Cards
  PROVE  /\ card.msg \in 0 .. MaxPosts /\ card.open \subseteq CardKeys /\ card.age \in CardAges
         /\ card # NoCard
         /\ \A i \in 0 .. MaxPosts :
              /\ [card EXCEPT !.msg = i] \in Cards
              /\ [card EXCEPT !.msg = i].msg = i
              /\ [card EXCEPT !.msg = i].open = card.open
<1>1. card # NoCard
  BY CardsAssumption
<1>2. card.msg \in 0 .. MaxPosts /\ card.open \subseteq CardKeys /\ card.age \in CardAges
  BY DEF Cards
<1>3. ASSUME NEW i \in 0 .. MaxPosts
      PROVE  /\ [card EXCEPT !.msg = i] \in Cards
             /\ [card EXCEPT !.msg = i].msg = i
             /\ [card EXCEPT !.msg = i].open = card.open
  BY DEF Cards
<1> QED
  BY <1>1, <1>2, <1>3

LEMMA ChatFields ==
  ASSUME NEW c \in Chats
  PROVE  /\ c.posts \in 0 .. MaxPosts /\ c.posts \in Nat /\ c.posts + 1 \notin 1 .. c.posts
         /\ c.shows \in [1 .. MaxPosts -> SUBSET CardKeys]
         /\ c.gone \subseteq 1 .. MaxPosts
  BY CardsAssumption DEF Chats

(* What a call of the Bot API leaves of the card and the chat.             *)
Leaves(r, card) ==
  /\ r.card \in Cards /\ r.chat \in Chats
  /\ r.card.open = card.open
  /\ r.card.msg <= r.chat.posts
  /\ r.chat.gone = chat.gone /\ chat.posts <= r.chat.posts

(* A new message with the card as its text.                                *)
LEMMA PostedLeaves ==
  ASSUME CardsTypeOK, NEW card \in Cards, chat.posts < MaxPosts
  PROVE  /\ Posted(card).ok = TRUE
         /\ Leaves(Posted(card), card)
         /\ Posted(card).card.msg = chat.posts + 1
         /\ Posted(card).chat.posts = chat.posts + 1
         /\ Posted(card).chat.shows[chat.posts + 1] = card.open
<1> DEFINE new == chat.posts + 1
           after == [chat EXCEPT !.posts = new, !.shows[new] = card.open]
           named == [card EXCEPT !.msg = new]
<1>1. chat \in Chats /\ chat.posts \in 0 .. MaxPosts /\ chat.posts \in Nat
  BY ChatFields DEF CardsTypeOK, Chats
<1>2. new \in 1 .. MaxPosts /\ new \in 0 .. MaxPosts /\ chat.posts <= new /\ new <= new
  BY <1>1, CardsAssumption
<1>3. card.open \in SUBSET CardKeys
  BY CardFields
<1>4. /\ after \in Chats /\ after.posts = new /\ after.shows[new] = card.open
      /\ after.gone = chat.gone
  BY <1>1, <1>2, <1>3 DEF Chats
<1>5. named \in Cards /\ named.msg = new /\ named.open = card.open
  BY <1>2, CardFields
<1>6. Posted(card).ok = TRUE /\ Posted(card).card = named /\ Posted(card).chat = after
  <2>1. Posted(card) = [ok |-> TRUE, card |-> named, chat |-> after]
    BY Zenon DEF Posted, Outcome
  <2> HIDE DEF after, named
  <2> QED
    BY <2>1
<1> HIDE DEF after, named, new
<1>7. Leaves(Posted(card), card)
  BY <1>1, <1>2, <1>4, <1>5, <1>6 DEF Leaves
<1> QED
  BY <1>4, <1>5, <1>6, <1>7 DEF new

(* What sendMessage leaves behind: a new message the card names, one       *)
(* nobody knows, or nothing.                                               *)
LEMMA PostLeaves ==
  ASSUME CardsTypeOK, NEW card \in Cards, NEW r \in Posts(card)
  PROVE  /\ r.ok \in BOOLEAN
         /\ Leaves(r, card)
         /\ r.ok => /\ r.card.msg = chat.posts + 1 /\ r.chat.posts = chat.posts + 1
                    /\ r.chat.shows[chat.posts + 1] = card.open
         /\ ~ r.ok => r.card.msg = 0
<1>1. /\ chat \in Chats /\ chat.posts \in 0 .. MaxPosts /\ chat.posts \in Nat
      /\ 0 \in 0 .. MaxPosts
  BY ChatFields, CardsAssumption DEF CardsTypeOK, Chats
<1>2. CASE r = Outcome(FALSE, [card EXCEPT !.msg = 0], chat)
  <2>1. r.ok = FALSE /\ r.card = [card EXCEPT !.msg = 0] /\ r.chat = chat
    BY <1>2 DEF Outcome
  <2>2. [card EXCEPT !.msg = 0] \in Cards /\ [card EXCEPT !.msg = 0].msg = 0
        /\ [card EXCEPT !.msg = 0].open = card.open
    BY <1>1, CardFields
  <2>3. Leaves(r, card)
    BY <1>1, <2>1, <2>2 DEF Leaves
  <2> QED
    BY <2>1, <2>2, <2>3, Zenon
<1>3. CASE chat.posts < MaxPosts /\ r = Posted(card)
  <2>1. r.ok = TRUE
    BY <1>3, PostedLeaves
  <2> QED
    BY <1>3, <2>1, PostedLeaves, Zenon
<1>4. CASE chat.posts < MaxPosts /\ r = Unheard(Posted(card))
  <2> DEFINE named == Posted(card).card
  <2>1. Leaves(Posted(card), card)
    BY <1>4, PostedLeaves
  <2>2. named \in Cards
    BY <2>1 DEF Leaves
  <2>3. [named EXCEPT !.msg = 0] \in Cards /\ [named EXCEPT !.msg = 0].msg = 0
        /\ [named EXCEPT !.msg = 0].open = named.open
    BY <1>1, <2>2, CardFields
  <2>4. r.ok = FALSE /\ r.chat = Posted(card).chat /\ r.card = [named EXCEPT !.msg = 0]
    BY <1>4 DEF Unheard, Posted, Outcome
  <2>5. Posted(card).chat.posts \in Nat
    BY <2>1, ChatFields DEF Leaves
  <2> HIDE DEF named
  <2>6. Leaves(r, card)
    BY <2>1, <2>3, <2>4, <2>5 DEF Leaves, named
  <2> QED
    BY <2>3, <2>4, <2>6, Zenon
<1> QED
  BY <1>2, <1>3, <1>4 DEF Posts

(* What an edit leaves behind: the card keeps its message while the chat   *)
(* has it, and where it reports success the chat shows the card.           *)
LEMMA EditLeaves ==
  ASSUME CardsTypeOK, MessagesAreKept, NEW card \in Cards, card.msg <= chat.posts,
         NEW r \in Edits(card)
  PROVE  /\ r.ok \in BOOLEAN
         /\ Leaves(r, card)
         /\ r.card.msg # card.msg /\ card.msg # 0 => card.msg \in chat.gone
         /\ r.ok => /\ r.card.msg \in 1 .. r.chat.posts /\ r.card.msg \notin r.chat.gone
                    /\ r.chat.shows[r.card.msg] = card.open
         /\ ~ r.ok => r.card.msg \in {0, card.msg}
<1>1. /\ chat \in Chats /\ chat.posts \in 0 .. MaxPosts /\ chat.posts \in Nat
      /\ chat.posts + 1 \notin chat.gone
  BY ChatFields DEF CardsTypeOK, Chats, MessagesAreKept
<1>2. card.msg \in 0 .. MaxPosts /\ card.open \in SUBSET CardKeys
  BY CardFields
<1>3. CASE r = Outcome(FALSE, card, chat)
  <2>1. r.ok = FALSE /\ r.card = card /\ r.chat = chat
    BY <1>3 DEF Outcome
  <2>2. Leaves(r, card)
    BY <1>1, <1>2, <2>1 DEF Leaves
  <2> QED
    BY <2>1, <2>2, Zenon
<1>4. ASSUME NEW ok \in BOOLEAN, Live(card.msg),
             r = Outcome(ok, card, [chat EXCEPT !.shows[card.msg] = card.open])
      PROVE  /\ r.ok \in BOOLEAN /\ Leaves(r, card) /\ r.card = card
             /\ card.msg \in 1 .. r.chat.posts /\ card.msg \notin r.chat.gone
             /\ r.chat.shows[card.msg] = card.open
  <2> DEFINE after == [chat EXCEPT !.shows[card.msg] = card.open]
  <2>1. card.msg \in 1 .. MaxPosts /\ card.msg \in 1 .. chat.posts /\ card.msg \notin chat.gone
    BY <1>1, <1>2, <1>4 DEF Live
  <2>2. r.card = card /\ r.chat = after /\ r.ok = ok
    BY <1>4 DEF Outcome
  <2>3. /\ after \in Chats /\ after.posts = chat.posts /\ after.gone = chat.gone
        /\ after.shows[card.msg] = card.open
    BY <1>1, <1>2, <2>1 DEF Chats
  <2> HIDE DEF after
  <2>4. Leaves(r, card)
    BY <1>1, <2>1, <2>2, <2>3 DEF Leaves
  <2>5. r.ok \in BOOLEAN
    BY <2>2, Zenon
  <2> QED
    BY <2>1, <2>2, <2>3, <2>4, <2>5, Zenon
<1>5. CASE ~ Live(card.msg) /\ r \in Posts(card)
  <2>1. card.msg # 0 => card.msg \in chat.gone
    BY <1>1, <1>2, <1>5 DEF Live
  <2>2. r.ok \in BOOLEAN /\ Leaves(r, card) /\ (~ r.ok => r.card.msg = 0)
    BY <1>5, PostLeaves, Zenon
  <2>3. ASSUME r.ok
        PROVE  /\ r.card.msg \in 1 .. r.chat.posts /\ r.card.msg \notin r.chat.gone
               /\ r.chat.shows[r.card.msg] = card.open
    <3>1. /\ r.card.msg = chat.posts + 1 /\ r.chat.posts = chat.posts + 1
          /\ r.chat.shows[chat.posts + 1] = card.open
      BY <1>5, <2>3, PostLeaves, Zenon
    <3>2. r.chat.gone = chat.gone
      BY <2>2 DEF Leaves
    <3>3. chat.posts + 1 \in 1 .. chat.posts + 1
      BY <1>1
    <3> QED
      BY <1>1, <3>1, <3>2, <3>3, Zenon
  <2> QED
    BY <2>1, <2>2, <2>3, Zenon
<1>6. CASE Live(card.msg) /\ \E ok \in BOOLEAN :
            r = Outcome(ok, card, [chat EXCEPT !.shows[card.msg] = card.open])
  BY <1>4, <1>6, Zenon
<1>7. \/ r = Outcome(FALSE, card, chat)
      \/ Live(card.msg) /\ \E ok \in BOOLEAN :
            r = Outcome(ok, card, [chat EXCEPT !.shows[card.msg] = card.open])
      \/ ~ Live(card.msg) /\ r \in Posts(card)
  <2>1. CASE Live(card.msg)
    BY <2>1, Zenon DEF Edits
  <2>2. CASE ~ Live(card.msg)
    BY <2>2, Zenon DEF Edits
  <2> QED
    BY <2>1, <2>2
<1> QED
  BY <1>3, <1>5, <1>6, <1>7, Zenon
(* What a Send does to the card and the chat: it takes no message off the  *)
(* card that still shows something and is still there, ...                 *)
KeepsMessage(old, new, c) ==
  old # NoCard /\ old.msg # 0 /\ (new = NoCard \/ new.msg # old.msg)
    => old.msg \in c.gone \/ c.shows[old.msg] = {}

(* ... and what it reports as delivered is shown.                          *)
Delivers(m, ok, old, new, c) ==
  ok => /\ m.what = "raise" => /\ new # NoCard /\ new.msg \notin c.gone
                               /\ m.key \in c.shows[new.msg]
        /\ Agrees(old, chat) => Agrees(new, c)

Handles(m, ok, old, new, c) ==
  /\ new \in Cards \cup {NoCard} /\ c \in Chats
  /\ c.gone = chat.gone /\ chat.posts <= c.posts
  /\ new # NoCard => new.msg <= c.posts
  /\ KeepsMessage(old, new, c)
  /\ Delivers(m, ok, old, new, c)

(* Where nothing is about to be saved there is nothing new to save.        *)
NothingNew(old, new) == new = NoCard \/ new.msg = 0 \/ (old # NoCard /\ new.msg = old.msg)

(* A card with other conditions on it is the same message.                 *)
LEMMA OtherText ==
  ASSUME NEW card \in Cards, NEW text \in SUBSET CardKeys
  PROVE  /\ [card EXCEPT !.open = text] \in Cards
         /\ [card EXCEPT !.open = text].msg = card.msg
         /\ [card EXCEPT !.open = text].open = text
  BY DEF Cards

(* The card of a message is one of the channel's, or there is none.        *)
LEMMA MyCard ==
  ASSUME CardsTypeOK, MessagesAreKept, NEW m \in Sends
  PROVE  /\ m.key \in CardKeys /\ Mine(m) \in CardNames
         /\ cards[Mine(m)] \in Cards \cup {NoCard} /\ chat \in Chats
         /\ chat.posts \in Nat /\ chat.posts <= chat.posts
         /\ cards[Mine(m)] # NoCard => cards[Mine(m)].msg <= chat.posts
<1>1. m.key \in CardKeys
  BY DEF Sends
<1>2. Mine(m) \in CardNames
  BY <1>1 DEF Mine, CardNames
<1>3. chat \in Chats
  BY DEF CardsTypeOK, Chats
<1>4. chat.posts \in Nat /\ chat.posts <= chat.posts
  BY <1>3, ChatFields
<1>5. cards[Mine(m)] \in Cards \cup {NoCard}
  BY <1>2 DEF CardsTypeOK
<1>6. cards[Mine(m)] # NoCard => cards[Mine(m)].msg <= chat.posts
  BY <1>2 DEF MessagesAreKept, NamesPosts
<1> QED
  BY <1>1, <1>2, <1>3, <1>4, <1>5, <1>6

(* An edit of a card to other conditions keeps its message, and shows the  *)
(* conditions when it reports success.                                     *)
LEMMA EditHandles ==
  ASSUME CardsTypeOK, MessagesAreKept, NEW m \in Sends, cards[Mine(m)] # NoCard,
         NEW text \in SUBSET CardKeys,
         NEW r \in Edits([cards[Mine(m)] EXCEPT !.open = text])
  PROVE  LET old == cards[Mine(m)]
         IN  /\ r.ok \in BOOLEAN /\ r.card \in Cards /\ r.chat \in Chats
             /\ r.card.open = text
             /\ r.chat.gone = chat.gone /\ chat.posts <= r.chat.posts
             /\ r.card.msg <= r.chat.posts
             /\ r.card.msg # old.msg /\ old.msg # 0 => old.msg \in r.chat.gone
             /\ ~ r.ok => r.card.msg \in {0, old.msg}
             /\ r.ok => /\ r.card.msg \notin r.chat.gone /\ r.chat.shows[r.card.msg] = text
<1> DEFINE old == cards[Mine(m)]
           card == [old EXCEPT !.open = text]
<1>1. old \in Cards /\ old.msg <= chat.posts
  BY MyCard
<1>2. card \in Cards /\ card.msg = old.msg /\ card.open = text
  BY <1>1, OtherText
<1>3. r \in Edits(card)
  OBVIOUS
<1> HIDE DEF old, card
<1>4. card.msg <= chat.posts
  BY <1>1, <1>2
<1>5. /\ r.ok \in BOOLEAN
      /\ Leaves(r, card)
      /\ r.card.msg # card.msg /\ card.msg # 0 => card.msg \in chat.gone
      /\ r.ok => /\ r.card.msg \notin r.chat.gone
                 /\ r.chat.shows[r.card.msg] = card.open
      /\ ~ r.ok => r.card.msg \in {0, card.msg}
  BY <1>2, <1>3, <1>4, EditLeaves, Zenon
<1>6. /\ r.card \in Cards /\ r.chat \in Chats /\ r.card.open = card.open
      /\ r.chat.gone = chat.gone /\ chat.posts <= r.chat.posts
      /\ r.card.msg <= r.chat.posts
  BY <1>5, Zenon DEF Leaves
<1> QED
  BY <1>2, <1>5, <1>6, Zenon DEF old

LEMMA ShowFirstHandles ==
  ASSUME CardsTypeOK, MessagesAreKept, NEW m \in Sends, NEW ok \in BOOLEAN, ShowFirst(m, ok)
  PROVE  /\ \E new : /\ cards' = [cards EXCEPT ![Mine(m)] = new]
                     /\ Handles(m, ok, cards[Mine(m)], new, chat')
                     /\ ~ unsaved' => NothingNew(cards[Mine(m)], new)
         /\ unsaved' \in BOOLEAN
<1> DEFINE first == [msg |-> 0, open |-> {m.key}, age |-> 0]
<1>1. /\ cards[Mine(m)] = NoCard /\ m.key \in CardKeys /\ unsaved' = ok
      /\ Mine(m) \in CardNames
  BY MyCard DEF ShowFirst
<1>2. first \in Cards /\ first.open = {m.key}
  BY <1>1, CardsAssumption DEF Cards, CardAges
<1>3. PICK r \in Posts(first) :
        /\ r.ok = ok
        /\ IF ok THEN Put(m, r.card) ELSE UNCHANGED cards
        /\ chat' = r.chat
  BY DEF ShowFirst
<1> HIDE DEF first
<1>4. /\ Leaves(r, first)
      /\ ok => /\ r.card.msg = chat.posts + 1 /\ r.chat.posts = chat.posts + 1
               /\ r.chat.shows[chat.posts + 1] = first.open
  BY <1>2, <1>3, PostLeaves, Zenon
<1>5. /\ r.card \in Cards /\ chat' \in Chats /\ r.card # NoCard
      /\ chat'.gone = chat.gone /\ chat.posts <= chat'.posts
      /\ r.card.msg <= chat'.posts
  BY <1>3, <1>4, CardFields DEF Leaves
<1>6. CASE ok
  <2>1. cards' = [cards EXCEPT ![Mine(m)] = r.card]
    BY <1>3, <1>6 DEF Put
  <2>2. chat.posts + 1 \notin chat.gone
    BY MyCard DEF MessagesAreKept
  <2>3. KeepsMessage(cards[Mine(m)], r.card, chat')
    BY <1>1 DEF KeepsMessage
  <2>4. Agrees(r.card, chat')
    BY <1>3, <1>4, <1>6 DEF Agrees, Leaves
  <2>5. r.card.msg \notin chat'.gone /\ m.key \in chat'.shows[r.card.msg]
    BY <1>2, <1>3, <1>4, <1>5, <1>6, <2>2
  <2>6. Handles(m, ok, cards[Mine(m)], r.card, chat')
    BY <1>5, <2>3, <2>4, <2>5, Zenon DEF Handles, Delivers
  <2> QED
    BY <1>1, <1>6, <2>1, <2>6, Zenon
<1>7. CASE ~ ok
  <2>1. cards' = cards
    BY <1>3, <1>7, Zenon
  <2>2. cards' = [cards EXCEPT ![Mine(m)] = NoCard]
    BY <1>1, <2>1 DEF CardsTypeOK
  <2>3. Handles(m, ok, cards[Mine(m)], NoCard, chat')
    BY <1>1, <1>5, <1>7, Zenon DEF Handles, Delivers, KeepsMessage
  <2> QED
    BY <1>1, <2>2, <2>3, Zenon DEF NothingNew
<1> QED
  BY <1>6, <1>7

LEMMA ShowMoreHandles ==
  ASSUME CardsTypeOK, MessagesAreKept, NEW m \in Sends, NEW ok \in BOOLEAN, ~ unsaved,
         ShowMore(m, ok)
  PROVE  /\ \E new : /\ cards' = [cards EXCEPT ![Mine(m)] = new]
                     /\ Handles(m, ok, cards[Mine(m)], new, chat')
                     /\ ~ unsaved' => NothingNew(cards[Mine(m)], new)
         /\ unsaved' \in BOOLEAN
<1> DEFINE old == cards[Mine(m)]
           text == old.open \cup {m.key}
           card == [old EXCEPT !.open = text]
<1>1. /\ m.key \in CardKeys /\ old \in Cards /\ old # NoCard /\ old.msg <= chat.posts
      /\ chat \in Chats /\ chat.posts <= chat.posts
  BY MyCard DEF ShowMore
<1>2. text \in SUBSET CardKeys /\ m.key \in text
  BY <1>1, CardFields
<1>3. \/ ~ ok /\ Put(m, card) /\ UNCHANGED <<unsaved, chat>>
      \/ (\E r \in Edits(card) : r.ok = ok /\ Put(m, r.card) /\ chat' = r.chat) /\ unsaved' = TRUE
  BY Zenon DEF ShowMore
<1> HIDE DEF text
<1>4. CASE ~ ok /\ Put(m, card) /\ UNCHANGED <<unsaved, chat>>
  <2>1. card \in Cards /\ card.msg = old.msg
    BY <1>1, <1>2, OtherText
  <2> HIDE DEF card
  <2>2. KeepsMessage(old, card, chat')
    BY <2>1, CardFields DEF KeepsMessage
  <2>3. card.msg <= chat'.posts /\ chat'.posts = chat.posts /\ chat'.gone = chat.gone
    BY <1>1, <1>4, <2>1
  <2> HIDE DEF old
  <2>4. Handles(m, ok, old, card, chat')
    BY <1>1, <1>4, <2>1, <2>2, <2>3, Zenon DEF Handles, Delivers
  <2>5. NothingNew(old, card)
    BY <1>1, <2>1, Zenon DEF NothingNew
  <2>6. cards' = [cards EXCEPT ![Mine(m)] = card] /\ unsaved' \in BOOLEAN
    BY <1>4, Zenon DEF Put, CardsTypeOK
  <2> QED
    BY <2>4, <2>5, <2>6, Zenon DEF old
<1>5. CASE (\E r \in Edits(card) : r.ok = ok /\ Put(m, r.card) /\ chat' = r.chat) /\ unsaved' = TRUE
  <2>1. PICK r \in Edits(card) : r.ok = ok /\ Put(m, r.card) /\ chat' = r.chat
    BY <1>5
  <2>2. /\ r.ok \in BOOLEAN /\ r.card \in Cards /\ r.chat \in Chats
        /\ r.card.open = text
        /\ r.chat.gone = chat.gone /\ chat.posts <= r.chat.posts
        /\ r.card.msg <= r.chat.posts
        /\ r.card.msg # old.msg /\ old.msg # 0 => old.msg \in r.chat.gone
        /\ ~ r.ok => r.card.msg \in {0, old.msg}
        /\ r.ok => /\ r.card.msg \notin r.chat.gone /\ r.chat.shows[r.card.msg] = text
    BY <1>1, <1>2, <2>1, EditHandles, Zenon
  <2> HIDE DEF card, old
  <2>3. KeepsMessage(old, r.card, chat')
    BY <2>1, <2>2, CardFields, Zenon DEF KeepsMessage
  <2>4. ok => Agrees(r.card, chat')
    BY <2>1, <2>2, Zenon DEF Agrees
  <2>5. ok => r.card # NoCard /\ r.card.msg \notin chat'.gone /\ m.key \in chat'.shows[r.card.msg]
    BY <1>2, <2>1, <2>2, CardFields, Zenon
  <2>6. Handles(m, ok, old, r.card, chat')
    BY <2>1, <2>2, <2>3, <2>4, <2>5, Zenon DEF Handles, Delivers
  <2>7. cards' = [cards EXCEPT ![Mine(m)] = r.card]
    BY <2>1, Zenon DEF Put
  <2> QED
    BY <1>5, <2>6, <2>7, Zenon DEF old
<1> QED
  BY <1>3, <1>4, <1>5, Zenon

LEMMA ClearHandles ==
  ASSUME CardsTypeOK, MessagesAreKept, NEW m \in Sends, NEW ok \in BOOLEAN, Clear(m, ok)
  PROVE  /\ \E new : /\ cards' = [cards EXCEPT ![Mine(m)] = new]
                     /\ Handles(m, ok, cards[Mine(m)], new, chat')
                     /\ ~ unsaved' => NothingNew(cards[Mine(m)], new)
         /\ unsaved' \in BOOLEAN
<1> DEFINE old == cards[Mine(m)]
           text == old.open \ {m.key}
           card == [old EXCEPT !.open = text]
<1>1. /\ m.key \in CardKeys /\ old \in Cards /\ old # NoCard /\ old.msg <= chat.posts
      /\ chat \in Chats /\ m.what # "raise"
  BY MyCard DEF Clear, OnCard
<1>2. text \in SUBSET CardKeys
  BY <1>1, CardFields
<1>3. PICK r \in Edits(card) :
        /\ chat' = r.chat
        /\ Put(m, IF r.ok /\ r.card.open = {} THEN NoCard ELSE r.card)
        /\ unsaved' = r.ok
        /\ r.ok = ok \/ (r.ok /\ r.card.open = {})
  BY Zenon DEF Clear
<1> HIDE DEF text
<1>4. /\ r.ok \in BOOLEAN /\ r.card \in Cards /\ r.chat \in Chats
      /\ r.card.open = text
      /\ r.chat.gone = chat.gone /\ chat.posts <= r.chat.posts
      /\ r.card.msg <= r.chat.posts
      /\ r.card.msg # old.msg /\ old.msg # 0 => old.msg \in r.chat.gone
      /\ ~ r.ok => r.card.msg \in {0, old.msg}
      /\ r.ok => /\ r.card.msg \notin r.chat.gone /\ r.chat.shows[r.card.msg] = text
  BY <1>1, <1>2, <1>3, EditHandles, Zenon
<1> DEFINE new == IF r.ok /\ r.card.open = {} THEN NoCard ELSE r.card
<1>5. cards' = [cards EXCEPT ![Mine(m)] = new] /\ unsaved' = r.ok
  BY <1>3, Zenon DEF Put
<1> HIDE DEF card, old
<1>6. CASE r.ok /\ r.card.open = {}
  <2>1. new = NoCard
    BY <1>6
  <2>2. KeepsMessage(old, NoCard, chat')
    <3>1. old.msg # 0 /\ r.card.msg # old.msg => old.msg \in chat'.gone
      BY <1>3, <1>4, Zenon
    <3>2. r.card.msg = old.msg => chat'.shows[old.msg] = {}
      BY <1>3, <1>4, <1>6, Zenon
    <3> QED
      BY <3>1, <3>2, Zenon DEF KeepsMessage
  <2>3. Handles(m, ok, old, NoCard, chat')
    BY <1>1, <1>3, <1>4, <2>2, Zenon DEF Handles, Delivers, Agrees
  <2> QED
    BY <1>4, <1>5, <1>6, <2>1, <2>3, Zenon DEF old
<1>7. CASE ~ (r.ok /\ r.card.open = {})
  <2>1. new = r.card /\ r.ok = ok
    BY <1>3, <1>7, Zenon
  <2>2. KeepsMessage(old, r.card, chat')
    BY <1>3, <1>4, CardFields, Zenon DEF KeepsMessage
  <2>3. ok => Agrees(r.card, chat')
    BY <1>3, <1>4, <2>1, Zenon DEF Agrees
  <2>4. Handles(m, ok, old, r.card, chat')
    BY <1>1, <1>3, <1>4, <2>2, <2>3, Zenon DEF Handles, Delivers
  <2>5. ~ r.ok => NothingNew(old, r.card)
    BY <1>1, <1>4, Zenon DEF NothingNew
  <2> QED
    BY <1>4, <1>5, <2>1, <2>4, <2>5, Zenon DEF old
<1> QED
  BY <1>6, <1>7, Zenon
LEMMA SendHandles ==
  ASSUME CardsTypeOK, MessagesAreKept, NEW m \in Sends, NEW ok \in BOOLEAN, Send(m, ok)
  PROVE  /\ cards' = [cards EXCEPT ![Mine(m)] = cards'[Mine(m)]]
         /\ Handles(m, ok, cards[Mine(m)], cards'[Mine(m)], chat')
         /\ ~ unsaved' => NothingNew(cards[Mine(m)], cards'[Mine(m)])
         /\ unsaved' \in BOOLEAN
<1>1. SUFFICES /\ \E new : /\ cards' = [cards EXCEPT ![Mine(m)] = new]
                           /\ Handles(m, ok, cards[Mine(m)], new, chat')
                           /\ ~ unsaved' => NothingNew(cards[Mine(m)], new)
               /\ unsaved' \in BOOLEAN
  <2>1. PICK new : /\ cards' = [cards EXCEPT ![Mine(m)] = new]
                   /\ Handles(m, ok, cards[Mine(m)], new, chat')
                   /\ ~ unsaved' => NothingNew(cards[Mine(m)], new)
    BY <1>1
  <2>2. cards'[Mine(m)] = new
    BY <2>1, MyCard DEF CardsTypeOK
  <2> QED
    BY <1>1, <2>1, <2>2, Zenon
<1>2. CASE ClearNothing(m, ok)
  <2>1. cards' = [cards EXCEPT ![Mine(m)] = cards[Mine(m)]]
    BY <1>2, MyCard DEF ClearNothing, Skip, CardsTypeOK
  <2>2. chat' = chat /\ unsaved' = unsaved /\ m.what # "raise"
    BY <1>2 DEF ClearNothing, Skip
  <2>3. KeepsMessage(cards[Mine(m)], cards[Mine(m)], chat')
    BY Zenon DEF KeepsMessage
  <2>4. Delivers(m, ok, cards[Mine(m)], cards[Mine(m)], chat')
    BY <2>2, Zenon DEF Delivers
  <2>5. Handles(m, ok, cards[Mine(m)], cards[Mine(m)], chat')
    BY <2>2, <2>3, <2>4, MyCard, Zenon DEF Handles
  <2>6. NothingNew(cards[Mine(m)], cards[Mine(m)])
    BY Zenon DEF NothingNew
  <2>7. unsaved' \in BOOLEAN
    BY <2>2, Zenon DEF CardsTypeOK
  <2> QED
    BY <2>1, <2>5, <2>6, <2>7, Zenon
<1> QED
  BY <1>2, ShowFirstHandles, ShowMoreHandles, ClearHandles, Zenon DEF Send

(* Time makes cards older, nothing else.                                   *)
LEMMA AgedKeeps ==
  ASSUME NEW cs \in [CardNames -> Cards \cup {NoCard}]
  PROVE  /\ Aged(cs) \in [CardNames -> Cards \cup {NoCard}]
         /\ \A g \in CardNames : /\ Aged(cs)[g] = NoCard <=> cs[g] = NoCard
                                 /\ cs[g] # NoCard => Aged(cs)[g].msg = cs[g].msg
<1>1. ASSUME NEW g \in CardNames
      PROVE  /\ Aged(cs)[g] \in Cards \cup {NoCard}
             /\ Aged(cs)[g] = NoCard <=> cs[g] = NoCard
             /\ cs[g] # NoCard => Aged(cs)[g].msg = cs[g].msg
  <2>1. CASE cs[g] = NoCard \/ cs[g].age = 2
    BY <2>1 DEF Aged
  <2>2. CASE cs[g] # NoCard /\ cs[g].age # 2
    <3>1. cs[g] \in Cards /\ cs[g].age + 1 \in CardAges
      BY <2>2 DEF Cards, CardAges
    <3>2. Aged(cs)[g] = [cs[g] EXCEPT !.age = @ + 1]
      BY <2>2 DEF Aged
    <3>3. Aged(cs)[g] \in Cards /\ Aged(cs)[g].msg = cs[g].msg
      BY <3>1, <3>2 DEF Cards
    <3> QED
      BY <2>2, <3>3, CardFields, Zenon
  <2> QED
    BY <2>1, <2>2, Zenon
<1> QED
  BY <1>1 DEF Aged

LEMMA CardsStep ==
  ASSUME CardsTypeOK, MessagesAreKept, [CardsNext]_cardVars
  PROVE  CardsTypeOK' /\ MessagesAreKept'
<1>1. CASE UNCHANGED cardVars
  BY <1>1 DEF cardVars, CardsTypeOK, MessagesAreKept, NamesPosts, KeptUp
<1>2. CASE \E m \in Sends, ok \in BOOLEAN : Send(m, ok)
  <2>1. PICK m \in Sends, ok \in BOOLEAN : Send(m, ok)
    BY <1>2, Zenon
  <2> DEFINE old == cards[Mine(m)]
             new == cards'[Mine(m)]
  <2>2. cards' = [cards EXCEPT ![Mine(m)] = new] /\ Handles(m, ok, old, new, chat')
        /\ (~ unsaved' => NothingNew(old, new)) /\ unsaved' \in BOOLEAN
    BY <2>1, SendHandles, Zenon
  <2>3. told' = told /\ kept' = kept /\ ~ unsaved
    BY <2>1 DEF Send
  <2>4. sends' \subseteq Sends
    BY <2>1 DEF Send, Settle, Sends, CardsTypeOK
  <2>5. /\ new \in Cards \cup {NoCard} /\ chat' \in Chats
        /\ chat'.gone = chat.gone /\ chat.posts <= chat'.posts
        /\ new # NoCard => new.msg <= chat'.posts
    BY <2>2, Zenon DEF Handles
  <2>6. Mine(m) \in CardNames /\ chat.posts \in Nat /\ chat'.posts \in Nat
    BY <2>5, MyCard, ChatFields
  <2> HIDE DEF new
  <2>7. \A g \in CardNames : cards'[g] = IF g = Mine(m) THEN new ELSE cards[g]
    BY <2>2, <2>6 DEF CardsTypeOK
  <2>8. CardsTypeOK'
    BY <2>2, <2>3, <2>4, <2>5, <2>6 DEF CardsTypeOK, Chats
  <2>9. NamesPosts'
    <3> SUFFICES ASSUME NEW g \in CardNames
                 PROVE  /\ cards'[g] # NoCard => cards'[g].msg <= chat'.posts
                        /\ kept[g] # NoCard => kept[g].msg <= chat'.posts
      BY <2>3 DEF NamesPosts
    <3>1. /\ cards[g] # NoCard => cards[g].msg \in Nat /\ cards[g].msg <= chat.posts
          /\ kept[g] # NoCard => kept[g].msg \in Nat /\ kept[g].msg <= chat.posts
      BY CardsAssumption DEF CardsTypeOK, MessagesAreKept, NamesPosts, Cards
    <3> QED
      BY <2>5, <2>6, <2>7, <3>1
  <2>10. KeptUp'
    <3> SUFFICES ASSUME ~ unsaved', NEW g \in CardNames, cards'[g] # NoCard, cards'[g].msg # 0
                 PROVE  kept[g] # NoCard /\ kept[g].msg = cards'[g].msg
      BY <2>3, Zenon DEF KeptUp
    <3>1. cards[g] # NoCard /\ cards'[g].msg = cards[g].msg
      BY <2>2, <2>7, Zenon DEF NothingNew
    <3> QED
      BY <2>3, <3>1, Zenon DEF MessagesAreKept, KeptUp
  <2>11. chat'.gone \subseteq 1 .. chat'.posts
    BY <2>5, <2>6 DEF MessagesAreKept
  <2> QED
    BY <2>8, <2>9, <2>10, <2>11 DEF MessagesAreKept
<1>3. CASE Save
  BY <1>3 DEF Save, CardsTypeOK, MessagesAreKept, NamesPosts, KeptUp
<1>4. CASE \E k \in CardKeys : TellOpen(k) \/ TellClear(k)
  <2>1. PICK k \in CardKeys : TellOpen(k) \/ TellClear(k)
    BY <1>4
  <2>2. UNCHANGED <<cards, kept, unsaved, chat>> /\ told' \subseteq CardKeys
    BY <2>1 DEF TellOpen, TellClear, Tell, CardsTypeOK
  <2>3. sends' \subseteq Sends
    BY <2>1 DEF TellOpen, TellClear, Tell, CardsTypeOK, First, Sends
  <2> QED
    BY <2>2, <2>3 DEF CardsTypeOK, MessagesAreKept, NamesPosts, KeptUp
<1>5. CASE RestartChannel
  <2>1. /\ kept' = kept /\ chat' = chat /\ told' = told /\ sends' = {}
        /\ cards' \in [CardNames -> Cards \cup {NoCard}] /\ unsaved' \in BOOLEAN
        /\ \A g \in CardNames : cards'[g] = NoCard \/ cards'[g] = kept[g]
    BY <1>5 DEF RestartChannel, CardsTypeOK
  <2>2. CardsTypeOK'
    BY <2>1 DEF CardsTypeOK
  <2>3. NamesPosts' /\ KeptUp'
    BY <2>1, Zenon DEF MessagesAreKept, NamesPosts, KeptUp
  <2> QED
    BY <2>1, <2>2, <2>3 DEF MessagesAreKept
<1>6. CASE PassTime
  <2>1. /\ cards \in [CardNames -> Cards \cup {NoCard}] /\ kept \in [CardNames -> Cards \cup {NoCard}]
    BY DEF CardsTypeOK
  <2>2. /\ cards' = Aged(cards) /\ kept' = Aged(kept)
        /\ UNCHANGED <<told, sends, unsaved, chat>>
    BY <1>6, Zenon DEF PassTime
  <2>3. CardsTypeOK'
    BY <2>1, <2>2, AgedKeeps DEF CardsTypeOK
  <2>4. \A g \in CardNames :
          /\ cards'[g] = NoCard <=> cards[g] = NoCard
          /\ cards[g] # NoCard => cards'[g].msg = cards[g].msg
          /\ kept'[g] = NoCard <=> kept[g] = NoCard
          /\ kept[g] # NoCard => kept'[g].msg = kept[g].msg
    BY <2>1, <2>2, AgedKeeps, Zenon
  <2>5. NamesPosts'
    <3> SUFFICES ASSUME NEW g \in CardNames
                 PROVE  /\ cards'[g] # NoCard => cards'[g].msg <= chat.posts
                        /\ kept'[g] # NoCard => kept'[g].msg <= chat.posts
      BY <2>2, Zenon DEF NamesPosts
    <3> QED
      BY <2>4, Zenon DEF MessagesAreKept, NamesPosts
  <2>6. KeptUp'
    <3> SUFFICES ASSUME ~ unsaved, NEW g \in CardNames, cards'[g] # NoCard, cards'[g].msg # 0
                 PROVE  kept'[g] # NoCard /\ kept'[g].msg = cards'[g].msg
      BY <2>2, Zenon DEF KeptUp
    <3>1. cards[g] # NoCard /\ cards[g].msg # 0 /\ cards'[g].msg = cards[g].msg
      BY <2>4, Zenon
    <3>2. kept[g] # NoCard /\ kept[g].msg = cards[g].msg
      BY <3>1, Zenon DEF MessagesAreKept, KeptUp
    <3> QED
      BY <2>4, <3>1, <3>2, Zenon
  <2> QED
    BY <2>2, <2>3, <2>5, <2>6 DEF MessagesAreKept
<1>7. CASE \E i \in 1 .. MaxPosts : LoseMessage(i)
  <2>1. PICK i \in 1 .. MaxPosts : LoseMessage(i)
    BY <1>7
  <2>2. /\ UNCHANGED <<told, sends, cards, kept, unsaved>>
        /\ i \in 1 .. chat.posts
        /\ chat' = [chat EXCEPT !.gone = @ \cup {i}]
    BY <2>1 DEF LoseMessage, Live
  <2>3. chat \in Chats
    BY DEF CardsTypeOK, Chats
  <2>4. chat' \in Chats /\ chat'.posts = chat.posts /\ chat'.gone = chat.gone \cup {i}
    BY <2>2, <2>3 DEF Chats
  <2>5. CardsTypeOK'
    BY <2>2, <2>4 DEF CardsTypeOK, Chats
  <2> QED
    BY <2>2, <2>4, <2>5 DEF MessagesAreKept, NamesPosts, KeptUp
<1> QED
  BY <1>1, <1>2, <1>3, <1>4, <1>5, <1>6, <1>7, Zenon DEF CardsNext

LEMMA CardsAtFirst == CardsInit => CardsTypeOK /\ MessagesAreKept
<1> SUFFICES ASSUME CardsInit
             PROVE  CardsTypeOK /\ MessagesAreKept
  OBVIOUS
<1>1. chat = [posts |-> 0, shows |-> [i \in 1 .. MaxPosts |-> {}], gone |-> {}]
      /\ 0 \in 0 .. MaxPosts
  BY CardsAssumption DEF CardsInit
<1>2. chat \in Chats /\ chat.gone = {}
  BY <1>1 DEF Chats
<1>3. \A g \in CardNames : cards[g] = NoCard /\ kept[g] = NoCard
  BY DEF CardsInit
<1>4. CardsTypeOK
  BY <1>2 DEF CardsInit, CardsTypeOK, Chats
<1> QED
  BY <1>2, <1>3, <1>4 DEF MessagesAreKept, NamesPosts, KeptUp

(* Type invariant of the cards of a Telegram channel.                      *)
THEOREM CardsTyped == CardsSpec => []CardsTypeOK
BY CardsAtFirst, CardsStep, PTL DEF CardsSpec

(* The file always has the message of every card when no Send is about to  *)
(* write it: telegram.go saves before it lets go of its lock whenever a    *)
(* card has got a new message.                                             *)
THEOREM TheFileKnowsEveryMessage == CardsSpec => []MessagesAreKept
BY CardsAtFirst, CardsStep, PTL DEF CardsSpec

(* A message that shows an open condition stays the message of its card:   *)
(* property NeverOrphaned, whatever calls of the Bot API fail, for any     *)
(* number of alerts on any number of cards.  A Send takes no such message  *)
(* off its card; a restart finds it in the file.                           *)
THEOREM CardsAreNeverOrphaned == CardsSpec => NeverOrphaned
<1> DEFINE Kept == \A i \in 1 .. MaxPosts :
       Owns(cards, i) /\ ~ Owns(cards', i)
         => chat'.shows[i] = {} \/ i \in chat'.gone \/ unsaved \/ WeekOld(i)
<1>1. CardsTypeOK /\ MessagesAreKept /\ [CardsNext]_cardVars => [Kept]_cardVars
  <2> SUFFICES ASSUME CardsTypeOK, MessagesAreKept, CardsNext,
                      NEW i \in 1 .. MaxPosts, Owns(cards, i), ~ Owns(cards', i)
               PROVE  chat'.shows[i] = {} \/ i \in chat'.gone \/ unsaved \/ WeekOld(i)
    BY Zenon
  <2>1. PICK g \in CardNames : cards[g] # NoCard /\ cards[g].msg = i
    BY DEF Owns
  <2>2. i # 0 /\ ~ (cards'[g] # NoCard /\ cards'[g].msg = i)
    BY DEF Owns
  <2>3. CASE \E m \in Sends, ok \in BOOLEAN : Send(m, ok)
    <3>1. PICK m \in Sends, ok \in BOOLEAN : Send(m, ok)
      BY <2>3, Zenon
    <3>2. /\ cards' = [cards EXCEPT ![Mine(m)] = cards'[Mine(m)]]
          /\ KeepsMessage(cards[Mine(m)], cards'[Mine(m)], chat')
      BY <3>1, SendHandles, Zenon DEF Handles
    <3>3. g = Mine(m)
      BY <2>1, <2>2, <3>2 DEF CardsTypeOK
    <3> QED
      BY <2>1, <2>2, <3>2, <3>3, Zenon DEF KeepsMessage
  <2>4. CASE RestartChannel
    <3>1. CASE ~ unsaved
      <4>1. kept[g] # NoCard /\ kept[g].msg = i
        BY <2>1, <2>2, <3>1, Zenon DEF MessagesAreKept, KeptUp
      <4>2. kept[g].age = 2
        BY <2>2, <2>4, <4>1 DEF RestartChannel
      <4> QED
        BY <4>1, <4>2, Zenon DEF WeekOld
    <3> QED
      BY <3>1
  <2>5. CASE PassTime
    <3>1. cards \in [CardNames -> Cards \cup {NoCard}] /\ cards' = Aged(cards)
      BY <2>5 DEF PassTime, CardsTypeOK
    <3> QED
      BY <2>1, <2>2, <3>1, AgedKeeps, Zenon
  <2>6. CASE UNCHANGED cards
    BY <2>1, <2>2, <2>6, Zenon
  <2> QED
    BY <2>3, <2>4, <2>5, <2>6 DEF CardsNext, Save, TellOpen, TellClear, Tell, LoseMessage
<1>2. CardsInit => CardsTypeOK /\ MessagesAreKept
  BY CardsAtFirst
<1>3. (CardsTypeOK /\ MessagesAreKept) /\ [CardsNext]_cardVars => (CardsTypeOK /\ MessagesAreKept)'
  BY CardsStep
<1> QED
  BY <1>1, <1>2, <1>3, PTL DEF CardsSpec, NeverOrphaned

(* What Send reports as delivered is in the chat: property                 *)
(* DeliveredIsShown.                                                       *)
THEOREM WhatIsDeliveredIsShown == CardsSpec => DeliveredIsShown
<1> DEFINE Shown == \A m \in Sends :
       Send(m, TRUE)
         => /\ m.what = "raise" =>
                 LET card == cards'[Mine(m)]
                 IN  card # NoCard /\ card.msg \notin chat'.gone /\ m.key \in chat'.shows[card.msg]
            /\ Agrees(cards[Mine(m)], chat) => Agrees(cards'[Mine(m)], chat')
<1>1. CardsTypeOK /\ MessagesAreKept => Shown
  <2> SUFFICES ASSUME CardsTypeOK, MessagesAreKept, NEW m \in Sends, Send(m, TRUE)
               PROVE  /\ m.what = "raise" =>
                           /\ cards'[Mine(m)] # NoCard /\ cards'[Mine(m)].msg \notin chat'.gone
                           /\ m.key \in chat'.shows[cards'[Mine(m)].msg]
                      /\ Agrees(cards[Mine(m)], chat) => Agrees(cards'[Mine(m)], chat')
    BY Zenon
  <2>1. Delivers(m, TRUE, cards[Mine(m)], cards'[Mine(m)], chat')
    BY SendHandles, Zenon DEF Handles
  <2> QED
    BY <2>1, Zenon DEF Delivers
<1>2. CardsInit => CardsTypeOK /\ MessagesAreKept
  BY CardsAtFirst
<1>3. (CardsTypeOK /\ MessagesAreKept) /\ [CardsNext]_cardVars => (CardsTypeOK /\ MessagesAreKept)'
  BY CardsStep
<1> QED
  BY <1>1, <1>2, <1>3, PTL DEF CardsSpec, DeliveredIsShown
=============================================================================
