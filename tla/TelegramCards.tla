--------------------------- MODULE TelegramCards ---------------------------
(***************************************************************************)
(* internal/alert/notifiers/telegram.go: the cards a Telegram channel      *)
(* shows.  Alerts about one node share a card, a message that is edited as *)
(* the conditions on it come and go; the ids of the messages are kept in a *)
(* file.                                                                   *)
(*                                                                         *)
(* The engine is seen from the channel: it starts a goroutine per message  *)
(* (module PagerLedger), each calls Send and, when that fails, calls it    *)
(* once more, in any order between goroutines.  A goroutine lives for 45 s *)
(* and the flap window is minutes, so a key has at most one raise and one  *)
(* resolve under way.                                                      *)
(*                                                                         *)
(* Send runs inside Telegram.mu, its calls of the Bot API included, so     *)
(* only a crash comes between them: `Send` is everything up to the save    *)
(* and `Save` the rest.  What a card says of a condition is abstracted to  *)
(* whether it shows it as open.  Reminders are replies, which change no    *)
(* card, and are left out.                                                 *)
(***************************************************************************)
EXTENDS Integers, FiniteSets

CONSTANTS
  CardKeys,   (* dedup keys of the alerts sent to the channel              *)
  CardOf,     (* the key of the card an alert belongs on: its node, or itself *)
  RankOf,     (* the severity of an alert, as a number                     *)
  MaxPosts,   (* bound on the messages posted as cards                     *)
  MaxSends,   (* bound on the messages under way                           *)
  NoCard      (* there is none                                             *)

CardNames == {CardOf[k] : k \in CardKeys}

(* The age of a card: in its opening burst, later, or older than a week.   *)
CardAges == 0 .. 2

Cards == [msg : 0 .. MaxPosts, open : SUBSET CardKeys, age : CardAges]

ASSUME CardsAssumption ==
  /\ RankOf \in [CardKeys -> 1 .. 3]
  /\ MaxPosts \in Nat /\ MaxSends \in Nat
  /\ NoCard \notin Cards

VARIABLES
  told,      (* the incidents the engine holds open for the channel        *)
  sends,     (* the messages whose goroutine is running                    *)
  cards,     (* Telegram.cards                                             *)
  kept,      (* the cards in the file                                      *)
  unsaved,   (* a Send is about to write the file                          *)
  chat       (* what the chat shows                                        *)

cardVars == <<told, sends, cards, kept, unsaved, chat>>

Sends == [key : CardKeys, what : {"raise", "resolve"}, tries : 0 .. 1]
First(k, w) == [key |-> k, what |-> w, tries |-> 0]

CardsTypeOK ==
  /\ told \subseteq CardKeys
  /\ sends \subseteq Sends
  /\ cards \in [CardNames -> Cards \cup {NoCard}]
  /\ kept \in [CardNames -> Cards \cup {NoCard}]
  /\ unsaved \in BOOLEAN
  /\ chat \in [posts : 0 .. MaxPosts, shows : [1 .. MaxPosts -> SUBSET CardKeys],
               gone : SUBSET (1 .. MaxPosts)]

---------------------------------------------------------------------------
(* The Bot API                                                             *)

Live(i) == i \in 1 .. chat.posts /\ i \notin chat.gone

(* What a call leaves behind: did it work, the card, and the chat.         *)
Outcome(ok, card, c) == [ok |-> ok, card |-> card, chat |-> c]

(* sendMessage, with the card as its text.  Any call may fail, also after  *)
(* it has worked: then nobody knows the new message.                       *)
Posted(card) ==
  LET new == chat.posts + 1
  IN  Outcome(TRUE, [card EXCEPT !.msg = new],
              [chat EXCEPT !.posts = new, !.shows[new] = card.open])

Unheard(r) == [r EXCEPT !.ok = FALSE, !.card.msg = 0]

Posts(card) ==
  {Outcome(FALSE, [card EXCEPT !.msg = 0], chat)}
    \cup IF chat.posts < MaxPosts THEN {Posted(card), Unheard(Posted(card))} ELSE {}

(* edit: a message the chat no longer has is posted anew; when that fails  *)
(* too, the card is left with the id 0.                                    *)
Edits(card) ==
  {Outcome(FALSE, card, chat)}
    \cup IF Live(card.msg)
         THEN {Outcome(ok, card, [chat EXCEPT !.shows[card.msg] = card.open]) : ok \in BOOLEAN}
         ELSE Posts(card)

---------------------------------------------------------------------------
(* Send                                                                    *)

Mine(m) == CardOf[m.key]
OnCard(m) == cards[Mine(m)] # NoCard /\ m.key \in cards[Mine(m)].open

(* fire: a goroutine whose Send failed tries once more.                    *)
Settle(m, ok) ==
  sends' = (sends \ {m}) \cup (IF ok \/ m.tries = 1 THEN {} ELSE {[m EXCEPT !.tries = 1]})

Put(m, card) == cards' = [cards EXCEPT ![Mine(m)] = card]

(* Without an open condition a Send may have nothing to do.                *)
Skip == UNCHANGED <<cards, unsaved, chat>>

(* A first condition: the post has to work before there is a card.         *)
ShowFirst(m, ok) ==
  /\ m.what = "raise" /\ cards[Mine(m)] = NoCard
  /\ \E r \in Posts([msg |-> 0, open |-> {m.key}, age |-> 0]) :
       /\ r.ok = ok
       /\ IF ok THEN Put(m, r.card) ELSE UNCHANGED cards
       /\ chat' = r.chat
  /\ unsaved' = ok

Worse(m) ==
  LET card == cards[Mine(m)]
  IN  card.age > 0 /\ \A k \in card.open : RankOf[m.key] > RankOf[k]

(* Variant: a condition that is on the card needs no edit.                 *)
ShowMoreOnce(m, ok) ==
  /\ m.what = "raise" /\ cards[Mine(m)] # NoCard
  /\ LET card == [cards[Mine(m)] EXCEPT !.open = @ \cup {m.key}]
     IN  \/ /\ ok /\ OnCard(m)
            /\ Skip
         \/ /\ ~ ok /\ ~ OnCard(m) /\ Worse(m)
            /\ Put(m, card)
            /\ UNCHANGED <<unsaved, chat>>
         \/ /\ ~ OnCard(m)
            /\ \E r \in Edits(card) : r.ok = ok /\ Put(m, r.card) /\ chat' = r.chat
            /\ unsaved' = TRUE

(* A further condition, or one raised again.  A worse one is announced by  *)
(* a reply first; when that fails the card has the condition all the same. *)
ShowMore(m, ok) ==
  /\ m.what = "raise" /\ cards[Mine(m)] # NoCard
  /\ LET card == [cards[Mine(m)] EXCEPT !.open = @ \cup {m.key}]
     IN  \/ /\ ~ ok /\ ~ OnCard(m) /\ Worse(m)
            /\ Put(m, card)
            /\ UNCHANGED <<unsaved, chat>>
         \/ /\ \E r \in Edits(card) : r.ok = ok /\ Put(m, r.card) /\ chat' = r.chat
            /\ unsaved' = TRUE

(* Never shown, or already cleared.                                        *)
ClearNothing(m, ok) ==
  /\ m.what = "resolve" /\ ~ OnCard(m)
  /\ ok
  /\ Skip

(* Variant: a card without open conditions is dropped before the edit.     *)
ClearAndDrop(m, ok) ==
  /\ m.what = "resolve" /\ OnCard(m)
  /\ \E r \in Edits([cards[Mine(m)] EXCEPT !.open = @ \ {m.key}]) :
       /\ chat' = r.chat
       /\ Put(m, IF r.card.open = {} THEN NoCard ELSE r.card)
       /\ unsaved' = r.ok
       /\ r.ok = ok

(* The condition is cleared on the card before the edit is tried.  The     *)
(* last one also takes the card off the books, announced by a reply that   *)
(* may fail.                                                               *)
Clear(m, ok) ==
  /\ m.what = "resolve" /\ OnCard(m)
  /\ \E r \in Edits([cards[Mine(m)] EXCEPT !.open = @ \ {m.key}]) :
       /\ chat' = r.chat
       /\ Put(m, IF r.ok /\ r.card.open = {} THEN NoCard ELSE r.card)
       /\ unsaved' = r.ok
       /\ r.ok = ok \/ (r.ok /\ r.card.open = {})

Send(m, ok) ==
  /\ m \in sends
  /\ ~ unsaved
  /\ ShowFirst(m, ok) \/ ShowMore(m, ok) \/ ClearNothing(m, ok) \/ Clear(m, ok)
  /\ Settle(m, ok)
  /\ UNCHANGED <<told, kept>>

Save ==
  /\ unsaved
  /\ kept' = cards
  /\ unsaved' = FALSE
  /\ UNCHANGED <<told, sends, cards, chat>>

---------------------------------------------------------------------------
(* The engine, restarts, time and the chat                                 *)

Flying(k, w) == \E m \in sends : m.key = k /\ m.what = w

Tell(k, w) ==
  /\ Cardinality(sends) < MaxSends
  /\ sends' = sends \cup {First(k, w)}
  /\ UNCHANGED <<cards, kept, unsaved, chat>>

TellOpen(k) ==
  /\ k \notin told /\ ~ Flying(k, "raise") /\ ~ Flying(k, "resolve")
  /\ told' = told \cup {k}
  /\ Tell(k, "raise")

TellClear(k) ==
  /\ k \in told
  /\ told' = told \ {k}
  /\ Tell(k, "resolve")

(* restore drops the cards older than a week.  The engine starts with the  *)
(* incidents of the state file (module Daemon).                            *)
RestartChannel ==
  /\ cards' = [g \in CardNames |->
                 IF kept[g] # NoCard /\ kept[g].age = 2 THEN NoCard ELSE kept[g]]
  /\ sends' = {}
  /\ unsaved' = FALSE
  /\ UNCHANGED <<told, kept, chat>>

Aged(cs) ==
  [g \in CardNames |->
     IF cs[g] = NoCard \/ cs[g].age = 2 THEN cs[g] ELSE [cs[g] EXCEPT !.age = @ + 1]]

PassTime ==
  /\ cards' = Aged(cards) /\ kept' = Aged(kept)
  /\ UNCHANGED <<told, sends, unsaved, chat>>

(* Somebody deletes a message, or it can no longer be edited.              *)
LoseMessage(i) ==
  /\ Live(i)
  /\ chat' = [chat EXCEPT !.gone = @ \cup {i}]
  /\ UNCHANGED <<told, sends, cards, kept, unsaved>>

CardsInit ==
  /\ told = {} /\ sends = {}
  /\ cards = [g \in CardNames |-> NoCard]
  /\ kept = cards
  /\ unsaved = FALSE
  /\ chat = [posts |-> 0, shows |-> [i \in 1 .. MaxPosts |-> {}], gone |-> {}]

CardsNext ==
  \/ \E m \in Sends, ok \in BOOLEAN : Send(m, ok)
  \/ Save
  \/ \E k \in CardKeys : TellOpen(k) \/ TellClear(k)
  \/ RestartChannel
  \/ PassTime
  \/ \E i \in 1 .. MaxPosts : LoseMessage(i)

CardsSpec == CardsInit /\ [][CardsNext]_cardVars

---------------------------------------------------------------------------
(* Properties                                                              *)

Owns(cs, i) == \E g \in CardNames : cs[g] # NoCard /\ cs[g].msg = i
WeekOld(i) == \E g \in CardNames : kept[g] # NoCard /\ kept[g].msg = i /\ kept[g].age = 2

(* telegram.go:24: "a resolve edits the card".  A message that shows an    *)
(* open condition stays the message of its card, whatever calls fail, in   *)
(* whatever order raises and resolves arrive, and over restarts: otherwise *)
(* nothing would ever take the condition off the chat.  It loses its card  *)
(* only when the process dies before the save, or after a week.            *)
NeverOrphaned ==
  [][\A i \in 1 .. MaxPosts :
       Owns(cards, i) /\ ~ Owns(cards', i)
         => chat'.shows[i] = {} \/ i \in chat'.gone \/ unsaved \/ WeekOld(i)]_cardVars

Agrees(card, c) ==
  card # NoCard /\ card.msg \in 1 .. c.posts => c.shows[card.msg] = card.open

(* telegram.go:146: "edits are silent", and the engine tries a failed Send *)
(* once more.  A raise that Send reports as delivered is on a card the     *)
(* chat shows, also when the first attempt had put it on the card before   *)
(* it failed; and a Send that reports success never makes a card and its   *)
(* message disagree.                                                       *)
DeliveredIsShown ==
  [][\A m \in Sends :
       Send(m, TRUE)
         => /\ m.what = "raise" =>
                 LET card == cards'[Mine(m)]
                 IN  card # NoCard /\ card.msg \notin chat'.gone /\ m.key \in chat'.shows[card.msg]
            /\ Agrees(cards[Mine(m)], chat) => Agrees(cards'[Mine(m)], chat')]_cardVars
=============================================================================
