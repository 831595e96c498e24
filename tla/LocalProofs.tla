---------------------------- MODULE LocalProofs ----------------------------
(***************************************************************************)
(* Proofs about what is watched on the node's own host: LocalChecks, for   *)
(* every set of levels, every bound on the height and every number of      *)
(* reloads and restarts, FileTail, for every number of lines, rotations    *)
(* and truncations, and LogRules, for every threshold, window and number   *)
(* of restarts.                                                            *)
(*                                                                         *)
(* RegressionIsOpen is not inductive: a latch set on an alert that is not  *)
(* open would swallow the page, and a stale round could close the alert    *)
(* behind the back of the record that watches it.  Neither happens: what   *)
(* is latched is open, and while a stale round is under way the record is  *)
(* fresh.                                                                  *)
(***************************************************************************)
EXTENDS LocalChecks, FileTail, LogRules, TLAPS

LatchedIsOpen == rec.alarm \subseteq open
FreshBesideStale == round.stale => rec = Fresh

IInv == TypeOK /\ LatchedIsOpen /\ FreshBesideStale /\ RegressionIsOpen

(* What a check makes of a record and of the engine.                       *)
LEMMA LatchingIsTyped ==
  ASSUME NEW r \in Records, NEW raise \in SUBSET Alerts, NEW clear \in SUBSET Alerts,
         open \subseteq Alerts
  PROVE  /\ Latched(r, raise, clear) \in Records
         /\ Opened(r, raise, clear) \subseteq Alerts
  BY DEF Latched, Opened, New, Done, Records

(* A check leaves the heights alone, and what it latches it opens.         *)
LEMMA LatchingOpens ==
  ASSUME NEW r \in Records, NEW raise, NEW clear
  PROVE  /\ Latched(r, raise, clear).signerMax = r.signerMax
         /\ Latched(r, raise, clear).signerHeight = r.signerHeight
         /\ r.alarm \subseteq open
              => Latched(r, raise, clear).alarm \subseteq Opened(r, raise, clear)
         /\ \A a \in open \ clear : a \in Opened(r, raise, clear)
  BY DEF Latched, Opened, New, Done, Records

LEMMA MineIsTyped == TypeOK => Mine \in Records
  BY DEF TypeOK, Mine, Rounds

LEMMA CountsAreTyped == \A n \in Counts : Counted(n) \in Counts
  BY DEF Counts, Counted

LEMMA FreshIsTyped == Fresh \in Records /\ NoRound \in Rounds
  BY LocalAssumption DEF Fresh, NoRound, Records, Rounds, Counts, Heights

LEMMA SeeingIsTyped ==
  ASSUME NEW r \in Records, NEW h \in Heights
  PROVE  /\ Seen(r, h) \in Records
         /\ Seen(r, h).alarm = r.alarm
         /\ Seen(r, h).signerHeight = h
         /\ Seen(r, h).signerMax = Highest(r.signerMax, h)
<1>1. Highest(r.signerMax, h) \in Heights /\ 0 \in Counts
  BY DEF Highest, Records, Counts
<1> QED
  BY <1>1 DEF Seen, Records

(* A check that reads no new height keeps the invariant's parts about the  *)
(* record, if it does not clear signer-regressed.                          *)
LEMMA CheckKeeps ==
  ASSUME IInv, NEW r \in Records,
         NEW raise \in SUBSET Alerts, NEW clear \in SUBSET Alerts,
         "signer-regressed" \notin clear,
         ~ round.stale => /\ r.alarm = rec.alarm
                          /\ r.signerMax = rec.signerMax
                          /\ r.signerHeight = rec.signerHeight,
         rec' = (IF round.stale THEN rec ELSE Latched(r, raise, clear)),
         open' = Opened(r, raise, clear)
  PROVE  LatchedIsOpen' /\ RegressionIsOpen' /\ (round.stale => rec' = Fresh)
<1>1. CASE round.stale
  BY <1>1 DEF IInv, LatchedIsOpen, FreshBesideStale, RegressionIsOpen, Fresh
<1>2. CASE ~ round.stale
  BY <1>2, LatchingOpens DEF IInv, LatchedIsOpen, RegressionIsOpen
<1> QED
  BY <1>1, <1>2

(***************************************************************************)
(* The actions                                                             *)
(***************************************************************************)
LEMMA DiskKeeps == IInv /\ ProbeDisk => IInv'
<1> SUFFICES ASSUME IInv, ProbeDisk
             PROVE  IInv'
  OBVIOUS
<1> USE DEF IInv
<1>1. Mine \in Records /\ open \subseteq Alerts
  BY MineIsTyped DEF TypeOK
<1>2. ~ round.stale => Mine = rec
  BY DEF Mine
<1>3. ASSUME NEW r \in Records, NEW raise \in SUBSET Alerts, NEW clear \in SUBSET Alerts,
             Learn(r, raise, clear), "signer-regressed" \notin clear,
             r.alarm = Mine.alarm, r.signerMax = Mine.signerMax,
             r.signerHeight = Mine.signerHeight
      PROVE  IInv'
  <2>1. LatchedIsOpen' /\ RegressionIsOpen' /\ (round.stale => rec' = Fresh)
    BY <1>2, <1>3, CheckKeeps DEF Learn
  <2>2. Latched(r, raise, clear) \in Records /\ open' \subseteq Alerts
    BY <1>1, <1>3, LatchingIsTyped DEF Learn
  <2>3. rec' \in Records /\ round' \in Rounds /\ round'.stale = round.stale
    BY <1>3, <2>2 DEF Learn, TypeOK, Rounds
  <2>4. TypeOK'
    BY <2>2, <2>3 DEF ProbeDisk, TypeOK, homeVars
  <2> QED
    BY <2>1, <2>3, <2>4 DEF FreshBesideStale
<1>4. CASE DiskFails
  <2> DEFINE r == [Mine EXCEPT !.diskErrs = Counted(@)]
  <2>1. r \in Records /\ r.alarm = Mine.alarm /\ r.signerMax = Mine.signerMax
        /\ r.signerHeight = Mine.signerHeight
    BY <1>1, CountsAreTyped DEF Records
  <2>2. {a \in {"disk-error"} : r.diskErrs = 2} \in SUBSET Alerts
    BY DEF Alerts
  <2>3. Learn(r, {a \in {"disk-error"} : r.diskErrs = 2}, {})
    BY <1>4 DEF DiskFails
  <2> HIDE DEF r
  <2> QED
    BY <1>3, <2>1, <2>2, <2>3
<1>5. CASE DiskAnswers
  <2> DEFINE r == [Mine EXCEPT !.diskErrs = 0]
             clear == Measured("good") \cup {"disk-error"}
  <2>1. r \in Records /\ r.alarm = Mine.alarm /\ r.signerMax = Mine.signerMax
        /\ r.signerHeight = Mine.signerHeight
    BY <1>1 DEF Records, Counts
  <2>2. Measured("bad") \in SUBSET Alerts /\ clear \in SUBSET Alerts
    BY DEF Measured, Alerts
  <2>3. "signer-regressed" \notin clear
    BY LocalAssumption DEF Measured, FileAlerts
  <2>4. Learn(r, Measured("bad"), clear)
    BY <1>5 DEF DiskAnswers
  <2> HIDE DEF r, clear
  <2> QED
    BY <1>3, <2>1, <2>2, <2>3, <2>4
<1> QED
  BY <1>4, <1>5 DEF ProbeDisk

(* A round that ends leaves types and the record beside a stale round in   *)
(* order, whatever it read.                                                *)
LEMMA LeaveTyped ==
  ASSUME IInv, NEW r \in Records,
         NEW raise \in SUBSET Alerts, NEW clear \in SUBSET Alerts,
         Leave(r, raise, clear), UNCHANGED <<homeVars, rebuilds>>
  PROVE  TypeOK' /\ FreshBesideStale'
<1>1. Latched(r, raise, clear) \in Records /\ open' \subseteq Alerts
  BY LatchingIsTyped DEF Leave, IInv, TypeOK
<1>2. rec' \in Records /\ round' \in Rounds
  BY <1>1, FreshIsTyped DEF Leave, IInv, TypeOK
<1> QED
  BY <1>1, <1>2 DEF Leave, IInv, TypeOK, homeVars, FreshBesideStale, NoRound

(* A height below the highest is paged by the very read that found it.     *)
LEMMA GoodReadKeeps ==
  ASSUME IInv, ReadIsGood, UNCHANGED <<homeVars, rebuilds>>
  PROVE  IInv'
<1> USE DEF IInv
<1>1. Mine \in Records /\ height \in Heights
  BY MineIsTyped DEF TypeOK
<1>2. PICK stalled \in {FALSE, MayStall(Mine, height)} :
        Leave(Seen(Mine, height),
              {a \in {"signer-regressed"} : Regressed(Mine, height)}
                \cup {a \in {"signer-stalled"} : stalled},
              {"signer-corrupt", "signer-state"}
                \cup {a \in {"signer-regressed"} : Back(Mine, height)}
                \cup {a \in {"signer-stalled"} : ~ stalled})
  BY DEF ReadIsGood
<1> DEFINE r == Seen(Mine, height)
           raise == {a \in {"signer-regressed"} : Regressed(Mine, height)}
                      \cup {a \in {"signer-stalled"} : stalled}
           clear == {"signer-corrupt", "signer-state"}
                      \cup {a \in {"signer-regressed"} : Back(Mine, height)}
                      \cup {a \in {"signer-stalled"} : ~ stalled}
<1>3. raise \in SUBSET Alerts /\ clear \in SUBSET Alerts
  BY DEF Alerts, FileAlerts
<1>4. /\ r \in Records /\ r.alarm = Mine.alarm /\ r.signerHeight = height
      /\ r.signerMax = Highest(Mine.signerMax, height)
  BY <1>1, SeeingIsTyped
<1>5. "signer-regressed" \in raise <=> Regressed(Mine, height)
  OBVIOUS
<1>6. "signer-regressed" \in clear <=> Back(Mine, height)
  OBVIOUS
<1>7. Leave(r, raise, clear)
  BY <1>2
<1> HIDE DEF r, raise, clear
<1>8. TypeOK' /\ FreshBesideStale'
  BY <1>3, <1>4, <1>7, LeaveTyped
<1>9. CASE round.stale
  <2>1. rec' = Fresh
    BY <1>7, <1>9 DEF Leave, FreshBesideStale
  <2>2. LatchedIsOpen' /\ RegressionIsOpen'
    BY <2>1 DEF LatchedIsOpen, RegressionIsOpen, Fresh
  <2> QED
    BY <1>8, <2>2
<1>10. CASE ~ round.stale
  <2>1. Mine = rec /\ rec' = Latched(r, raise, clear) /\ open' = Opened(r, raise, clear)
    BY <1>7, <1>10 DEF Leave, Mine
  <2>2. LatchedIsOpen'
    BY <1>4, <2>1, LatchingOpens DEF LatchedIsOpen
  <2>3. rec'.signerHeight = height /\ rec'.signerMax = Highest(rec.signerMax, height)
    BY <1>4, <2>1, LatchingOpens
  <2>4. ASSUME rec'.signerHeight < rec'.signerMax
        PROVE  "signer-regressed" \in open'
    <3>1. rec.signerMax \in Nat /\ height \in Nat
      BY <1>1, <2>1, LocalAssumption DEF Records, Heights
    <3>2. rec.signerMax > 0 /\ height < rec.signerMax
      BY <2>3, <2>4, <3>1 DEF Highest
    <3>3. "signer-regressed" \in raise \ clear
      BY <1>5, <1>6, <2>1, <3>1, <3>2 DEF Regressed, Back
    <3>4. rec.alarm \subseteq open /\ r.alarm = rec.alarm
      BY <1>4, <2>1 DEF LatchedIsOpen
    <3> QED
      BY <2>1, <3>3, <3>4 DEF Opened, New, Done
  <2> QED
    BY <1>8, <2>2, <2>4 DEF RegressionIsOpen
<1> QED
  BY <1>8, <1>9, <1>10

LEMMA FileKeeps == IInv /\ ProbeSignerFile => IInv'
<1> SUFFICES ASSUME IInv, ProbeSignerFile
             PROVE  IInv'
  OBVIOUS
<1>1. UNCHANGED <<homeVars, rebuilds>>
  BY DEF ProbeSignerFile
<1>2. Mine \in Records /\ (~ round.stale => Mine = rec)
  BY MineIsTyped DEF IInv, Mine
<1>3. ASSUME NEW r \in Records, NEW raise \in SUBSET Alerts, Leave(r, raise, {}),
             r.alarm = Mine.alarm, r.signerMax = Mine.signerMax,
             r.signerHeight = Mine.signerHeight
      PROVE  IInv'
  <2>1. LatchedIsOpen' /\ RegressionIsOpen'
    BY <1>2, <1>3, CheckKeeps DEF Leave
  <2> QED
    BY <1>1, <1>3, <2>1, LeaveTyped DEF IInv
<1>4. CASE ReadFails
  <2>1. (IF file = "missing" THEN {"signer-state"} ELSE {"disk-error"}) \in SUBSET Alerts
    BY DEF Alerts, FileAlerts
  <2> QED
    BY <1>2, <1>3, <1>4, <2>1 DEF ReadFails
<1>5. CASE ReadIsCorrupt
  <2> DEFINE r == [Mine EXCEPT !.signBad = Counted(@)]
  <2>1. r \in Records /\ r.alarm = Mine.alarm /\ r.signerMax = Mine.signerMax
        /\ r.signerHeight = Mine.signerHeight
    BY <1>2, CountsAreTyped DEF Records
  <2>2. {a \in {"signer-corrupt"} : r.signBad = 2} \in SUBSET Alerts
    BY DEF Alerts, FileAlerts
  <2>3. Leave(r, {a \in {"signer-corrupt"} : r.signBad = 2}, {})
    BY <1>5 DEF ReadIsCorrupt
  <2> HIDE DEF r
  <2> QED
    BY <1>3, <2>1, <2>2, <2>3
<1>6. CASE ReadIsGood
  BY <1>1, <1>6, GoodReadKeeps
<1> QED
  BY <1>4, <1>5, <1>6 DEF ProbeSignerFile

LEMMA RebuildKeeps == IInv /\ (Reload \/ Restart) => IInv'
<1> SUFFICES ASSUME IInv, Reload \/ Restart
             PROVE  IInv'
  OBVIOUS
<1>1. rec' = Fresh /\ open' = open /\ homeVars' = homeVars /\ rebuilds' \in 0 .. MaxRebuilds
  BY LocalAssumption DEF Reload, Restart, IInv, TypeOK
<1>2. round' \in Rounds
  BY MineIsTyped, FreshIsTyped DEF Reload, Restart, IInv, TypeOK, Rounds
<1>3. TypeOK'
  BY <1>1, <1>2, FreshIsTyped DEF IInv, TypeOK, homeVars
<1> QED
  BY <1>1, <1>3 DEF IInv, LatchedIsOpen, FreshBesideStale, RegressionIsOpen, Fresh

LEMMA WorldKeeps == IInv /\ (ChangeDisk \/ ChangeFile \/ UNCHANGED localVars) => IInv'
<1> SUFFICES ASSUME IInv, ChangeDisk \/ ChangeFile \/ UNCHANGED localVars
             PROVE  IInv'
  OBVIOUS
<1>1. rec' = rec /\ open' = open /\ round' = round /\ rebuilds' = rebuilds
  BY DEF ChangeDisk, ChangeFile, localVars
<1>2. height' \in Heights
  BY LocalAssumption DEF ChangeDisk, ChangeFile, localVars, homeVars, IInv, TypeOK, Heights
<1>3. TypeOK'
  BY <1>1, <1>2 DEF ChangeDisk, ChangeFile, localVars, homeVars, IInv, TypeOK
<1> QED
  BY <1>1, <1>3 DEF IInv, LatchedIsOpen, FreshBesideStale, RegressionIsOpen

LEMMA LocalInvariant == Spec => []IInv
<1>1. Init => IInv
  BY FreshIsTyped, LocalAssumption
     DEF Init, IInv, TypeOK, LatchedIsOpen, FreshBesideStale, RegressionIsOpen,
         Fresh, NoRound, Heights
<1>2. IInv /\ [Next]_localVars => IInv'
  BY DiskKeeps, FileKeeps, RebuildKeeps, WorldKeeps DEF Next
<1> QED
  BY <1>1, <1>2, PTL DEF Spec

(***************************************************************************)
(* The theorems                                                            *)
(***************************************************************************)

(* The node's record, a round under way and the open alerts stay typed.    *)
THEOREM LocalTyped == Spec => []TypeOK
<1>1. IInv => TypeOK
  BY DEF IInv
<1> QED
  BY <1>1, LocalInvariant, PTL

(* The double-sign tripwire: no unreadable file, reload or older round     *)
(* leaves a height below the highest one seen without its page.            *)
THEOREM RegressionsStayOpen == Spec => []RegressionIsOpen
<1>1. IInv => RegressionIsOpen
  BY DEF IInv
<1> QED
  BY <1>1, LocalInvariant, PTL

---------------------------------------------------------------------------
(* The log file.  A line is newer than what the rules have seen as long as *)
(* Stream has not passed it.  For that the files must be in the order of   *)
(* their lines, and an offset past the end of a file must mean that all of *)
(* the file is new.                                                        *)

LinesOf(f) == files[f].lines
Newer(f) == \A i \in 1 .. Len(LinesOf(f)), e \in emitted : e < LinesOf(f)[i]

(* The path is the newest file, and the node writes to no newer one than   *)
(* it has open.                                                            *)
DiskInv ==
  /\ path # NoFile => path = created
  /\ writer # NoFile => writer <= created
  /\ \A f \in Files : files[f].begun => f = writer
  /\ \A f \in Files : f > created \/ writer = NoFile \/ f > writer => LinesOf(f) = <<>>

(* Lines are numbered in the order they were written in.                   *)
Numbered ==
  /\ \A f \in Files, g \in Files : \A i \in 1 .. Len(LinesOf(f)), j \in 1 .. Len(LinesOf(g)) :
       f < g \/ (f = g /\ i < j) => LinesOf(f)[i] < LinesOf(g)[j]
  /\ \A f \in Files : \A i \in 1 .. Len(LinesOf(f)) : LinesOf(f)[i] <= written
  /\ \A e \in emitted : e <= written
  /\ Writing =>
       /\ written > 0
       /\ \A f \in Files : \A i \in 1 .. Len(LinesOf(f)) : LinesOf(f)[i] < written
       /\ \A e \in emitted : e < written

Unread ==
  IF source.file = NoFile
  THEN /\ ~ source.reading
       /\ source.tail => emitted = {}
       /\ ~ source.tail => source.off = 0
       /\ \A g \in Files : g >= created => Newer(g)
  ELSE /\ ~ source.tail /\ source.file <= created
       /\ \A g \in Files : g > source.file => Newer(g)
       /\ source.off > Size(source.file) => Newer(source.file)
       /\ \A i \in 1 .. Len(LinesOf(source.file)) : 2 * i > source.off
            => \A e \in emitted : e < LinesOf(source.file)[i]

NoOverrun == source.file # NoFile /\ truncates = 0 => source.off <= Size(source.file)

TailInv == TailTypeOK /\ DiskInv /\ Numbered /\ Unread /\ NoOverrun /\ NoGap

LEMMA TailTypeFacts ==
  ASSUME TailTypeOK
  PROVE  /\ \A f \in Files : LinesOf(f) \in Seq(Lines) /\ Len(LinesOf(f)) \in Nat
                             /\ files[f].begun \in BOOLEAN
         /\ \A f \in Files : \A i \in 1 .. Len(LinesOf(f)) : LinesOf(f)[i] \in Nat
         /\ Files \subseteq Nat /\ Lines \subseteq Nat
         /\ source.off \in Nat /\ source.tail \in BOOLEAN /\ source.reading \in BOOLEAN
         /\ source.file \in Files \cup {NoFile}
         /\ NoFile \notin Files /\ written \in Nat /\ created \in Nat
         /\ \A e \in emitted : e \in Nat
  BY TailAssumption DEF TailTypeOK, LinesOf, FileRecords, Sources, Files, Lines

LEMMA SizeFacts ==
  ASSUME TailTypeOK, NEW f \in Files
  PROVE  /\ Whole(f) = 2 * Len(LinesOf(f)) /\ Whole(f) \in Nat /\ Size(f) \in Nat
         /\ Size(f) >= Whole(f) /\ (Size(f) > Whole(f) => files[f].begun)
         /\ (files[f].begun => Size(f) = Whole(f) + 1) /\ Size(f) <= Whole(f) + 1
<1>1. Whole(f) = 2 * Len(LinesOf(f)) /\ Len(LinesOf(f)) \in Nat /\ files[f].begun \in BOOLEAN
  BY TailTypeFacts DEF Whole, LinesOf
<1>2. Whole(f) \in Nat
  BY <1>1
<1>3. CASE files[f].begun
  BY <1>1, <1>2, <1>3 DEF Size
<1>4. CASE ~ files[f].begun
  BY <1>1, <1>2, <1>4 DEF Size
<1> QED
  BY <1>3, <1>4

(* The next line, without the division.                                    *)
LEMMA NextLineFacts ==
  ASSUME TailTypeOK, source.file # NoFile, source.off < Whole(source.file)
  PROVE  /\ NextLine \in 1 .. Len(LinesOf(source.file))
         /\ 2 * NextLine > source.off
         /\ \A i \in Nat : 2 * i > source.off => i >= NextLine
<1>1. source.off \in Nat /\ source.file \in Files
  BY TailTypeFacts
<1>2. Whole(source.file) = 2 * Len(LinesOf(source.file)) /\ Len(LinesOf(source.file)) \in Nat
  BY <1>1, SizeFacts, TailTypeFacts
<1>3. NextLine \in Nat /\ 2 * NextLine > source.off /\ 2 * NextLine <= source.off + 2 /\ NextLine >= 1
  BY <1>1 DEF NextLine
<1> QED
  BY <1>1, <1>2, <1>3

LEMMA SourcesStay ==
  ASSUME TailTypeOK, NEW f \in Files, NEW off \in Nat
  PROVE  At(f, off) \in Sources /\ Closed \in Sources
  BY DEF At, Closed, TailTypeOK, Sources

(* A poll.                                                                 *)
LEMMA PollKeeps == ASSUME TailInv, Poll PROVE TailInv'
<1> USE DEF TailInv
<1>1. TailTypeOK /\ UNCHANGED <<files, created, path, writer, written, truncates, emitted>>
  BY DEF Poll, diskVars
<1>2. /\ \A f : LinesOf(f)' = LinesOf(f) /\ Size(f)' = Size(f) /\ Newer(f)' <=> Newer(f)
      /\ Writing' <=> Writing
  BY <1>1 DEF LinesOf, Size, Whole, Newer, Writing
<1>3. DiskInv' /\ Numbered'
  <2>1. DiskInv'
    BY <1>1 DEF DiskInv, LinesOf
  <2>2. Numbered'
    BY <1>1 DEF Numbered, LinesOf, Writing
  <2> QED
    BY <2>1, <2>2
<1>4. path # NoFile => path \in Files /\ path = created
  BY DEF TailTypeOK, DiskInv
<1>8. /\ source' \in Sources => TailTypeOK'
      /\ \A f \in Files : Size(f) \in Nat
  BY <1>1, SizeFacts DEF TailTypeOK
<1>5. CASE OpenFirst
  <2>1. PICK off \in Nat : source' = At(path, off) /\ off <= Size(path)
                           /\ (source.tail \/ off = 0)
    <3>1. Size(path) \in Nat /\ source.off \in Nat
      BY <1>1, <1>4, <1>5, SizeFacts, TailTypeFacts DEF OpenFirst
    <3> QED
      BY <1>5, <3>1 DEF OpenFirst, Unread
  <2>2. source'.file = path /\ source'.off = off /\ ~ source'.tail /\ path \in Files
    BY <1>1, <1>4, <1>5, <2>1 DEF OpenFirst, At, TailTypeOK, Sources
  <2>3. source.file = NoFile /\ path # NoFile /\ path = created
    BY <1>4, <1>5 DEF OpenFirst
  <2>4. \A g \in Files : g >= created => Newer(g)
    BY <2>3 DEF Unread
  <2>5. TailTypeOK'
    BY <1>1, <1>8, <2>1, <2>2, SourcesStay
  <2>6. Unread'
    <3>1. \A g \in Files : g > path => Newer(g)
      BY <1>1, <2>2, <2>3, <2>4, TailTypeFacts
    <3>2. Newer(path)
      BY <1>1, <2>2, <2>3, <2>4, TailTypeFacts
    <3>3. \A i \in 1 .. Len(LinesOf(path)), e \in emitted : e < LinesOf(path)[i]
      BY <3>2 DEF Newer
    <3> QED
      BY <1>1, <1>2, <2>2, <2>3, <3>1, <3>2, <3>3, TailTypeFacts DEF Unread
  <2>7. NoOverrun'
    BY <1>1, <2>1, <2>2 DEF NoOverrun, Size, Whole
  <2>8. NoGap'
    BY <1>1, <2>1, <2>2, <2>3, TailTypeFacts DEF NoGap, Unread, LinesOf
  <2> QED
    BY <1>3, <2>5, <2>6, <2>7, <2>8
<1>6. CASE Stay
  <2>1. PICK off \in Nat : /\ source' = At(source.file, off)
                           /\ off = IF Size(source.file) < source.off THEN 0 ELSE source.off
    BY <1>1, <1>6, TailTypeFacts DEF Stay
  <2>2. /\ source'.file = source.file /\ source'.off = off /\ ~ source'.tail
        /\ source.file \in Files /\ source.file # NoFile
    BY <1>1, <1>6, <2>1, TailTypeFacts DEF Stay, At, TailTypeOK, Sources
  <2>3. TailTypeOK'
    BY <1>1, <1>8, <2>1, <2>2, SourcesStay
  <2>4. Unread'
    <3>1. CASE Size(source.file) < source.off
      <4>1. Newer(source.file) /\ off = 0
        BY <2>1, <2>2, <3>1 DEF Unread
      <4>2. \A i \in 1 .. Len(LinesOf(source.file)), e \in emitted : e < LinesOf(source.file)[i]
        BY <4>1 DEF Newer
      <4> QED
        BY <1>1, <1>2, <2>2, <4>1, <4>2 DEF Unread
    <3>2. CASE ~ (Size(source.file) < source.off)
      <4>1. source'.off = source.off
        BY <2>1, <2>2, <3>2
      <4> QED
        BY <1>1, <2>2, <4>1 DEF Unread, Newer, LinesOf, Size, Whole
    <3> QED
      BY <3>1, <3>2
  <2>5. NoOverrun'
    <3>1. source.off \in Nat /\ Size(source.file) \in Nat
      BY <1>8, <2>2, TailTypeFacts
    <3>2. off <= Size(source.file)
      BY <2>1, <3>1
    <3> QED
      BY <1>1, <2>2, <3>2 DEF NoOverrun, Size, Whole
  <2>6. NoGap'
    <3>1. CASE off = 0
      <4>1. \A i \in 1 .. Len(LinesOf(source.file)) : ~ (2 * i <= 0)
        OBVIOUS
      <4> QED
        BY <1>1, <2>2, <3>1, <4>1 DEF NoGap, LinesOf
    <3>2. CASE off = source.off
      BY <1>1, <2>2, <3>2 DEF NoGap, LinesOf
    <3> QED
      BY <2>1, <3>1, <3>2
  <2> QED
    BY <1>3, <2>3, <2>4, <2>5, <2>6
<1>7. CASE Follow
  <2>1. source.file \in Files /\ source.file # NoFile /\ path \in Files
        /\ path = created /\ path > source.file
    BY <1>1, <1>4, <1>7, TailTypeFacts DEF Follow, Unread
  <2>2. \A g \in Files : g >= path => Newer(g)
    BY <1>1, <2>1, TailTypeFacts DEF Unread
  <2>3. CASE source' = At(path, 0)
    <3>1. source'.file = path /\ source'.off = 0 /\ ~ source'.tail /\ path # NoFile
      BY <1>1, <1>7, <2>3 DEF Follow, At, TailTypeOK, Sources
    <3>2. TailTypeOK'
      BY <1>1, <1>8, <2>1, <2>3, SourcesStay
    <3>3. \A i \in 1 .. Len(LinesOf(path)), e \in emitted : e < LinesOf(path)[i]
      <4>1. path \in Nat /\ path >= path
        BY <1>1, <2>1, TailTypeFacts
      <4>2. Newer(path)
        BY <2>1, <2>2, <4>1
      <4> QED
        BY <4>2 DEF Newer
    <3>4. Unread'
      BY <1>1, <1>2, <2>1, <2>2, <3>1, <3>3, TailTypeFacts DEF Unread
    <3>5. NoOverrun' /\ NoGap'
      <4>1. 0 <= Size(path)
        BY <1>8, <2>1
      <4>2. \A i \in 1 .. Len(LinesOf(path)) : ~ (2 * i <= 0)
        OBVIOUS
      <4>3. NoOverrun'
        BY <1>1, <3>1, <4>1 DEF NoOverrun, Size, Whole
      <4>4. NoGap'
        BY <1>1, <3>1, <4>2 DEF NoGap, LinesOf
      <4> QED
        BY <4>3, <4>4
    <3> QED
      BY <1>3, <3>2, <3>4, <3>5
  <2>4. CASE source' = Closed
    <3>1. source'.file = NoFile /\ source'.off = 0 /\ ~ source'.tail /\ ~ source'.reading
      BY <1>1, <2>1, <2>4 DEF Poll, Closed, TailTypeOK, Sources, Unread
    <3>2. TailTypeOK'
      BY <1>1, <1>8, <2>1, <2>4, SourcesStay
    <3> QED
      BY <1>1, <1>2, <1>3, <2>1, <2>2, <3>1, <3>2 DEF Unread, NoOverrun, NoGap
  <2> QED
    BY <1>7, <2>3, <2>4 DEF Follow
<1> QED
  BY <1>5, <1>6, <1>7 DEF Poll

(* A line is read: it is older than all that are unread, here and in newer *)
(* files.                                                                  *)
LEMMA ReadLineKeeps == ASSUME TailInv, ReadLine PROVE TailInv'
<1> USE DEF TailInv
<1> DEFINE cur == source.file
           n == NextLine
<1>1. /\ TailTypeOK /\ UNCHANGED diskVars
      /\ source' = [source EXCEPT !.off = 2 * n]
      /\ emitted' = emitted \cup {LinesOf(cur)[n]}
  BY DEF ReadLine, LinesOf
<1>2. cur # NoFile /\ cur \in Files /\ source.reading
  BY <1>1, TailTypeFacts DEF ReadLine, Unread
<1>3. /\ n \in 1 .. Len(LinesOf(cur)) /\ n \in Nat /\ 2 * n > source.off
      /\ \A i \in Nat : 2 * i > source.off => i >= n
  BY <1>2, NextLineFacts, TailTypeFacts DEF ReadLine
<1>4. source'.off = 2 * n /\ source'.file = cur /\ source'.tail = source.tail
  BY <1>1, <1>3 DEF TailTypeOK, Sources
<1>5. LinesOf(cur)[n] \in Lines /\ Len(LinesOf(cur)) \in Nat
  BY <1>2, <1>3, TailTypeFacts
<1>6. TailTypeOK'
  <2>1. source' \in Sources
    BY <1>1, <1>3 DEF TailTypeOK, Sources
  <2> QED
    BY <1>1, <1>5, <2>1 DEF TailTypeOK, diskVars
<1>7. DiskInv'
  BY <1>1 DEF DiskInv, LinesOf, diskVars
<1>8. Numbered'
  <2>1. /\ \A e \in emitted' : e <= written
        /\ Writing => \A e \in emitted' : e < written
    BY <1>1, <1>2, <1>3 DEF Numbered
  <2> QED
    BY <1>1, <2>1 DEF Numbered, LinesOf, Writing, diskVars
<1>9. \A g \in Files : \A j \in 1 .. Len(LinesOf(g)) :
        g > cur \/ (g = cur /\ j > n) => LinesOf(cur)[n] < LinesOf(g)[j]
  BY <1>2, <1>3, TailTypeFacts DEF Numbered
<1>10. Unread'
  <2>1. \A g \in Files : g > cur => \A j \in 1 .. Len(LinesOf(g)), e \in emitted' : e < LinesOf(g)[j]
    BY <1>1, <1>2, <1>9 DEF Unread, Newer
  <2>2. ~ (2 * n > Size(cur))
    BY <1>1, <1>2, <1>3, <1>5, SizeFacts
  <2>3. \A i \in 1 .. Len(LinesOf(cur)) : 2 * i > 2 * n
          => \A e \in emitted' : e < LinesOf(cur)[i]
    <3> SUFFICES ASSUME NEW i \in 1 .. Len(LinesOf(cur)), 2 * i > 2 * n, NEW e \in emitted'
                 PROVE  e < LinesOf(cur)[i]
      OBVIOUS
    <3>1. i > n /\ 2 * i > source.off
      BY <1>1, <1>3, <1>5, TailTypeFacts
    <3>2. e \in emitted \/ e = LinesOf(cur)[n]
      BY <1>1
    <3> QED
      BY <1>2, <1>9, <3>1, <3>2 DEF Unread
  <2>4. ~ source.tail /\ cur <= created
    BY <1>2 DEF Unread
  <2> QED
    BY <1>1, <1>2, <1>4, <2>1, <2>2, <2>3, <2>4
    DEF Unread, Newer, LinesOf, Size, Whole, diskVars
<1>11. NoOverrun'
  <2>1. 2 * n <= Size(cur)
    BY <1>1, <1>2, <1>3, <1>5, SizeFacts
  <2> QED
    BY <1>1, <1>4, <2>1 DEF NoOverrun, Size, Whole, diskVars
<1>12. NoGap'
  <2>1. ASSUME truncates = 0, NEW i \in 1 .. Len(LinesOf(cur)), 2 * i <= 2 * n
        PROVE  LET l == LinesOf(cur)[i] IN l \in emitted' \/ \A e \in emitted' : l < e
    <3>1. CASE i = n
      BY <1>1, <3>1
    <3>2. CASE i # n
      <4>1. i < n /\ 2 * i <= source.off
        <5>1. i \in Nat /\ n \in Nat /\ source.off \in Nat /\ 2 * i <= 2 * n
          BY <1>1, <1>3, <1>5, <2>1, TailTypeFacts
        <5>2. i < n
          BY <3>2, <5>1
        <5>3. ~ (2 * i > source.off)
          BY <1>3, <5>1, <5>2
        <5> QED
          BY <5>1, <5>2, <5>3
      <4>2. LinesOf(cur)[i] < LinesOf(cur)[n]
        BY <1>2, <1>3, <4>1 DEF Numbered
      <4> QED
        BY <1>1, <1>2, <2>1, <4>1, <4>2 DEF NoGap, LinesOf
    <3> QED
      BY <3>1, <3>2
  <2> QED
    BY <1>1, <1>4, <2>1 DEF NoGap, LinesOf, diskVars
<1> QED
  BY <1>6, <1>7, <1>8, <1>10, <1>11, <1>12

(* The disk moves on while Stream stands still: a file keeps its lines, is *)
(* given one that is newer than all that was emitted, or is emptied.       *)
SameLines(f) == LinesOf(f)' = LinesOf(f) /\ Size(f)' >= Size(f)

OneMoreLine(f) ==
  /\ Len(LinesOf(f)') = Len(LinesOf(f)) + 1
  /\ \A i \in 1 .. Len(LinesOf(f)) : LinesOf(f)'[i] = LinesOf(f)[i]
  /\ \A e \in emitted : e < LinesOf(f)'[Len(LinesOf(f)) + 1]
  /\ Size(f)' = Size(f) + 1 /\ Size(f) = 2 * Len(LinesOf(f)) + 1

NoLines(f) == LinesOf(f)' = <<>> /\ truncates' # 0

LEMMA NewerStaysNewer ==
  ASSUME TailTypeOK, emitted' = emitted, NEW f \in Files, Newer(f),
         SameLines(f) \/ OneMoreLine(f) \/ NoLines(f)
  PROVE  Newer(f)'
<1>1. Len(LinesOf(f)) \in Nat
  BY TailTypeFacts
<1>2. CASE SameLines(f)
  BY <1>2 DEF SameLines, Newer
<1>3. CASE OneMoreLine(f)
  <2> SUFFICES ASSUME NEW i \in 1 .. Len(LinesOf(f)'), NEW e \in emitted PROVE e < LinesOf(f)'[i]
    BY DEF Newer
  <2>1. i \in 1 .. Len(LinesOf(f)) \/ i = Len(LinesOf(f)) + 1
    BY <1>1, <1>3 DEF OneMoreLine
  <2> QED
    BY <1>3, <2>1 DEF OneMoreLine, Newer
<1>4. CASE NoLines(f)
  BY <1>4 DEF NoLines, Newer
<1> QED
  BY <1>2, <1>3, <1>4

LEMMA StreamStandsStill ==
  ASSUME TailInv, UNCHANGED <<source, emitted>>,
         created' \in Nat, created' >= created, truncates' = 0 => truncates = 0,
         \A f \in Files : Size(f)' \in Nat,
         \A f \in Files : SameLines(f) \/ OneMoreLine(f) \/ NoLines(f)
  PROVE  Unread' /\ NoOverrun' /\ NoGap'
<1> USE DEF TailInv
<1> DEFINE cur == source.file
<1>1. /\ source.off \in Nat /\ created \in Nat /\ Files \subseteq Nat /\ cur \in Files \cup {NoFile}
      /\ \A f \in Files : Len(LinesOf(f)) \in Nat /\ Size(f) \in Nat
  BY TailTypeFacts, SizeFacts
<1>2. \A f \in Files : Newer(f) => Newer(f)'
  BY NewerStaysNewer
<1>3. CASE cur = NoFile
  BY <1>1, <1>2, <1>3 DEF Unread, NoOverrun, NoGap
<1>4. CASE cur # NoFile
  <2>0. /\ cur \in Files /\ cur \in Nat /\ cur <= created
        /\ Size(cur) \in Nat /\ Size(cur)' \in Nat
    BY <1>1, <1>4 DEF Unread
  <2>1. SameLines(cur) \/ OneMoreLine(cur) \/ NoLines(cur)
    BY <2>0
  <2>2. NoLines(cur) => Newer(cur)'
    BY DEF NoLines, Newer
  <2>3. source.off > Size(cur)' => Newer(cur)'
    <3>1. CASE SameLines(cur) \/ OneMoreLine(cur)
      <4>1. Size(cur)' >= Size(cur)
        BY <1>1, <1>4, <3>1 DEF SameLines, OneMoreLine
      <4>2. source.off > Size(cur)' => source.off > Size(cur)
        BY <1>1, <1>4, <2>0, <4>1
      <4>3. source.off > Size(cur) => Newer(cur)
        BY <1>4 DEF Unread
      <4> QED
        BY <1>2, <2>0, <4>2, <4>3
    <3> QED
      BY <2>1, <2>2, <3>1
  <2>4. \A i \in 1 .. Len(LinesOf(cur)') : 2 * i > source.off
          => \A e \in emitted : e < LinesOf(cur)'[i]
    <3>1. CASE SameLines(cur)
      BY <1>4, <3>1 DEF SameLines, Unread
    <3>2. CASE OneMoreLine(cur)
      <4>1. \A i \in 1 .. Len(LinesOf(cur)') : i \in 1 .. Len(LinesOf(cur)) \/ i = Len(LinesOf(cur)) + 1
        BY <1>1, <1>4, <3>2 DEF OneMoreLine
      <4> QED
        BY <1>4, <3>2, <4>1 DEF OneMoreLine, Unread
    <3>3. CASE NoLines(cur)
      BY <3>3 DEF NoLines
    <3> QED
      BY <2>1, <3>1, <3>2, <3>3
  <2>5. Unread'
    <3>1. ~ source.tail /\ cur <= created'
      <4>1. cur <= created'
        BY <1>1, <2>0
      <4> QED
        BY <1>4, <4>1 DEF Unread
    <3>2. \A g \in Files : g > cur => Newer(g)'
      BY <1>2, <1>4 DEF Unread
    <3> QED
      BY <1>4, <2>3, <2>4, <3>1, <3>2 DEF Unread
  <2>6. NoOverrun'
    <3>1. truncates' = 0 => source.off <= Size(cur) /\ Size(cur)' >= Size(cur)
      BY <1>1, <1>4, <2>1 DEF NoOverrun, SameLines, OneMoreLine, NoLines
    <3>2. truncates' = 0 => source.off <= Size(cur)'
      BY <1>1, <2>0, <3>1
    <3> QED
      BY <3>2 DEF NoOverrun
  <2>7. NoGap'
    <3> SUFFICES ASSUME truncates' = 0, NEW i \in 1 .. Len(LinesOf(cur)'), 2 * i <= source.off
                 PROVE  LET l == LinesOf(cur)'[i] IN l \in emitted \/ \A e \in emitted : l < e
      BY <1>4 DEF NoGap, LinesOf
    <3>1. i \in 1 .. Len(LinesOf(cur)) /\ LinesOf(cur)'[i] = LinesOf(cur)[i]
      <4>1. CASE SameLines(cur)
        BY <4>1 DEF SameLines
      <4>2. CASE OneMoreLine(cur)
        <5>1. source.off <= Size(cur)
          BY <1>4 DEF NoOverrun
        <5>2. i \in Nat /\ i >= 1 /\ i <= Len(LinesOf(cur)) + 1
          BY <1>1, <1>4, <4>2 DEF OneMoreLine
        <5>3. i # Len(LinesOf(cur)) + 1
          BY <1>1, <1>4, <4>2, <5>1 DEF OneMoreLine
        <5>4. i \in 1 .. Len(LinesOf(cur))
          BY <1>1, <1>4, <5>2, <5>3
        <5> QED
          BY <4>2, <5>4 DEF OneMoreLine
      <4>3. CASE NoLines(cur)
        BY <4>3 DEF NoLines
      <4> QED
        BY <2>1, <4>1, <4>2, <4>3
    <3> QED
      BY <1>4, <3>1 DEF NoGap, LinesOf
  <2> QED
    BY <2>5, <2>6, <2>7
<1> QED
  BY <1>3, <1>4

(* The node begins a line: it is numbered after all others.                *)
LEMMA BeginKeeps == ASSUME TailInv, Begin PROVE TailInv'
<1> USE DEF TailInv
<1>1. /\ TailTypeOK /\ writer \in Files /\ ~ files[writer].begun
      /\ written \in Nat /\ written' = written + 1 /\ written' \in 0 .. MaxLines
      /\ UNCHANGED <<created, path, writer, truncates, source, emitted>>
      /\ files' = [files EXCEPT ![writer].begun = TRUE]
  BY TailAssumption DEF Begin, Writing, TailTypeOK
<1>2. /\ files' \in [Files -> FileRecords]
      /\ \A f \in Files : LinesOf(f)' = LinesOf(f)
      /\ files'[writer].begun
      /\ \A f \in Files : f # writer => files'[f] = files[f]
  BY <1>1 DEF LinesOf, TailTypeOK, FileRecords
<1>3. TailTypeOK'
  BY <1>1, <1>2 DEF TailTypeOK
<1>4. DiskInv'
  BY <1>1, <1>2 DEF DiskInv
<1>5. Numbered'
  <2>1. /\ \A f \in Files : \A i \in 1 .. Len(LinesOf(f)) : LinesOf(f)[i] \in Nat /\ LinesOf(f)[i] < written'
        /\ \A e \in emitted : e \in Nat /\ e < written'
    BY <1>1, TailTypeFacts DEF Numbered
  <2>2. /\ \A f \in Files : \A i \in 1 .. Len(LinesOf(f)) : LinesOf(f)[i] <= written'
        /\ \A e \in emitted : e <= written'
        /\ written' > 0
    BY <1>1, <2>1
  <2> QED
    BY <1>1, <1>2, <2>1, <2>2 DEF Numbered
<1>6. \A f \in Files : Size(f)' \in Nat /\ SameLines(f)
  <2> SUFFICES ASSUME NEW f \in Files PROVE Size(f)' \in Nat /\ Size(f)' >= Size(f)
    BY <1>2 DEF SameLines
  <2>1. Whole(f)' = Whole(f) /\ Whole(f) \in Nat /\ Size(f) <= Whole(f) + 1
    BY <1>1, <1>2, SizeFacts DEF Whole, LinesOf
  <2>2. CASE f = writer
    <3>1. Size(f)' = Whole(f) + 1
      BY <1>2, <2>1, <2>2 DEF Size
    <3> QED
      BY <1>1, <2>1, <3>1, SizeFacts
  <2>3. CASE f # writer
    <3>1. Size(f)' = Size(f)
      BY <1>2, <2>3 DEF Size, Whole
    <3> QED
      BY <1>1, <3>1, SizeFacts
  <2> QED
    BY <2>2, <2>3
<1> QED
  BY <1>1, <1>3, <1>4, <1>5, <1>6, StreamStandsStill, TailTypeFacts

(* The line ends: it is the newest of all.                                 *)
LEMMA EndKeeps == ASSUME TailInv, End PROVE TailInv'
<1> USE DEF TailInv
<1> DEFINE n == Len(LinesOf(writer)) + 1
<1>1. /\ TailTypeOK /\ Writing /\ writer \in Files /\ files[writer].begun
      /\ written \in Lines /\ written \in Nat
      /\ UNCHANGED <<created, path, writer, written, truncates, source, emitted>>
      /\ files' = [files EXCEPT ![writer].begun = FALSE, ![writer].lines = Append(@, written)]
  BY TailAssumption DEF End, Writing, TailTypeOK, Numbered, Lines
<1>2. Len(LinesOf(writer)) \in Nat /\ LinesOf(writer) \in Seq(Lines)
  BY <1>1, TailTypeFacts
<1>3. /\ files' \in [Files -> FileRecords]
      /\ LinesOf(writer)' = Append(LinesOf(writer), written)
      /\ ~ files'[writer].begun
      /\ \A f \in Files : f # writer => files'[f] = files[f] /\ LinesOf(f)' = LinesOf(f)
  <2>1. Append(LinesOf(writer), written) \in Seq(Lines)
    BY <1>1, <1>2
  <2> QED
    BY <1>1, <2>1 DEF LinesOf, TailTypeOK, FileRecords
<1>4. /\ Len(LinesOf(writer)') = n /\ LinesOf(writer)'[n] = written
      /\ \A i \in 1 .. Len(LinesOf(writer)) : LinesOf(writer)'[i] = LinesOf(writer)[i]
      /\ \A i \in 1 .. Len(LinesOf(writer)') : i \in 1 .. Len(LinesOf(writer)) \/ i = n
  BY <1>2, <1>3
<1>5. TailTypeOK'
  BY <1>1, <1>3 DEF TailTypeOK
<1>6. DiskInv'
  <2>1. \A f \in Files : files'[f].begun => files[f].begun
    BY <1>3
  <2>2. writer # NoFile /\ writer <= created /\ writer \in Nat /\ created \in Nat
    BY <1>1, TailTypeFacts DEF DiskInv
  <2>3. \A f \in Files : f > created \/ f > writer => f # writer
    BY <2>2, TailTypeFacts
  <2> QED
    BY <1>1, <1>3, <2>1, <2>2, <2>3 DEF DiskInv
<1>7. \A f \in Files : \A i \in 1 .. Len(LinesOf(f)') :
        \/ i \in 1 .. Len(LinesOf(f)) /\ LinesOf(f)'[i] = LinesOf(f)[i]
        \/ f = writer /\ i = n /\ LinesOf(f)'[i] = written
  <2> SUFFICES ASSUME NEW f \in Files, NEW i \in 1 .. Len(LinesOf(f)')
               PROVE  \/ i \in 1 .. Len(LinesOf(f)) /\ LinesOf(f)'[i] = LinesOf(f)[i]
                      \/ f = writer /\ i = n /\ LinesOf(f)'[i] = written
    OBVIOUS
  <2>1. CASE f = writer
    <3>1. LinesOf(f)' = LinesOf(writer)' /\ LinesOf(f) = LinesOf(writer)
      BY <1>1, <2>1 DEF LinesOf
    <3>2. i \in 1 .. Len(LinesOf(writer)')
      BY <3>1
    <3> QED
      BY <1>4, <2>1, <3>1, <3>2
  <2>2. CASE f # writer
    <3>1. LinesOf(f)' = LinesOf(f)
      BY <1>3, <2>2
    <3> QED
      BY <3>1
  <2> QED
    BY <2>1, <2>2
<1>8. Numbered'
  <2>1. ~ Writing'
    BY <1>1, <1>3 DEF Writing
  <2>2. \A f \in Files : \A i \in 1 .. Len(LinesOf(f)') : LinesOf(f)'[i] <= written
    BY <1>1, <1>7 DEF Numbered
  <2>3. ASSUME NEW f \in Files, NEW g \in Files,
               NEW i \in 1 .. Len(LinesOf(f)'), NEW j \in 1 .. Len(LinesOf(g)'),
               f < g \/ (f = g /\ i < j)
        PROVE  LinesOf(f)'[i] < LinesOf(g)'[j]
    <3>1. CASE f = writer /\ i = n
      <4>1. f < g => LinesOf(g) = <<>> /\ g # writer
        BY <1>1, <3>1, TailTypeFacts DEF DiskInv
      <4>2. ~ (f < g)
        BY <1>3, <4>1
      <4>3. f = g /\ i < j
        BY <2>3, <4>2
      <4>4. j \in 1 .. n
        <5>1. LinesOf(g)' = LinesOf(writer)'
          BY <1>1, <3>1, <4>3 DEF LinesOf
        <5> QED
          BY <1>4, <5>1
      <4> QED
        BY <1>2, <3>1, <4>3, <4>4
    <3>2. CASE i \in 1 .. Len(LinesOf(f)) /\ LinesOf(f)'[i] = LinesOf(f)[i]
      <4>1. CASE g = writer /\ j = n /\ LinesOf(g)'[j] = written
        BY <1>1, <3>2, <4>1 DEF Numbered
      <4>2. CASE j \in 1 .. Len(LinesOf(g)) /\ LinesOf(g)'[j] = LinesOf(g)[j]
        BY <2>3, <3>2, <4>2 DEF Numbered
      <4> QED
        BY <1>7, <4>1, <4>2
    <3> QED
      BY <1>7, <3>1, <3>2
  <2> QED
    BY <1>1, <2>1, <2>2, <2>3 DEF Numbered
<1>9. \A f \in Files : Size(f)' \in Nat /\ (SameLines(f) \/ OneMoreLine(f))
  <2> SUFFICES ASSUME NEW f \in Files PROVE Size(f)' \in Nat /\ (SameLines(f) \/ OneMoreLine(f))
    OBVIOUS
  <2>1. CASE f = writer
    <3>1. Size(f) = 2 * Len(LinesOf(f)) + 1
      BY <1>1, <2>1, SizeFacts
    <3>0. LinesOf(f) = LinesOf(writer) /\ LinesOf(f)' = LinesOf(writer)'
          /\ ~ files'[f].begun
      BY <1>1, <1>3, <2>1 DEF LinesOf
    <3>2. Size(f)' = 2 * (Len(LinesOf(f)) + 1)
      <4>1. Whole(f)' = 2 * Len(LinesOf(f)')
        BY DEF Whole, LinesOf
      <4>2. Whole(f)' = 2 * (Len(LinesOf(f)) + 1)
        BY <1>4, <3>0, <4>1
      <4>3. Size(f)' = Whole(f)' + 0
        BY <3>0 DEF Size
      <4> QED
        BY <1>2, <3>0, <4>2, <4>3
    <3>3. \A e \in emitted : e < LinesOf(f)'[Len(LinesOf(f)) + 1]
      BY <1>1, <1>4, <3>0 DEF Numbered
    <3>4. Size(f)' \in Nat /\ Size(f)' = Size(f) + 1
      BY <1>2, <3>0, <3>1, <3>2
    <3> QED
      BY <1>4, <3>0, <3>1, <3>3, <3>4 DEF OneMoreLine
  <2>2. CASE f # writer
    <3>1. files'[f] = files[f] /\ LinesOf(f)' = LinesOf(f)
      BY <1>3, <2>2
    <3>2. Size(f)' = Size(f)
      BY <3>1 DEF Size, Whole
    <3>3. Size(f) \in Nat
      BY <1>1, SizeFacts
    <3> QED
      BY <3>1, <3>2, <3>3 DEF SameLines
  <2> QED
    BY <2>1, <2>2
<1> QED
  BY <1>1, <1>5, <1>6, <1>8, <1>9, StreamStandsStill, TailTypeFacts

(* The path and the node move on to other files.                           *)
LEMMA MovesKeep == ASSUME TailInv, MoveAway \/ Create \/ Reopen PROVE TailInv'
<1> USE DEF TailInv
<1>1. /\ TailTypeOK /\ UNCHANGED <<files, written, truncates, source, emitted>>
      /\ created \in Nat /\ created' \in 0 .. MaxFiles /\ created' >= created
  BY TailAssumption DEF MoveAway, Create, Reopen, TailTypeOK
<1>2. TailTypeOK'
  BY <1>1, TailAssumption DEF MoveAway, Create, Reopen, TailTypeOK, Files
<1>3. DiskInv'
  <2>1. \A f \in Files : f > created' => f > created
    BY <1>1, TailTypeFacts
  <2>2. CASE MoveAway
    BY <1>1, <2>1, <2>2 DEF MoveAway, DiskInv, LinesOf
  <2>3. CASE Create
    BY <1>1, <2>1, <2>3, TailTypeFacts DEF Create, DiskInv, LinesOf, TailTypeOK
  <2>4. CASE Reopen
    <3>1. writer' = path /\ path = created /\ created' = created /\ path' = path /\ ~ Writing
      BY <2>4 DEF Reopen, DiskInv
    <3>2. \A f \in Files : ~ files[f].begun
      <4>1. \A f \in Files : files[f].begun => f = writer
        BY DEF DiskInv
      <4>2. ~ (writer # NoFile /\ files[writer].begun) /\ NoFile \notin Files
        BY <1>1, <3>1, TailTypeFacts DEF Writing
      <4> QED
        BY <4>1, <4>2
    <3>3. \A f \in Files : f > created => LinesOf(f)' = <<>>
      BY <1>1 DEF DiskInv, LinesOf
    <3>4. path # NoFile
      BY <2>4 DEF Reopen
    <3> QED
      BY <1>1, <3>1, <3>2, <3>3, <3>4 DEF DiskInv
  <2> QED
    BY <2>2, <2>3, <2>4
<1>4. Numbered'
  <2>1. Writing' => Writing
    BY <1>1 DEF MoveAway, Create, Reopen, Writing, DiskInv, TailTypeOK
  <2> QED
    BY <1>1, <2>1 DEF Numbered, LinesOf
<1>5. \A f \in Files : Size(f)' \in Nat /\ SameLines(f)
  <2>1. \A f \in Files : Size(f)' = Size(f) /\ LinesOf(f)' = LinesOf(f)
    BY <1>1 DEF LinesOf, Size, Whole
  <2>2. \A f \in Files : Size(f) \in Nat
    BY <1>1, SizeFacts
  <2> QED
    BY <2>1, <2>2 DEF SameLines
<1> QED
  BY <1>1, <1>2, <1>3, <1>4, <1>5, StreamStandsStill, TailTypeFacts

(* The file at the path is emptied.                                        *)
LEMMA TruncateKeeps == ASSUME TailInv, Truncate PROVE TailInv'
<1> USE DEF TailInv
<1>1. /\ TailTypeOK /\ path \in Files
      /\ UNCHANGED <<created, path, writer, written, source, emitted>>
      /\ truncates' \in 0 .. MaxTruncates /\ truncates' # 0
      /\ files' = [files EXCEPT ![path] = Empty]
  BY TailAssumption DEF Truncate, TailTypeOK
<1>2. /\ files' \in [Files -> FileRecords]
      /\ LinesOf(path)' = <<>> /\ ~ files'[path].begun
      /\ \A f \in Files : f # path => files'[f] = files[f] /\ LinesOf(f)' = LinesOf(f)
  BY <1>1 DEF LinesOf, TailTypeOK, FileRecords, Empty
<1>3. TailTypeOK'
  BY <1>1, <1>2 DEF TailTypeOK
<1>4. DiskInv'
  <2>1. \A f \in Files : /\ files'[f].begun => files[f].begun
                         /\ LinesOf(f) = <<>> => LinesOf(f)' = <<>>
    BY <1>1, <1>2
  <2> QED
    BY <1>1, <2>1 DEF DiskInv
<1>5. \A f \in Files : \A i \in 1 .. Len(LinesOf(f)') :
        i \in 1 .. Len(LinesOf(f)) /\ LinesOf(f)'[i] = LinesOf(f)[i]
  BY <1>1, <1>2
<1>6. Numbered'
  <2>1. Writing' => Writing
    BY <1>1, <1>2 DEF Writing, TailTypeOK
  <2> QED
    BY <1>1, <1>5, <2>1 DEF Numbered
<1>7. \A f \in Files : Size(f)' \in Nat /\ (SameLines(f) \/ NoLines(f))
  <2> SUFFICES ASSUME NEW f \in Files PROVE Size(f)' \in Nat /\ (SameLines(f) \/ NoLines(f))
    OBVIOUS
  <2>1. CASE f = path
    BY <1>1, <1>2, <2>1 DEF NoLines, Size, Whole, LinesOf
  <2>2. CASE f # path
    <3>1. Size(f)' = Size(f) /\ LinesOf(f)' = LinesOf(f)
      BY <1>2, <2>2 DEF Size, Whole
    <3> QED
      BY <1>1, <3>1, SizeFacts DEF SameLines
  <2> QED
    BY <2>1, <2>2
<1> QED
  BY <1>1, <1>3, <1>4, <1>6, <1>7, StreamStandsStill, TailTypeFacts

LEMMA TailInvariant == TailSpec => []TailInv
<1>1. TailInit => TailInv
  <2> SUFFICES ASSUME TailInit PROVE TailInv
    OBVIOUS
  <2>1. TailTypeOK
    BY TailAssumption DEF TailInit, TailTypeOK, FileRecords, Empty, Sources, Files
  <2>2. \A f \in Files : LinesOf(f) = <<>> /\ ~ files[f].begun
    BY DEF TailInit, LinesOf, Empty
  <2>3. emitted = {} /\ path = NoFile /\ writer = NoFile
        /\ source = [file |-> NoFile, off |-> 0, tail |-> TRUE, reading |-> FALSE]
    BY DEF TailInit
  <2> QED
    BY <2>1, <2>2, <2>3
    DEF TailInv, DiskInv, Numbered, Unread, NoOverrun, NoGap, Newer, Writing
<1>2. TailInv /\ [TailNext]_tailVars => TailInv'
  <2> SUFFICES ASSUME TailInv, [TailNext]_tailVars PROVE TailInv'
    OBVIOUS
  <2>1. CASE ReadEnd \/ UNCHANGED tailVars
    <3>1. /\ UNCHANGED <<files, created, path, writer, written, truncates, emitted>>
          /\ source' \in {source, [source EXCEPT !.reading = FALSE]}
      BY <2>1 DEF ReadEnd, tailVars, diskVars
    <3>2. /\ source'.file = source.file /\ source'.off = source.off /\ source'.tail = source.tail
          /\ source'.reading => source.reading
          /\ source' \in Sources
      BY <3>1 DEF TailInv, TailTypeOK, Sources
    <3> QED
      BY <3>1, <3>2
      DEF TailInv, TailTypeOK, DiskInv, Numbered, Unread, NoOverrun, NoGap, Newer, LinesOf,
          Size, Whole, Writing
  <2> QED
    BY <2>1, PollKeeps, ReadLineKeeps, BeginKeeps, EndKeeps, MovesKeep, TruncateKeeps
    DEF TailNext, StreamStep
<1> QED
  BY <1>1, <1>2, PTL DEF TailSpec

(* Every variable of the tail keeps its type.                              *)
THEOREM TailTyped == TailSpec => []TailTypeOK
  BY TailInvariant, PTL DEF TailInv

(* file.go:31: no line of the log is emitted twice, and none before one    *)
(* that was written earlier, whatever is renamed, created and truncated    *)
(* between the polls and while they read.                                  *)
THEOREM NothingIsRepeated == TailSpec => []NothingTwice
<1>1. TailInv => NothingTwice
  <2> SUFFICES ASSUME TailInv, source.reading, source.off < Whole(source.file), NEW l \in emitted
               PROVE  l < files[source.file].lines[NextLine]
    BY DEF NothingTwice
  <2>1. source.file # NoFile
    BY DEF TailInv, Unread
  <2> QED
    BY <2>1, NextLineFacts DEF TailInv, Unread, LinesOf
<1> QED
  BY <1>1, TailInvariant, PTL

(* file.go:13: without truncations Stream passes over no line of the file  *)
(* it reads, over any number of rotations.                                 *)
THEOREM NothingIsSkipped == TailSpec => []NoGap
  BY TailInvariant, PTL DEF TailInv

---------------------------------------------------------------------------
(* The rules.  EventIsTimed is not inductive: a raise that waits would     *)
(* open the alert when its timer is gone.  It is not, because a timer runs *)
(* for a minute at least and a raise is dispatched in the minute in which  *)
(* the rule fires: a raise on its way has a timer that is as young.        *)
RaiseIsTimed == "raise" \in dispatches => 0 \in timers

RulesInv == EventIsTimed /\ RaiseIsTimed

(* A minute later the timers that run still run.                           *)
LEMMA TimersRunOn ==
  ASSUME timers # {}, NextMinute
  PROVE  timers' # {}
  BY DEF NextMinute

LEMMA MatchKeepsTimed == RulesInv /\ Match => RulesInv'
<1> SUFFICES ASSUME RulesInv, Match
             PROVE  RulesInv'
  OBVIOUS
<1>1. CASE Fire
  BY <1>1 DEF Fire, RulesInv, EventIsTimed, RaiseIsTimed
<1>2. CASE StayQuiet
  BY <1>2 DEF Match, StayQuiet, engineVars, RulesInv, EventIsTimed, RaiseIsTimed
<1> QED
  BY <1>1, <1>2 DEF Match

(* The timer that fires is Cooldown minutes old, and not one that a raise  *)
(* of this minute needs.                                                   *)
LEMMA QuietedKeepsTimed == RulesInv /\ Quieted => RulesInv'
<1> SUFFICES ASSUME RulesInv, Quieted
             PROVE  RulesInv'
  OBVIOUS
<1>1. "resolve" \in dispatches' /\ ("raise" \in dispatches' => "raise" \in dispatches)
  BY DEF Quieted
<1>2. 0 \in timers => 0 \in timers'
  BY RuleAssumption DEF Quieted
<1> QED
  BY <1>1, <1>2 DEF RulesInv, EventIsTimed, RaiseIsTimed

LEMMA DispatchKeepsTimed ==
  RulesInv /\ (DispatchRaise \/ DispatchResolve) => RulesInv'
<1> SUFFICES ASSUME RulesInv, DispatchRaise \/ DispatchResolve
             PROVE  RulesInv'
  OBVIOUS
<1>1. CASE DispatchRaise
  BY <1>1 DEF DispatchRaise, RulesInv, EventIsTimed, RaiseIsTimed
<1>2. CASE DispatchResolve
  BY <1>2 DEF DispatchResolve, RulesInv, EventIsTimed, RaiseIsTimed
<1> QED
  BY <1>1, <1>2

LEMMA NextMinuteKeepsTimed == RulesInv /\ NextMinute => RulesInv'
<1> SUFFICES ASSUME RulesInv, NextMinute
             PROVE  RulesInv'
  OBVIOUS
<1>1. dispatches = {} /\ dispatches' = {} /\ incident' = incident
  BY DEF NextMinute
<1>2. lastAlert' # Never => lastAlert # Never
  BY DEF NextMinute, Older
<1> QED
  BY <1>1, <1>2, TimersRunOn DEF RulesInv, EventIsTimed, RaiseIsTimed

LEMMA RestartKeepsTimed ==
  RulesInv /\ (RestartWatcher \/ UNCHANGED ruleVars) => RulesInv'
  BY DEF RestartWatcher, ruleVars, engineVars, RulesInv, EventIsTimed, RaiseIsTimed

(* monitor/logs.go:136: for every count, window, cooldown and flap window, *)
(* over any number of restarts, an alert of a rule that has fired in this  *)
(* process never stays open without a timer or a resolve on its way.       *)
THEOREM EventsAreTimed == RulesSpec => []EventIsTimed
<1>1. RulesInit => RulesInv
  BY DEF RulesInit, RulesInv, EventIsTimed, RaiseIsTimed
<1>2. RulesInv /\ [RulesNext]_ruleVars => RulesInv'
  BY MatchKeepsTimed, QuietedKeepsTimed, DispatchKeepsTimed, NextMinuteKeepsTimed,
     RestartKeepsTimed DEF RulesNext
<1>3. RulesInv => EventIsTimed
  BY DEF RulesInv
<1> QED
  BY <1>1, <1>2, <1>3, PTL DEF RulesSpec
=============================================================================
