----------------------------- MODULE HwmStoreProofs -----------------------------
(***************************************************************************)
(* Theorems about HwmStore, for any set of clients, keys and marks and any  *)
(* number of sets and crashes.                                              *)
(***************************************************************************)
EXTENDS HwmStore, TLAPS

\* The types, as far as the proofs need them.
Types ==
    /\ file \in Texts \union {Missing, Blank, Garbled}
    /\ pc \in [Clients -> {"closed", "creating", "idle", "loaded", "truncated", "raised"}]
    /\ data \in [Clients -> Texts] /\ base \in [Clients -> Texts]
    /\ shared \in BOOLEAN

\* Every mark of a text was written for its key.
Known(text) == \A k \in Keys : text[k] # None => <<k, text[k]>> \in written

\* So it is with what is in the file and what is about to be written to it.
OnlyKnown == Known(Load(file)) /\ \A c \in Clients : Known(data[c])

\* A client changes at most one entry of what it has loaded.
Changed(c) == \/ data[c] = base[c]
              \/ \E k \in Keys, v \in Marks : data[c] = [base[c] EXCEPT ![k] = v]

\* What a client that has the store to itself knows of the file at each point.
Stands(c) ==
    /\ pc[c] # "raised"
    /\ pc[c] = "creating" => file = Missing /\ base[c] = NoMarks /\ data[c] = NoMarks
    /\ pc[c] \in {"idle", "loaded", "truncated"} => file # Missing
    /\ pc[c] = "loaded" => base[c] = Load(file) /\ Changed(c)
    /\ pc[c] = "truncated" => file = Blank /\ Changed(c)

Alone ==
    /\ file # Garbled
    /\ \A c, d \in Clients : pc[c] # "closed" /\ pc[d] # "closed" => c = d
    /\ \A c \in Clients : Stands(c)

LoneInv == shared \/ Alone

----------------------------------------------------------------------------
(* Texts. *)

\* The empty map is a text.
LEMMA NoMarksIsText == NoMarks \in Texts
BY DEF NoMarks, Texts

\* Whatever the file holds, loading it gives a map.
LEMMA LoadIsText == ASSUME NEW text PROVE Load(text) \in Texts
BY NoMarksIsText DEF Load

\* A file that is missing, truncated or garbled loads as the empty map.
LEMMA SentinelsLoadEmpty ==
    Load(Missing) = NoMarks /\ Load(Blank) = NoMarks /\ Load(Garbled) = NoMarks
BY TextsAssumption DEF Load

\* A map stays one with an entry replaced.
LEMMA EntryIsText ==
    ASSUME NEW text \in Texts, NEW k \in Keys, NEW v \in Marks
    PROVE  [text EXCEPT ![k] = v] \in Texts
BY DEF Texts

\* Writing over a text leaves the new one or a garbled one, writing where there is
\* none the new one.
LEMMA OverwrittenIs ==
    ASSUME NEW old, NEW new, NEW text \in Overwritten(old, new)
    PROVE  text \in {new, Garbled} /\ (old \notin Texts => text = new)
BY DEF Overwritten

----------------------------------------------------------------------------
(* Types. *)

\* The types hold at first.
LEMMA InitTypes == Init => Types
BY NoMarksIsText DEF Init, Types

\* They hold after every step of a client and every crash.
LEMMA NextTypes == Types /\ [Next]_vars => Types'
<1> SUFFICES ASSUME Types, [Next]_vars PROVE Types'
  OBVIOUS
<1> USE DEF Types, Goto
<1>1. ASSUME NEW c \in Clients, Open(c) PROVE Types'
  BY <1>1, NoMarksIsText DEF Open
<1>2. ASSUME NEW c \in Clients, NEW name \in Names, NEW subkey \in Subkeys, NEW v \in Marks,
             BeginSet(c, name, subkey, v)
      PROVE  Types'
  <2>1. Load(file) \in Texts /\ [Load(file) EXCEPT ![KeyOf(name, subkey)] = v] \in Texts
    BY LoadIsText, EntryIsText DEF KeyOf, Keys
  <2> QED
    BY <1>2, <2>1 DEF BeginSet
<1>3. ASSUME NEW c \in Clients, Truncate(c) PROVE Types'
  BY <1>3 DEF Truncate
<1>4. ASSUME NEW c \in Clients, Fill(c) PROVE Types'
  BY <1>4, OverwrittenIs DEF Fill
<1>5. ASSUME NEW c \in Clients, Crash(c) PROVE Types'
  BY <1>5 DEF Crash
<1>6. CASE UNCHANGED vars
  BY <1>6 DEF vars
<1> QED
  BY <1>1, <1>2, <1>3, <1>4, <1>5, <1>6 DEF Next

----------------------------------------------------------------------------
(* Marks that can be read were written. *)

\* The empty map has no entry that nobody has written.
LEMMA NoMarksIsKnown == Known(NoMarks)
BY DEF Known, NoMarks

\* No step makes up an entry.
LEMMA NextOnlyKnown == Types /\ OnlyKnown /\ [Next]_vars => OnlyKnown'
<1> SUFFICES ASSUME Types, OnlyKnown, [Next]_vars PROVE OnlyKnown'
  OBVIOUS
<1>1. ASSUME NEW c \in Clients, Open(c) PROVE OnlyKnown'
  BY <1>1, NoMarksIsKnown DEF Open, OnlyKnown, Known, Types
<1>2. ASSUME NEW c \in Clients, NEW name \in Names, NEW subkey \in Subkeys, NEW v \in Marks,
             BeginSet(c, name, subkey, v)
      PROVE  OnlyKnown'
  <2> DEFINE entry == <<name, subkey>>
             text  == [Load(file) EXCEPT ![entry] = v]
  <2>1. CASE Readable(file)
    <3>1. /\ file' = file /\ data' = [data EXCEPT ![c] = text]
          /\ written' = written \union {<<entry, v>>}
      BY <1>2, <2>1 DEF BeginSet, KeyOf
    <3>2. entry \in Keys /\ Load(file) \in Texts
      BY LoadIsText DEF Keys
    <3>3. Known(Load(file))'
      BY <3>1 DEF OnlyKnown, Known
    <3>4. \A k \in Keys : text[k] # None => <<k, text[k]>> \in written'
      BY <3>1, <3>2 DEF OnlyKnown, Known, Texts
    <3>5. ASSUME NEW d \in Clients PROVE Known(data[d])'
      <4>1. CASE d = c
        <5>1. data'[d] = text
          BY <3>1, <4>1 DEF Types
        <5> HIDE DEF text
        <5> QED
          BY <3>4, <5>1 DEF Known
      <4>2. CASE d # c
        <5>1. data'[d] = data[d]
          BY <3>1, <4>2 DEF Types
        <5> QED
          BY <3>1, <5>1 DEF OnlyKnown, Known
      <4> QED
        BY <4>1, <4>2
    <3> QED
      BY <3>3, <3>5 DEF OnlyKnown
  <2>2. CASE ~Readable(file)
    BY <1>2, <2>2 DEF BeginSet, OnlyKnown, Known
  <2> QED
    BY <2>1, <2>2
<1>3. ASSUME NEW c \in Clients, Truncate(c) PROVE OnlyKnown'
  BY <1>3, NoMarksIsKnown, SentinelsLoadEmpty DEF Truncate, OnlyKnown, Known
<1>4. ASSUME NEW c \in Clients, Fill(c) PROVE OnlyKnown'
  <2>1. Load(file') \in {data[c], NoMarks}
    BY <1>4, OverwrittenIs, SentinelsLoadEmpty DEF Fill, Load
  <2> QED
    BY <1>4, <2>1, NoMarksIsKnown DEF Fill, OnlyKnown, Known
<1>5. ASSUME NEW c \in Clients, Crash(c) PROVE OnlyKnown'
  BY <1>5 DEF Crash, OnlyKnown, Known
<1>6. CASE UNCHANGED vars
  BY <1>6 DEF vars, OnlyKnown, Known
<1> QED
  BY <1>1, <1>2, <1>3, <1>4, <1>5, <1>6 DEF Next

\* A mark that can be read was written for that very key and subkey, whatever
\* the clients write over each other and wherever they die (hwm.py:22-36).
THEOREM MarksAreWritten == Spec => []MarksWereWritten
<1>1. Init => OnlyKnown
  BY NoMarksIsKnown, SentinelsLoadEmpty DEF Init, OnlyKnown, Known
<1>2. OnlyKnown => MarksWereWritten
  BY DEF OnlyKnown, Known, MarksWereWritten
<1> QED
  BY <1>1, <1>2, InitTypes, NextTypes, NextOnlyKnown, PTL DEF Spec

----------------------------------------------------------------------------
(* A lone writer. *)

\* What a lone client knows of the file holds at first.
LEMMA InitLoneInv == Init => LoneInv
BY TextsAssumption DEF Init, LoneInv, Alone, Stands

\* It holds after every step, as long as the client has been alone.
LEMMA NextLoneInv == Types /\ LoneInv /\ [Next]_vars => LoneInv'
<1> SUFFICES ASSUME Types, LoneInv, [Next]_vars, ~shared' PROVE Alone'
  BY DEF LoneInv
\* Whoever takes a step has the store to itself.
<1>0. ~shared /\ Alone
  <2>1. shared' = shared \/ \E c \in Clients : Open(c)
    BY DEF Next, Truncate, Fill, Crash, BeginSet, vars
  <2> QED
    BY <2>1 DEF LoneInv, Open, Types
<1> USE <1>0, TextsAssumption DEF Types, Goto
<1>1. ASSUME NEW c \in Clients, Open(c) PROVE Alone'
  <2>1. \A d \in Clients : pc[d] = "closed"
    BY <1>1 DEF Open
  <2>2. pc' = [pc EXCEPT ![c] = IF file = Missing THEN "creating" ELSE "idle"]
        /\ file' = file /\ base'[c] = NoMarks /\ data'[c] = NoMarks
    BY <1>1 DEF Open
  <2> QED
    BY <2>1, <2>2 DEF Alone, Stands
<1>2. ASSUME NEW c \in Clients, NEW name \in Names, NEW subkey \in Subkeys, NEW v \in Marks,
             BeginSet(c, name, subkey, v)
      PROVE  Alone'
  <2>1. Readable(file)
    BY <1>2 DEF BeginSet, Alone, Stands, Readable
  <2>2. /\ pc' = [pc EXCEPT ![c] = "loaded"] /\ file' = file /\ base'[c] = Load(file)
        /\ data'[c] = [Load(file) EXCEPT ![<<name, subkey>>] = v]
    BY <1>2, <2>1 DEF BeginSet, KeyOf
  <2>3. Changed(c)'
    BY <2>2 DEF Changed, Keys
  <2>4. \A d \in Clients : d # c => pc[d] = "closed"
    BY <1>2 DEF BeginSet, Alone
  <2> QED
    BY <1>2, <2>2, <2>3, <2>4 DEF Alone, Stands, Load, BeginSet
<1>3. ASSUME NEW c \in Clients, Truncate(c) PROVE Alone'
  <2>1. /\ pc' = [pc EXCEPT ![c] = "truncated"] /\ file' = Blank
        /\ base' = base /\ data' = data /\ pc[c] \in {"creating", "loaded"}
    BY <1>3 DEF Truncate
  <2>2. Changed(c)'
    BY <2>1 DEF Alone, Stands, Changed
  <2>3. \A d \in Clients : d # c => pc[d] = "closed"
    BY <2>1 DEF Alone
  <2> QED
    BY <2>1, <2>2, <2>3 DEF Alone, Stands
<1>4. ASSUME NEW c \in Clients, Fill(c) PROVE Alone'
  <2>1. pc' = [pc EXCEPT ![c] = "idle"] /\ pc[c] = "truncated"
    BY <1>4 DEF Fill
  <2>2. file' = data[c] /\ file' \in Texts
    BY <1>4, <2>1, OverwrittenIs DEF Fill, Alone, Stands
  <2>3. \A d \in Clients : d # c => pc[d] = "closed"
    BY <2>1 DEF Alone
  <2> QED
    BY <2>1, <2>2, <2>3 DEF Alone, Stands
<1>5. ASSUME NEW c \in Clients, Crash(c) PROVE Alone'
  <2>1. /\ pc' = [pc EXCEPT ![c] = "closed"] /\ file' = file
        /\ base' = base /\ data' = data /\ pc[c] # "closed"
    BY <1>5 DEF Crash
  <2>2. \A d \in Clients : d # c => pc[d] = "closed"
    BY <2>1 DEF Alone
  <2> QED
    BY <2>1, <2>2 DEF Alone, Stands
<1>6. CASE UNCHANGED vars
  BY <1>6 DEF vars, Alone, Stands, Changed, Load
<1> QED
  BY <1>1, <1>2, <1>3, <1>4, <1>5, <1>6 DEF Next

\* Types, and what a lone client knows, are invariants.
LEMMA InvariantsHold == Spec => [](Types /\ LoneInv)
<1>1. Init => Types /\ LoneInv
  BY InitTypes, InitLoneInv
<1>2. Types /\ LoneInv /\ [Next]_vars => (Types /\ LoneInv)'
  BY NextTypes, NextLoneInv
<1> QED
  BY <1>1, <1>2, PTL DEF Spec

\* While no two clients overlap, every client can read the store, also after
\* others have died while it was empty or missing (hwm.py:27-29).
THEOREM LoneWritersNeverRaise == Spec => []LoneWriterNeverRaises
<1>1. LoneInv => LoneWriterNeverRaises
  BY DEF LoneInv, Alone, Stands, LoneWriterNeverRaises
<1> QED
  BY <1>1, InvariantsHold, PTL

----------------------------------------------------------------------------
(* The refinement. *)

\* With no client between truncating and filling, the marks are what the file loads as.
LEMMA NoneTruncated ==
    ASSUME \A c \in Clients : pc[c] # "truncated" PROVE marksBar = Load(file)
BY DEF marksBar

\* While a lone client is, they are those that it has truncated.
LEMMA OneTruncated ==
    ASSUME NEW c \in Clients, pc[c] = "truncated", Alone PROVE marksBar = base[c]
<1>1. \A d \in Clients : pc[d] = "truncated" => d = c
  BY DEF Alone
<1> QED
  BY <1>1 DEF marksBar

\* Every step of a lone client is a step of the atomic map, or none of it.
LEMMA StepRefines ==
    ASSUME Types, Alone, Alone', [Next]_vars PROVE Map!Next \/ UNCHANGED marksBar
<1> USE DEF Types, Goto
\* A step between two states in which no client has truncated the file.
<1>0. ASSUME NEW c \in Clients, pc' = [pc EXCEPT ![c] = pc'[c]], file' = file,
             pc[c] # "closed" \/ \A d \in Clients : pc[d] = "closed",
             pc[c] # "truncated", pc'[c] # "truncated"
      PROVE  UNCHANGED marksBar
  <2>1. \A d \in Clients : pc[d] # "truncated" /\ pc'[d] # "truncated"
    BY <1>0 DEF Alone
  <2> QED
    BY <1>0, <2>1 DEF marksBar, Load
<1>1. ASSUME NEW c \in Clients, Truncate(c) PROVE UNCHANGED marksBar
  <2>1. marksBar = Load(file)
    BY <1>1, NoneTruncated DEF Truncate, Alone
  <2>2. Load(file) = base[c] /\ base' = base
    BY <1>1, SentinelsLoadEmpty DEF Truncate, Alone, Stands
  <2>3. pc'[c] = "truncated"
    BY <1>1 DEF Truncate
  <2>4. \A d \in Clients : pc'[d] = "truncated" => d = c
    BY <2>3 DEF Alone
  <2>5. marksBar' = base'[c]
    BY <2>3, <2>4 DEF marksBar
  <2> QED
    BY <2>1, <2>2, <2>5
<1>2. ASSUME NEW c \in Clients, Fill(c) PROVE Map!Next \/ UNCHANGED marksBar
  <2>1. marksBar = base[c]
    BY <1>2, OneTruncated DEF Fill
  <2>2. file' = data[c]
    BY <1>2, OverwrittenIs, TextsAssumption DEF Fill, Alone, Stands
  <2>3. \A d \in Clients : pc'[d] # "truncated"
    BY <1>2 DEF Fill, Alone
  <2>4. marksBar' = data[c]
    BY <2>2, <2>3 DEF marksBar, Load
  <2>5. Changed(c)
    BY <1>2 DEF Fill, Alone, Stands
  <2> QED
    BY <2>1, <2>4, <2>5 DEF Changed, Map!Next, Map!Set
<1>3. ASSUME NEW c \in Clients, Crash(c) PROVE Map!Next \/ UNCHANGED marksBar
  <2>1. CASE pc[c] = "truncated"
    <3>1. file' = Blank /\ \A d \in Clients : pc'[d] # "truncated"
      BY <1>3, <2>1 DEF Crash, Alone, Stands
    <3>2. marksBar' = NoMarks
      BY <3>1, SentinelsLoadEmpty DEF marksBar
    <3> QED
      BY <3>2 DEF Map!Next, Map!Forget, NoMarks
  <2>2. CASE pc[c] # "truncated"
    BY <1>0, <1>3, <2>2 DEF Crash
  <2> QED
    BY <2>1, <2>2
<1>4. ASSUME NEW c \in Clients, Open(c) PROVE UNCHANGED marksBar
  <2>1. (\A d \in Clients : pc[d] = "closed") \/ shared'
    BY <1>4 DEF Open
  <2>2. \A d \in Clients : d # c => pc'[d] = pc[d]
    BY <1>4 DEF Open
  <2>3. pc'[c] \in {"creating", "idle"}
    BY <1>4 DEF Open
  <2>4. \A d \in Clients : pc[d] = "closed"
    BY <1>4, <2>2, <2>3 DEF Alone, Open
  <2> QED
    BY <1>0, <1>4, <2>3, <2>4 DEF Open
<1>5. ASSUME NEW c \in Clients, NEW name \in Names, NEW subkey \in Subkeys, NEW v \in Marks,
             BeginSet(c, name, subkey, v)
      PROVE  UNCHANGED marksBar
  <2>1. pc' = [pc EXCEPT ![c] = pc'[c]] /\ pc'[c] # "truncated" /\ file' = file
    BY <1>5 DEF BeginSet
  <2> QED
    BY <1>0, <1>5, <2>1 DEF BeginSet
<1>6. CASE UNCHANGED vars
  BY <1>6 DEF vars, marksBar, Load
<1> QED
  BY <1>1, <1>2, <1>3, <1>4, <1>5, <1>6 DEF Next

\* While no two clients overlap, a set takes effect at once and for its key
\* only, although the whole file is rewritten, or the client dies and all marks
\* are forgotten (hwm.py:27-36).
THEOREM LoneWritersAreAtomic == Spec => LoneWriterIsAtomic
<1>1. Init => Map!Init
  BY NoneTruncated, SentinelsLoadEmpty DEF Init, Map!Init, NoMarks
<1>2. Types /\ LoneInv /\ LoneInv' /\ [Next]_vars
        => [shared' \/ Map!Next \/ UNCHANGED marksBar]_vars
  <2> SUFFICES ASSUME Types, LoneInv, LoneInv', [Next]_vars, ~shared'
               PROVE  Map!Next \/ UNCHANGED marksBar
    OBVIOUS
  <2>1. ~shared
    BY DEF Next, Truncate, Fill, Crash, BeginSet, Open, vars, Types
  <2> QED
    BY <2>1, StepRefines DEF LoneInv
<1> QED
  BY <1>1, <1>2, InvariantsHold, PTL DEF Spec, LoneWriterIsAtomic
=============================================================================
