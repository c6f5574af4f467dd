------------------------------- MODULE HwmStore -------------------------------
(***************************************************************************)
(* The JSON-backed high-water-mark store of src/platform/hwm.py.  A set     *)
(* loads the whole file, changes one entry and writes the whole file back,  *)
(* without a lock; writing truncates the file first and fills it later.  A  *)
(* client is a process with the store open; it may die at any point.        *)
(*                                                                         *)
(* A key is the pair [key, subkey] (f"{key}::{subkey}"); marks are opaque.  *)
(* Two clients that have both truncated the file write at offset zero one   *)
(* after the other: the second leaves the tail of a longer first text.      *)
(***************************************************************************)
EXTENDS Naturals

CONSTANTS
    Clients,
    Names, Subkeys,  \* keys and subkeys of the strategies
    Marks,           \* values written
    None,            \* no mark: the epoch of UpdatedAtHwm
    Missing, Blank, Garbled,  \* no file, an empty file, a text json.loads rejects
    MaxSets, MaxCrashes       \* bounds

ASSUME MarksAssumption == None \notin Marks
ASSUME LimitsAssumption == MaxSets \in Nat /\ MaxCrashes \in Nat

Keys  == Names \X Subkeys
Texts == [Keys -> Marks \union {None}]   \* the text of a JSON object

ASSUME TextsAssumption ==
    /\ Missing # Blank /\ Blank # Garbled /\ Missing # Garbled
    /\ {Missing, Blank, Garbled} \intersect Texts = {}

VARIABLES
    file,     \* the text in the file
    pc,       \* where each client stands
    request,  \* the <<key, mark>> each client is setting
    data,     \* the dict each client is about to write
    base,     \* the dict it has loaded
    written,  \* history: the <<key, mark>> pairs any client has begun to set
    shared,   \* history: two clients have had the store open at once
    sets, crashes

vars == <<file, pc, request, data, base, written, shared, sets, crashes>>

NoMarks == [k \in Keys |-> None]
Entries(text) == {k \in Keys : text[k] # None}

\* json.loads(read_text() or "{}"): an empty file reads as an empty object.
Readable(text) == text \notin {Missing, Garbled}

Load(text) == IF text \in Texts THEN text ELSE NoMarks

\* Mutant of KeyOf: the subkey is not part of the key.
KeyOfName(name, subkey) == <<name, CHOOSE s \in Subkeys : TRUE>>

KeyOf(name, subkey) == <<name, subkey>>

\* What the file holds once new has been written over old from offset zero.
Overwritten(old, new) ==
    IF old \notin Texts \/ Entries(old) \subseteq Entries(new) THEN {new}
    ELSE IF Entries(new) \subseteq Entries(old) THEN {Garbled} ELSE {new, Garbled}

----------------------------------------------------------------------------

Init ==
    /\ file = Missing
    /\ pc = [c \in Clients |-> "closed"]
    /\ request = [c \in Clients |-> <<>>]
    /\ data = [c \in Clients |-> NoMarks] /\ base = [c \in Clients |-> NoMarks]
    /\ written = {} /\ shared = FALSE /\ sets = 0 /\ crashes = 0

Goto(c, where) == pc' = [pc EXCEPT ![c] = where]

\* The constructor looks whether the file exists and, if it did not, goes on to
\* write an empty object.
Open(c) ==
    /\ pc[c] = "closed"
    /\ Goto(c, IF file = Missing THEN "creating" ELSE "idle")
    /\ request' = [request EXCEPT ![c] = <<>>]
    /\ data' = [data EXCEPT ![c] = NoMarks] /\ base' = [base EXCEPT ![c] = NoMarks]
    /\ shared' = (shared \/ \E d \in Clients : pc[d] # "closed")
    /\ UNCHANGED <<file, written, sets, crashes>>

\* set: load and change one entry; a text that does not parse raises.
BeginSet(c, name, subkey, v) ==
    /\ pc[c] = "idle" /\ sets < MaxSets
    /\ sets' = sets + 1
    /\ request' = [request EXCEPT ![c] = <<<<name, subkey>>, v>>]
    /\ IF Readable(file)
       THEN /\ Goto(c, "loaded")
            /\ base' = [base EXCEPT ![c] = Load(file)]
            /\ data' = [data EXCEPT ![c] = [Load(file) EXCEPT ![KeyOf(name, subkey)] = v]]
            /\ written' = written \union {<<<<name, subkey>>, v>>}
       ELSE Goto(c, "raised") /\ UNCHANGED <<base, data, written>>
    /\ UNCHANGED <<file, shared, crashes>>

\* write_text opens the file for writing, which empties it,
Truncate(c) ==
    /\ pc[c] \in {"creating", "loaded"}
    /\ file' = Blank
    /\ Goto(c, "truncated")
    /\ UNCHANGED <<request, data, base, written, shared, sets, crashes>>

\* Mutant of Fill: only the changed entry is written back.
FillEntry(c) ==
    /\ pc[c] = "truncated"
    /\ file' = IF request[c] = <<>> THEN data[c]
               ELSE [NoMarks EXCEPT ![request[c][1]] = request[c][2]]
    /\ Goto(c, "idle")
    /\ UNCHANGED <<request, data, base, written, shared, sets, crashes>>

\* and fills it.
Fill(c) ==
    /\ pc[c] = "truncated"
    /\ file' \in Overwritten(file, data[c])
    /\ Goto(c, "idle")
    /\ UNCHANGED <<request, data, base, written, shared, sets, crashes>>

\* A client dies, or ends after its set has raised.
Crash(c) ==
    /\ pc[c] # "closed" /\ crashes < MaxCrashes
    /\ crashes' = crashes + 1
    /\ Goto(c, "closed")
    /\ UNCHANGED <<file, request, data, base, written, shared, sets>>

Next == \E c \in Clients :
           \/ Open(c) \/ Truncate(c) \/ Fill(c) \/ Crash(c)
           \/ \E name \in Names, subkey \in Subkeys, v \in Marks : BeginSet(c, name, subkey, v)

Spec == Init /\ [][Next]_vars

----------------------------------------------------------------------------
(* Properties. *)

\* However many clients write at once, and wherever they die, a mark that can be
\* read was written for that very key and subkey: no run resumes from a mark of
\* another repository or from one made of two.
MarksWereWritten ==
    \A k \in Keys : Load(file)[k] # None => <<k, Load(file)[k]>> \in written

\* As long as no two clients overlap, no client finds the store unreadable,
\* wherever an earlier one has died.
LoneWriterNeverRaises == shared \/ \A c \in Clients : pc[c] # "raised"

\* As long as no two clients overlap, the store implements HwmMap: a set takes
\* effect at once and for its key only.  The file is not consulted while it is
\* empty; dying between truncating and filling it forgets every mark.
marksBar == IF \E c \in Clients : pc[c] = "truncated"
            THEN base[CHOOSE c \in Clients : pc[c] = "truncated"] ELSE Load(file)

Map == INSTANCE HwmMap WITH marks <- marksBar

LoneWriterIsAtomic == Map!Init /\ [][shared' \/ Map!Next \/ UNCHANGED marksBar]_vars
=============================================================================
