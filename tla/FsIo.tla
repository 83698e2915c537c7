-------------------------------- MODULE FsIo --------------------------------
(***************************************************************************)
(* FsIo (chton/src/io/fs_io.rs): several callers over one directory.  A    *)
(* call is the calls of the file system it makes, each a step: make the    *)
(* directories, open and truncate, write; open, read until the end; test,  *)
(* then remove; and walk a directory at a time.  apply_batch is the        *)
(* default of FileIo, one operation after the other.                       *)
(***************************************************************************)
EXTENDS Naturals, Sequences, FiniteSets

CONSTANTS
  Callers,
  Segments,  (* the names a path is split into                             *)
  Keys,      (* paths below the root, as sequences of their segments       *)
  BadKeys,   (* paths with a character that resolve refuses                *)
  Data,      (* the values written, as sequences of what one write takes   *)
  Prefixes,  (* the prefixes passed to list                                *)
  Batches,   (* the operations passed at once; value NONE deletes          *)
  NONE,      (* no file, no value                                          *)
  ANY,       (* some content nobody can tell                               *)
  DONE,      (* the answer Ok(())                                          *)
  FAILED,    (* an Err                                                     *)
  RUNNING    (* no call ended in this step                                 *)

ASSUME FsAssumption ==
  /\ IsFiniteSet(Callers)
  /\ Keys \subseteq Seq(Segments) \ {<<>>}
  /\ Prefixes \subseteq Seq(Segments)
  /\ Keys \cap BadKeys = {}
  /\ Data \subseteq Seq(Nat)
  /\ Batches \subseteq Seq([key : Keys \cup BadKeys, value : Data \cup {NONE}])
  /\ ANY # NONE /\ {NONE, ANY} \cap Seq(Nat) = {}
  /\ Callers \cap (Keys \cup {NONE}) = {} /\ NONE \notin Keys

VARIABLES
  dirs,      (* the directories, the root being <<>>                       *)
  file,      (* what the file of every key holds                           *)
  orphan,    (* what files without a name hold that are still open         *)
  call,      (* per caller: where it is and its locals                     *)
  possible,  (* what a key may hold, by the calls that ended or were cut   *)
  answer     (* what the call answered that ended in this step             *)

vars == <<dirs, file, orphan, call, possible, answer>>

(* handle: the key of the open file or the orphan it has become;            *)
(* sure: keys nobody else began to write or delete since this call began.   *)
Idle ==
  [at |-> "idle", todo |-> <<>>, key |-> <<>>, handle |-> NONE, got |-> <<>>,
   left |-> {}, found |-> {}, sure |-> {}]

Init ==
  /\ dirs = {<<>>}
  /\ file = [k \in Keys |-> NONE]
  /\ orphan = [c \in Callers |-> NONE]
  /\ call = [c \in Callers |-> Idle]
  /\ possible = [k \in Keys |-> {NONE}]
  /\ answer = DONE

At(c, place) == call[c].at = place
Ancestors(k) == { SubSeq(k, 1, n) : n \in 0 .. Len(k) - 1 }
Blocked(k)   == \E p \in Ancestors(k) \cap Keys : file[p] # NONE

Changing(c, k) == call[c].at \in {"open", "write", "remove"} /\ call[c].key = k
Busy(k)        == \E c \in Callers : Changing(c, k)
Quiet          == { k \in Keys : ~ Busy(k) }

(* The last handle of a file without a name frees it.                       *)
Close(c) ==
  orphan' = [o \in Callers |->
               IF \E d \in Callers \ {c} : call[d].handle = o THEN orphan[o] ELSE NONE]

Returns(c, value) ==
  /\ call' = [call EXCEPT ![c] = Idle]
  /\ answer' = value
  /\ Close(c)

Goes == answer' = RUNNING

(***************************************************************************)
(* write, delete and apply_batch.                                          *)
(***************************************************************************)
Batch(c, ops) ==
  /\ At(c, "idle")
  /\ call' = [call EXCEPT ![c] = [Idle EXCEPT !.at = "batch", !.todo = ops]]
  /\ Goes
  /\ UNCHANGED <<dirs, file, orphan, possible>>

Op(c) == Head(call[c].todo)

(* The caller begins to change the key: what others counted on is gone.     *)
Begin(c, k, place, outcomes) ==
  /\ call' = [d \in Callers |->
                IF d = c
                THEN [call[c] EXCEPT !.at = place, !.key = k,
                                     !.sure = IF Busy(k) THEN {} ELSE {k}]
                ELSE [call[d] EXCEPT !.sure = @ \ {k}]]
  /\ possible' = [possible EXCEPT ![k] = IF Busy(k) THEN {ANY} ELSE @ \cup outcomes]

Parts(value) == { SubSeq(value, 1, n) : n \in 0 .. Len(value) }

(* Mutant: the parent directory is taken for granted. *)
WriteDirsSkipped(c) ==
  LET k == Op(c).key IN
  /\ At(c, "batch")
  /\ call[c].todo # <<>>
  /\ Op(c).value # NONE
  /\ k \in Keys
  /\ Begin(c, k, "open", Parts(Op(c).value))
  /\ Goes
  /\ UNCHANGED <<dirs, file, orphan>>

(* create_dir_all of the parent makes the directories from the root on; it  *)
(* fails at p, for whatever reason, with those above p made, and is sure to *)
(* fail where a file is in its way.                                         *)
WriteDirs(c) ==
  LET k == Op(c).key IN
  /\ At(c, "batch")
  /\ call[c].todo # <<>>
  /\ Op(c).value # NONE
  /\ k \in Keys
  /\ \/ /\ ~ Blocked(k)
        /\ dirs' = dirs \cup Ancestors(k)
        /\ Begin(c, k, "open", Parts(Op(c).value))
        /\ Goes
        /\ UNCHANGED <<file, orphan>>
     \/ \E p \in Ancestors(k) :
          /\ ~ Blocked(p)
          /\ dirs' = dirs \cup Ancestors(p)
          /\ Returns(c, FAILED)
          /\ UNCHANGED <<file, possible>>

(* fs::write opens with create and truncate; a directory it cannot open.    *)
WriteOpen(c) ==
  LET k == call[c].key IN
  /\ At(c, "open")
  /\ k \notin dirs
  /\ file' = [file EXCEPT ![k] = <<>>]
  /\ call' = [call EXCEPT ![c].at = "write", ![c].handle = k]
  /\ Goes
  /\ UNCHANGED <<dirs, orphan, possible>>

(* A name is no file as long as it is a directory, and it stays one.        *)
WriteOpenFails(c) ==
  /\ At(c, "open")
  /\ call[c].key \in dirs
  /\ possible' = [possible EXCEPT ![call[c].key] = {NONE}]
  /\ Returns(c, FAILED)
  /\ UNCHANGED <<dirs, file>>

PutAt(content, position, word) ==
  [p \in 1 .. (IF position > Len(content) THEN position ELSE Len(content)) |->
     IF p = position THEN word ELSE IF p <= Len(content) THEN content[p] ELSE 0]

Written(c) == Len(call[c].got)

(* write_all; call.got is what was written so far.                          *)
WriteWord(c) ==
  LET word == Op(c).value[Written(c) + 1] IN
  /\ At(c, "write")
  /\ Written(c) < Len(Op(c).value)
  /\ IF call[c].handle \in Keys
     THEN /\ file' = [file EXCEPT ![call[c].handle] = PutAt(@, Written(c) + 1, word)]
          /\ UNCHANGED orphan
     ELSE /\ orphan' = [orphan EXCEPT ![call[c].handle] = PutAt(@, Written(c) + 1, word)]
          /\ UNCHANGED file
  /\ call' = [call EXCEPT ![c].got = Append(@, word)]
  /\ Goes
  /\ UNCHANGED <<dirs, possible>>

(* The open fails for another reason and has not truncated, or a write does. *)
WriteFails(c) ==
  /\ At(c, "open") \/ (At(c, "write") /\ Written(c) < Len(Op(c).value))
  /\ Returns(c, FAILED)
  /\ UNCHANGED <<dirs, file, possible>>

NextOp(c) == [Idle EXCEPT !.at = "batch", !.todo = Tail(call[c].todo)]

(* The operation is over and the next one is up.                            *)
OpDone(c, k, value) ==
  /\ possible' = [possible EXCEPT ![k] = IF k \in call[c].sure THEN {value} ELSE @]
  /\ call' = [call EXCEPT ![c] = NextOp(c)]
  /\ Close(c)

(* Mutant: the write ends with what one call took. *)
WriteEndsShort(c) ==
  /\ At(c, "write")
  /\ OpDone(c, call[c].key, Op(c).value)
  /\ Goes
  /\ UNCHANGED <<dirs, file>>

WriteEnds(c) ==
  /\ At(c, "write")
  /\ Written(c) = Len(Op(c).value)
  /\ OpDone(c, call[c].key, Op(c).value)
  /\ Goes
  /\ UNCHANGED <<dirs, file>>

(* Mutant: the file is removed without a test. *)
DeleteUntested(c) ==
  LET k == Op(c).key IN
  /\ At(c, "batch")
  /\ call[c].todo # <<>>
  /\ Op(c).value = NONE
  /\ k \in Keys
  /\ Begin(c, k, "remove", {NONE})
  /\ Goes
  /\ UNCHANGED <<dirs, file, orphan>>

(* exists: nothing is done to a name that is neither file nor directory.    *)
DeleteTest(c) ==
  LET k == Op(c).key IN
  /\ At(c, "batch")
  /\ call[c].todo # <<>>
  /\ Op(c).value = NONE
  /\ k \in Keys
  /\ IF file[k] # NONE \/ k \in dirs
     THEN Begin(c, k, "remove", {NONE})
     ELSE /\ call' = [call EXCEPT ![c].todo = Tail(@)]
          /\ UNCHANGED possible
  /\ Goes
  /\ UNCHANGED <<dirs, file, orphan>>

(* Whoever has the file open goes on with it without its name.              *)
DeleteFile(c) ==
  LET k    == call[c].key
      open == { d \in Callers : call[d].handle = k }
  IN
  /\ At(c, "remove")
  /\ file[k] # NONE
  /\ file' = [file EXCEPT ![k] = NONE]
  /\ \E o \in Callers \ { call[d].handle : d \in Callers \ open } :
       /\ orphan' = IF open = {} THEN orphan ELSE [orphan EXCEPT ![o] = file[k]]
       /\ call' = [d \in Callers |->
                     IF d = c THEN NextOp(c)
                     ELSE IF d \in open THEN [call[d] EXCEPT !.handle = o] ELSE call[d]]
  /\ possible' = [possible EXCEPT ![k] = IF k \in call[c].sure THEN {NONE} ELSE @]
  /\ Goes
  /\ UNCHANGED dirs

(* remove_file: another caller was faster, or it is a directory.            *)
DeleteFails(c) ==
  /\ At(c, "remove")
  /\ file[call[c].key] = NONE
  /\ Returns(c, FAILED)
  /\ UNCHANGED <<dirs, file, possible>>

OpRefused(c) ==
  /\ At(c, "batch")
  /\ call[c].todo # <<>>
  /\ Op(c).key \in BadKeys
  /\ Returns(c, FAILED)
  /\ UNCHANGED <<dirs, file, possible>>

BatchEnds(c) ==
  /\ At(c, "batch")
  /\ call[c].todo = <<>>
  /\ Returns(c, DONE)
  /\ UNCHANGED <<dirs, file, possible>>

(***************************************************************************)
(* read and list.                                                          *)
(***************************************************************************)
Reading(c, k) ==
  /\ call' = [call EXCEPT ![c] = [Idle EXCEPT !.at = "read", !.key = k, !.handle = k,
                                              !.sure = {k} \cap Quiet]]
  /\ Goes
  /\ UNCHANGED orphan

Content(handle) == IF handle \in Keys THEN file[handle] ELSE orphan[handle]

(* NotFound is None; a directory, and a file in the way, are errors.        *)
Read(c, k) ==
  /\ At(c, "idle")
  /\ IF file[k] # NONE THEN Reading(c, k)
     ELSE Returns(c, IF Blocked(k) \/ k \in dirs THEN FAILED ELSE NONE)
  /\ UNCHANGED <<dirs, file, possible>>

ReadWord(c) ==
  LET content == Content(call[c].handle) IN
  /\ At(c, "read")
  /\ Len(call[c].got) < Len(content)
  /\ call' = [call EXCEPT ![c].got = Append(@, content[Len(@) + 1])]
  /\ Goes
  /\ UNCHANGED <<dirs, file, orphan, possible>>

(* Mutant: one call of read is taken for the whole file. *)
ReadEndsShort(c) ==
  /\ At(c, "read")
  /\ call[c].got # <<>>
  /\ Returns(c, [value |-> call[c].got])
  /\ UNCHANGED <<dirs, file, possible>>

ReadEnds(c) ==
  /\ At(c, "read")
  /\ Len(call[c].got) >= Len(Content(call[c].handle))
  /\ Returns(c, [value |-> call[c].got])
  /\ UNCHANGED <<dirs, file, possible>>

Under(p) == { k \in Keys : p \in Ancestors(k) }

(* exists and is_dir: a prefix that names no directory lists nothing.       *)
List(c, p) ==
  /\ At(c, "idle")
  /\ IF p \in dirs
     THEN /\ call' = [call EXCEPT ![c] = [Idle EXCEPT !.at = "walk", !.key = p,
                                                      !.left = {p},
                                                      !.sure = Quiet \cap Under(p)]]
          /\ Goes
          /\ UNCHANGED orphan
     ELSE Returns(c, [keys |-> {}])
  /\ UNCHANGED <<dirs, file, possible>>

ChildOf(p, d) == Len(p) = Len(d) + 1 /\ SubSeq(p, 1, Len(d)) = d

(* Mutant: the walk does not go into directories. *)
WalkFlat(c) ==
  /\ At(c, "walk")
  /\ \E d \in call[c].left :
       call' = [call EXCEPT
         ![c].left = @ \ {d},
         ![c].found = @ \cup { k \in Keys : file[k] # NONE /\ ChildOf(k, d) }]
  /\ Goes
  /\ UNCHANGED <<dirs, file, orphan, possible>>

Walk(c) ==
  /\ At(c, "walk")
  /\ \E d \in call[c].left :
       call' = [call EXCEPT
         ![c].left = (@ \ {d}) \cup { e \in dirs : ChildOf(e, d) },
         ![c].found = @ \cup { k \in Keys : file[k] # NONE /\ ChildOf(k, d) }]
  /\ Goes
  /\ UNCHANGED <<dirs, file, orphan, possible>>

WalkEnds(c) ==
  /\ At(c, "walk")
  /\ call[c].left = {}
  /\ Returns(c, [keys |-> call[c].found])
  /\ UNCHANGED <<dirs, file, possible>>

(* The process ends and starts again over what is in the directory.         *)
Restart ==
  /\ call' = [c \in Callers |-> Idle]
  /\ orphan' = [c \in Callers |-> NONE]
  /\ Goes
  /\ UNCHANGED <<dirs, file, possible>>

Next ==
  \/ \E c \in Callers :
       \/ \E ops \in Batches : Batch(c, ops)
       \/ WriteDirs(c)
       \/ WriteOpen(c)
       \/ WriteOpenFails(c)
       \/ WriteWord(c)
       \/ WriteFails(c)
       \/ WriteEnds(c)
       \/ DeleteTest(c)
       \/ DeleteFile(c)
       \/ DeleteFails(c)
       \/ OpRefused(c)
       \/ BatchEnds(c)
       \/ \E k \in Keys : Read(c, k)
       \/ ReadWord(c)
       \/ ReadEnds(c)
       \/ \E p \in Prefixes : List(c, p)
       \/ Walk(c)
       \/ WalkEnds(c)
  \/ Restart

Spec == Init /\ [][Next]_vars

(***************************************************************************)
(* Properties.                                                             *)
(***************************************************************************)
(* A key holds the whole value of the last write that ended, or nothing     *)
(* after a delete; a write that was cut leaves the value before, or a part  *)
(* of the new one from its first byte; only writes of the same key that     *)
(* overlap leave anything else.  Writes of other keys never matter.         *)
KeysAreWhole ==
  \A k \in Keys : ANY \in possible[k] \/ file[k] \in possible[k]

(* The directory is a tree: a file stands in a directory and is none        *)
(* itself; who works on a file has it open, by its name or without.         *)
TreeOK ==
  /\ <<>> \in dirs
  /\ \A d \in dirs : Ancestors(d) \subseteq dirs
  /\ \A k \in Keys : file[k] # NONE => Ancestors(k) \subseteq dirs /\ k \notin dirs
  /\ \A c \in Callers : call[c].at \in {"read", "write"} => Content(call[c].handle) # NONE

(* A read during which nobody wrote or deleted its key answers what the key *)
(* holds, also when the writes before it were cut short.                    *)
ReadsAreWhole ==
  [][\A c \in Callers :
       ReadEnds(c) /\ call[c].key \in call[c].sure /\ ANY \notin possible[call[c].key]
       => answer'.value \in possible[call[c].key]]_vars

(* A list that others write beside is no snapshot, but it holds every key   *)
(* below the prefix that was there all along, and none that never was.      *)
ListSeesQuietKeys ==
  \A c \in Callers :
    At(c, "walk") /\ call[c].left = {} =>
      \A k \in call[c].sure :
        /\ {NONE, ANY} \cap possible[k] = {} => k \in call[c].found
        /\ possible[k] = {NONE} => k \notin call[c].found

(* A delete fails only on a directory or when another caller wrote or       *)
(* deleted the key meanwhile; deleting an absent key is Ok.                 *)
DeleteFailsOnlyInRace ==
  \A c \in Callers :
    At(c, "remove") /\ file[call[c].key] = NONE =>
      call[c].key \in dirs \/ call[c].key \notin call[c].sure
=============================================================================
