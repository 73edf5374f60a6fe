---------------------------- MODULE ManagedNotes ----------------------------
(***************************************************************************)
(* ManagedNoteStore (core/managed_notes.py) at the granularity of the file *)
(* system calls it makes, for the notes that share one file name.          *)
(*                                                                         *)
(* The service's lock lets one create or rollback run at a time, but the   *)
(* managed directory is an ordinary directory: editors, sync tools and the *)
(* user change it too, between any two system calls.                       *)
(* A file keeps its identity (an index of files) from the moment a name is *)
(* given to it, whatever is written into it.                               *)
(***************************************************************************)
EXTENDS Naturals, Sequences, Functions

CONSTANTS
  Tasks,        \* the tasks whose notes have this file name
  ContentOf,    \* the content each of them asks for
  Foreign,      \* a content none of them asks for
  MaxOutside,   \* bound on what others do
  MaxWriteFaults, \* bound on OSErrors while a file is made or written
  MaxReadFaults,  \* bound on OSErrors while one is read or removed
  MaxCrashes    \* bound on crashes of the process

ASSUME ContentAssumption ==
  /\ ContentOf \in [Tasks -> Range(ContentOf)]
  /\ Foreign \notin Range(ContentOf)
  /\ {MaxOutside, MaxWriteFaults, MaxReadFaults, MaxCrashes} \subseteq Nat

VARIABLES
  files,     \* every file there ever was: [maker, content]
  entry,     \* the file the name refers to, 0 if there is none
  status,    \* what Nexuss knows of each note
  call,      \* the store operation in progress
  outside, writeFaults, readFaults, crashes   \* counted for the bounds

env  == <<outside, writeFaults, readFaults, crashes>>
vars == <<files, entry, status, call, outside, writeFaults, readFaults, crashes>>

-----------------------------------------------------------------------------
Empty    == "empty"
Partial  == "partial"
Others   == "others"
NoFile   == 0
Contents == Range(ContentOf) \cup {Foreign, Empty, Partial}

(* new: not yet run; created: COMPLETED, can be undone; failed: FAILED;    *)
(* undone: ROLLED_BACK.                                                    *)
Status == {"new", "created", "failed", "undone"}

(* compared: how often others had acted when the hash was compared, which  *)
(* the properties refer to.                                                *)
Idle == [op |-> "none", task |-> "none", at |-> "none", file |-> NoFile, compared |-> 0]

Operation(op, t, at, file) ==
  [op |-> op, task |-> t, at |-> at, file |-> file, compared |-> 0]

At(op, step) == call.op = op /\ call.at = step

Goto(step) == call' = [call EXCEPT !.at = step]

(* The operation returns or raises a ManagedNoteError.                     *)
Return(outcome) == /\ status' = [status EXCEPT ![call.task] = outcome]
                   /\ call' = Idle

(* An OSError leaves the store: nobody records an outcome.                 *)
Raise == call' = Idle /\ UNCHANGED status

Present == entry # NoFile
Bytes   == files[entry].content
Wanted  == ContentOf[call.task]

NewFile(maker, content) ==
  /\ files' = Append(files, [maker |-> maker, content |-> content])
  /\ entry' = Len(files) + 1

Init ==
  /\ files = << >>
  /\ entry = NoFile
  /\ status = [t \in Tasks |-> "new"]
  /\ call = Idle
  /\ outside = 0 /\ writeFaults = 0 /\ readFaults = 0 /\ crashes = 0

-----------------------------------------------------------------------------
(* create.                                                                 *)

BeginCreate(t) ==
  /\ call = Idle
  /\ status[t] = "new"
  /\ call' = Operation("create", t, "open", NoFile)
  /\ UNCHANGED <<files, entry, status, env>>

(* Mutant: os.open without O_EXCL takes the file that is there.            *)
OpenShared ==
  /\ At("create", "open")
  /\ \/ ~Present /\ NewFile(call.task, Empty)
     \/ Present /\ UNCHANGED <<files, entry>>
  /\ call' = [call EXCEPT !.at = "write", !.file = entry']
  /\ UNCHANGED <<status, env>>

(* os.open with O_CREAT | O_EXCL.                                          *)
Open ==
  /\ At("create", "open")
  /\ ~Present
  /\ NewFile(call.task, Empty)
  /\ call' = [call EXCEPT !.at = "write", !.file = entry']
  /\ UNCHANGED <<status, env>>

(* Mutant: cleans up as after a creation that failed later.                *)
OpenExistsRemoving ==
  /\ At("create", "open")
  /\ Present
  /\ entry' = NoFile
  /\ Return("failed")
  /\ UNCHANGED <<files, env>>

(* NOTE_ALREADY_EXISTS.                                                    *)
OpenExists ==
  /\ At("create", "open")
  /\ Present
  /\ Return("failed")
  /\ UNCHANGED <<files, entry, env>>

(* NOTE_CREATE_FAILED: any other OSError of os.open.                       *)
OpenFails ==
  /\ At("create", "open")
  /\ writeFaults < MaxWriteFaults
  /\ writeFaults' = writeFaults + 1
  /\ Return("failed")
  /\ UNCHANGED <<files, entry, outside, readFaults, crashes>>

(* write, flush and fsync go to the open file, wherever its name is now.   *)
Write ==
  /\ At("create", "write")
  /\ files' = [files EXCEPT ![call.file].content = Wanted]
  /\ Goto("verify")
  /\ UNCHANGED <<entry, status, env>>

WriteFails ==
  /\ At("create", "write")
  /\ writeFaults < MaxWriteFaults
  /\ writeFaults' = writeFaults + 1
  /\ files' = [files EXCEPT ![call.file].content = Partial]
  /\ Goto("abandon")
  /\ UNCHANGED <<entry, status, outside, readFaults, crashes>>

(* except: target.unlink(missing_ok=True); raise.  (That it fails, and the *)
(* file stays, is a case of ReadFails.)                                    *)
Abandon ==
  /\ At("create", "abandon")
  /\ entry' = NoFile
  /\ Raise
  /\ UNCHANGED <<files, env>>

(* The file is read back by name.                                          *)
Verify ==
  /\ At("create", "verify")
  /\ Present
  /\ IF Bytes = Wanted THEN Return("created") ELSE Goto("discard") /\ UNCHANGED status
  /\ UNCHANGED <<files, entry, env>>

(* NOTE_POST_WRITE_VERIFICATION_FAILED, after the file was removed.        *)
Discard ==
  /\ At("create", "discard")
  /\ entry' = NoFile
  /\ Return("failed")
  /\ UNCHANGED <<files, env>>

-----------------------------------------------------------------------------
(* rollback.                                                               *)

(* Mutant: a task is rolled back whatever became of its creation.          *)
BeginRollbackAnyway(t) ==
  /\ call = Idle
  /\ call' = Operation("rollback", t, "look", NoFile)
  /\ UNCHANGED <<files, entry, status, env>>

BeginRollback(t) ==
  /\ call = Idle
  /\ status[t] = "created"
  /\ call' = Operation("rollback", t, "look", NoFile)
  /\ UNCHANGED <<files, entry, status, env>>

(* is_file: ROLLBACK_TARGET_MISSING otherwise.                             *)
Look ==
  /\ At("rollback", "look")
  /\ IF Present THEN Goto("hash") /\ UNCHANGED status ELSE Return("failed")
  /\ UNCHANGED <<files, entry, env>>

(* Mutant: the hash is computed and not compared.                          *)
HashIgnored ==
  /\ At("rollback", "hash")
  /\ Present
  /\ call' = [call EXCEPT !.at = "remove", !.compared = outside]
  /\ UNCHANGED <<files, entry, status, env>>

(* read_bytes and the comparison: ROLLBACK_HASH_MISMATCH otherwise.        *)
Hash ==
  /\ At("rollback", "hash")
  /\ Present
  /\ IF Bytes = Wanted
       THEN call' = [call EXCEPT !.at = "remove", !.compared = outside] /\ UNCHANGED status
       ELSE Return("failed")
  /\ UNCHANGED <<files, entry, env>>

(* Mutant: the file is not removed.                                        *)
RemoveNothing ==
  /\ At("rollback", "remove")
  /\ Present
  /\ Return("undone")
  /\ UNCHANGED <<files, entry, env>>

Remove ==
  /\ At("rollback", "remove")
  /\ Present
  /\ entry' = NoFile
  /\ Goto("confirm")
  /\ UNCHANGED <<files, status, env>>

(* exists: ROLLBACK_DELETE_VERIFICATION_FAILED if the name is taken again. *)
Confirm ==
  /\ At("rollback", "confirm")
  /\ Return(IF Present THEN "failed" ELSE "undone")
  /\ UNCHANGED <<files, entry, env>>

Reading == At("create", "verify") \/ At("rollback", "hash") \/ At("rollback", "remove")

(* read_bytes or unlink finds no file: FileNotFoundError is not handled.   *)
Vanished ==
  /\ Reading
  /\ ~Present
  /\ Raise
  /\ UNCHANGED <<files, entry, env>>

(* Any other OSError while reading or removing is not handled either, nor  *)
(* one of the unlink after a failed write or read-back.                    *)
ReadFails ==
  /\ Reading \/ At("create", "abandon") \/ At("create", "discard")
  /\ readFaults < MaxReadFaults
  /\ readFaults' = readFaults + 1
  /\ Raise
  /\ UNCHANGED <<files, entry, outside, writeFaults, crashes>>

(* The process dies in the middle of an operation; the file stays as it is *)
(* and every task is forgotten.                                            *)
Crash ==
  /\ crashes < MaxCrashes
  /\ crashes' = crashes + 1
  /\ status' = [t \in Tasks |-> "new"]
  /\ call' = Idle
  /\ UNCHANGED <<files, entry, outside, writeFaults, readFaults>>

-----------------------------------------------------------------------------
(* Others.                                                                 *)

MayAct == /\ outside < MaxOutside
          /\ outside' = outside + 1
          /\ UNCHANGED <<status, call, writeFaults, readFaults, crashes>>

Edit == /\ Present
        /\ files' = [files EXCEPT ![entry].content = Foreign]
        /\ MayAct
        /\ UNCHANGED entry

Delete == /\ Present
          /\ entry' = NoFile
          /\ MayAct
          /\ UNCHANGED files

(* A file of somebody else under the name: saved anew, or moved over it.   *)
Replace == /\ NewFile(Others, Foreign)
           /\ MayAct

Outside == Edit \/ Delete \/ Replace

Create   == \/ \E t \in Tasks : BeginCreate(t)
            \/ Open \/ OpenExists \/ OpenFails \/ Write \/ WriteFails \/ Abandon
            \/ Verify \/ Discard
Rollback == \/ \E t \in Tasks : BeginRollback(t)
            \/ Look \/ Hash \/ Remove \/ Confirm
Store    == Create \/ Rollback \/ Vanished \/ ReadFails

Next == Store \/ Crash \/ Outside

Spec == Init /\ [][Next]_vars

-----------------------------------------------------------------------------
(* Properties.                                                             *)

Underway(t) == status[t] = IF call.op = "create" THEN "new" ELSE "created"

File == [maker : Tasks \cup {Others}, content : Contents]

CreateCall   == [op : {"create"}, task : Tasks,
                 at : {"open", "write", "abandon", "verify", "discard"},
                 file : 0..Len(files), compared : {0}]
RollbackCall == [op : {"rollback"}, task : Tasks, at : {"look", "hash", "remove", "confirm"},
                 file : {NoFile}, compared : 0..outside]

(* Every variable has its type; the name refers to a file that exists; the *)
(* store creates for tasks that have no note and undoes those that have.   *)
TypeOK ==
  /\ files \in Seq(File)
  /\ entry \in 0..Len(files)
  /\ status \in [Tasks -> Status]
  /\ call \in {Idle} \cup CreateCall \cup RollbackCall
  /\ call # Idle => Underway(call.task)
  /\ {outside, writeFaults, readFaults, crashes} \subseteq Nat

Linked(t) == entry # NoFile /\ files[entry].maker = t

(* Nobody else used the directory.                                         *)
Alone == outside = 0

(* Neither the disk nor the process failed, but in a write, which the store*)
(* handles.                                                                *)
Unfailing == readFaults = 0 /\ crashes = 0

(* The file a creation works on is the one its open call made.             *)
OwnFile ==
  At("create", "write") \/ At("create", "verify") \/ At("create", "discard")
    => call.file # NoFile /\ files[call.file].maker = call.task

(* A removal that nobody came before finds what was compared.              *)
ComparedFile ==
  At("rollback", "remove") /\ call.compared = outside => Present /\ Bytes = Wanted

(* As long as nobody else uses the directory, the name refers to the note  *)
(* of the task that has one, or is about to, also when a file was left     *)
(* there by an operation that failed or was cut off.                       *)
NameHeldBy(t) == Linked(t) /\ files[entry].content = ContentOf[t]

InCall(t) == call # Idle /\ call.task = t

DirectoryKnown ==
  /\ \A t \in Tasks : ~InCall(t) /\ status[t] = "created" => NameHeldBy(t)
  /\ \A t \in Tasks : ~InCall(t) /\ status[t] = "undone" => ~Linked(t)
  /\ call.op = "create" /\ call.at # "open" => entry = call.file /\ Linked(call.task)
  /\ At("create", "verify") => NameHeldBy(call.task)
  /\ call.op = "rollback" /\ call.at # "confirm" => NameHeldBy(call.task)
  /\ At("rollback", "confirm") => ~Present

(* And no such file is there as long as nothing fails.                     *)
NothingLeft ==
  /\ \A t \in Tasks : ~InCall(t) /\ status[t] \in {"new", "failed"} => ~Linked(t)
  /\ At("create", "open") => ~Linked(call.task)

NotesInv == /\ TypeOK /\ OwnFile /\ ComparedFile
            /\ Alone => DirectoryKnown
            /\ Alone /\ Unfailing => NothingLeft

(* As long as nobody else uses the directory, a created note is the file   *)
(* under the name, with exactly the approved content: whatever failed, what*)
(* it left there is not taken for a note, and no later failure removes one.*)
CreatedIsThere == Alone => \A t \in Tasks : status[t] = "created" /\ call.task # t => NameHeldBy(t)

(* Nor has a task that was undone left a file; one that failed because the *)
(* store said so may have, if its clean-up failed or was cut off.          *)
EndsLeaveNothing ==
  Alone => \A t \in Tasks :
    /\ status[t] = "undone" => ~Linked(t)
    /\ status[t] = "failed" /\ Unfailing => ~Linked(t)

(* As long as nobody else uses the directory, what the store removes, after*)
(* a failed write or read-back or in an undo, is the file of the task it   *)
(* works for, never what another task has or left under the name.          *)
RemovesOnlyOwn ==
  [][Alone /\ entry # NoFile /\ entry' = NoFile /\ outside' = outside =>
       files[entry].maker = call.task]_vars

(* The store writes into no file but the one its open call made for this   *)
(* task: exclusive creation, no overwrite (P3 requirement 8).              *)
WritesOnlyOwn ==
  [][\A f \in DOMAIN files :
       files'[f] # files[f] /\ outside' = outside => files[f].maker = call.task]_vars

RollbackRemoves == call.op = "rollback" /\ entry # NoFile /\ entry' = NoFile /\ outside' = outside

(* What a rollback removes still has the content of its receipt (ADR-0005: *)
(* modified files are never deleted), unless it was modified after its hash*)
(* was compared, however late before.                                      *)
RollbackSparesFound ==
  [][RollbackRemoves /\ outside = call.compared => files[entry].content = Wanted]_vars

(* What a rollback removes is the file its own creation made (P3           *)
(* requirement 11).                                                        *)
RollbackSparesOthers ==
  [][RollbackRemoves => files[entry].maker = call.task]_vars
=============================================================================
