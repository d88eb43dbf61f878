--------------------------- MODULE PersistentStore ---------------------------
(***************************************************************************)
(* The system UUID on disk (persistent_data.rs), as main reads or makes it *)
(* at each start of the daemon: load config.json, and if there is none,    *)
(* write config.json.tmp and rename it.  The process may be killed between *)
(* any two system calls, each call may fail, and a power cut loses what    *)
(* the kernel has not written back: save does not sync.                    *)
(***************************************************************************)
EXTENDS Naturals

CONSTANTS
    Uuids,      \* the UUIDs Uuid::new_v4 may draw
    Missing,    \* no file of that name
    Torn        \* a file that cannot be parsed: empty, or half of it

ASSUME PersistentAssumption == Missing # Torn /\ Missing \notin Uuids /\ Torn \notin Uuids

VARIABLES
    file,       \* config.json
    tmp,        \* config.json.tmp
    dirty,      \* what of config.json is not on the disk yet
    pc,         \* where the daemon is in main, or down
    uuid,       \* data.system_uuid of this boot
    drawn,      \* history: the UUIDs drawn so far
    failed,     \* history: a system call of this boot has failed
    cut,        \* history: a power cut has torn config.json
    last        \* history: the UUID announced since power came, by the last
                \* boot without a failure; or Missing

disk == <<file, tmp, dirty>>
process == <<pc, uuid, failed>>
persistentVars == <<disk, process, drawn, cut, last>>

Contents == Uuids \cup {Missing, Torn}

At(point) == pc = point

-----------------------------------------------------------------------------
(* load_or_generate_uuid.  No other process touches the files, so what     *)
(* only reads them is one step with what decides by it.                    *)

\* PersistentData::default: a UUID never drawn before.
Default(id) == /\ id \in Uuids \ drawn
               /\ uuid' = id
               /\ drawn' = drawn \cup {id}

\* load: the UUID of the file; or a fresh one if there is no file, or it
\* cannot be read or parsed.
Load ==
    /\ At("down")
    /\ pc' = "loaded"
    /\ \/ /\ file \in Uuids
          /\ uuid' = file /\ failed' = FALSE
          /\ UNCHANGED drawn
       \/ /\ file \in {Missing, Torn}
          /\ \E id \in Uuids : Default(id)
          /\ failed' = FALSE
       \/ /\ file # Missing
          /\ \E id \in Uuids : Default(id)
          /\ failed' = TRUE
    /\ UNCHANGED <<disk, cut, last>>

\* Mutant: what was loaded is saved whenever it is not what the file has.
NeedsSaveIfOther == file # uuid

\* A file that is there is left alone, also when it could not be loaded.
NeedsSave == file = Missing

\* The UUID goes to AppState and is served; nothing changes it later.
Announce ==
    /\ At("loaded") /\ ~ NeedsSave
    /\ pc' = "up"
    /\ last' = IF failed THEN last ELSE uuid
    /\ UNCHANGED <<disk, uuid, failed, drawn, cut>>

\* save, first half: the directory, and the temporary file opened, which
\* truncates it.
SaveOpen ==
    /\ At("loaded") /\ NeedsSave
    /\ tmp' = Torn
    /\ pc' = "writing"
    /\ UNCHANGED <<file, dirty, uuid, failed, drawn, cut, last>>

\* Mutant: the file is written in its place.
SaveWriteInPlace ==
    /\ At("writing")
    /\ file' = Torn
    /\ tmp' = uuid
    /\ pc' = "written"
    /\ UNCHANGED <<dirty, uuid, failed, drawn, cut, last>>

SaveWrite ==
    /\ At("writing")
    /\ tmp' = uuid
    /\ pc' = "written"
    /\ UNCHANGED <<file, dirty, uuid, failed, drawn, cut, last>>

\* Mutant: the old file is removed first, and what was written forgotten.
SaveRenameLost ==
    /\ At("written")
    /\ tmp' = Missing
    /\ pc' = "up"
    /\ last' = uuid
    /\ UNCHANGED <<file, dirty, uuid, failed, drawn, cut>>

SaveRename ==
    /\ At("written")
    /\ file' = tmp /\ tmp' = Missing
    /\ dirty' = {"data", "name"}
    /\ pc' = "up"
    /\ last' = uuid
    /\ UNCHANGED <<uuid, failed, drawn, cut>>

\* Any of save's calls fails: the failure is logged, the UUID served anyway.
SaveFails ==
    /\ \/ At("loaded") /\ NeedsSave
       \/ At("writing") \/ At("written")
    /\ failed' = TRUE
    /\ pc' = "up"
    /\ UNCHANGED <<disk, uuid, drawn, cut, last>>

-----------------------------------------------------------------------------
(* Outside the program.                                                    *)

\* The process is killed or shut down; the kernel keeps the files.
Kill ==
    /\ ~ At("down")
    /\ pc' = "down"
    /\ UNCHANGED <<disk, uuid, failed, drawn, cut, last>>

\* The kernel writes the data or the directory entry back.
WriteBack ==
    /\ \E part \in dirty : dirty' = dirty \ {part}
    /\ UNCHANGED <<file, tmp, process, drawn, cut, last>>

\* What was not written back may be lost.
PowerCut ==
    /\ pc' = "down"
    /\ file' \in {file} \cup (IF "name" \in dirty THEN {Missing} ELSE {})
                        \cup (IF "data" \in dirty THEN {Torn} ELSE {})
    /\ tmp' \in {tmp, Torn, Missing}
    /\ dirty' = {}
    /\ cut' = (cut \/ file' = Torn)
    /\ last' = Missing
    /\ UNCHANGED <<uuid, failed, drawn>>

-----------------------------------------------------------------------------
PersistentInit ==
    /\ file = Missing /\ tmp = Missing /\ dirty = {}
    /\ pc = "down" /\ uuid = Missing /\ failed = FALSE
    /\ drawn = {} /\ cut = FALSE /\ last = Missing

PersistentNext ==
    \/ Load \/ Announce
    \/ SaveOpen \/ SaveWrite \/ SaveRename \/ SaveFails
    \/ Kill \/ WriteBack \/ PowerCut

PersistentSpec == PersistentInit /\ [][PersistentNext]_persistentVars

-----------------------------------------------------------------------------
(* Properties.                                                             *)

\* Type invariant; and what the process holds matches the temporary file.
PersistentTypeOK ==
    /\ file \in drawn \cup {Missing, Torn} /\ tmp \in drawn \cup {Missing, Torn}
    /\ dirty \subseteq {"data", "name"}
    /\ pc \in {"down", "loaded", "writing", "written", "up"}
    /\ drawn \subseteq Uuids /\ uuid \in drawn \cup {Missing}
    /\ failed \in BOOLEAN /\ cut \in BOOLEAN
    /\ last \in drawn \cup {Missing}
    /\ pc # "down" => uuid # Missing
    /\ pc \in {"writing", "written"} => file = Missing
    /\ pc = "written" => tmp = uuid

\* persistent_data.rs:135-136: a process killed in the middle of a save, or
\* a save that fails, never leaves half a file; only a power cut may.
NeverTorn == file = Torn => cut

\* A stored UUID is never changed by the program: not by a boot that could
\* not read it and drew another, and not by a save that was interrupted.
StoredUuidKept ==
    [][file' = file \/ file = Missing \/ PowerCut]_persistentVars

\* What a boot serves is what the next boot will find, when no call of the
\* boot failed and the file is not torn.
ServedIsStored == pc = "up" /\ ~ failed => file \in {uuid, Torn}

\* persistent_data.rs:170-171, "This ensures the UUID is stable across
\* restarts": two boots without a failed call, and with no power cut between
\* them, announce the same UUID.
UuidStable ==
    [][last # Missing /\ last' # Missing => last' = last]_persistentVars

\* It is so as long as the file is whole: however many boots were killed or
\* had a failed call in between, and whatever they served instead, the next
\* boot without a failure announces what the last one announced.
UuidStableUnlessTorn ==
    [][last # Missing /\ last' # Missing /\ file # Torn => last' = last]_persistentVars
=============================================================================
