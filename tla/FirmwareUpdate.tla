---------------------------- MODULE FirmwareUpdate ----------------------------
(***************************************************************************)
(* Preparing the firmware that the thermostat will ask for (update.go and  *)
(* its use in serve.go).  Each report of the thermostat's model makes the  *)
(* one goroutine of OnChange1 fetch the manifest, save it, and, unless it  *)
(* is there already, download the firmware it names, patch it and save it. *)
(* Meanwhile the thermostat reads the manifest, and then the file that the *)
(* manifest names, from the same directory; the manufacturer publishes new *)
(* manifests; and the process dies at any point and is started again.      *)
(*                                                                         *)
(* A file is whole, or the first part of one.  What patching does to a     *)
(* firmware is module Firmware's subject.  Operators whose name starts     *)
(* with Slip are the ones after them with a plausible mistake.             *)
(***************************************************************************)
EXTENDS Naturals, FiniteSets

CONSTANTS
    Models,         \* of thermostats
    FirmwareNames,  \* the last parts of the URLs
    Manifests,      \* what the manufacturer may publish
    Entry,          \* per manifest and model the name, or NoEntry
    Unparsable,     \* the manifests that are no XML
    Unpatchable,    \* the firmwares that mutateFirmware refuses
    NoEntry,        \* not in the manifest
    ManifestName    \* manifest.xml

ASSUME UpdateAssumption ==
    /\ Entry \in [Manifests -> [Models -> FirmwareNames \cup {NoEntry}]]
    /\ Unparsable \subseteq Manifests /\ Unpatchable \subseteq FirmwareNames
    /\ NoEntry \notin FirmwareNames /\ ManifestName \notin FirmwareNames

VARIABLES
    upstream,     \* the manifest that the manufacturer publishes now
    firmwareDir,  \* per name the contents of the file
    temp,         \* the contents of the temporary file
    prepare,      \* the progress of FetchAndPrepareUpdate
    outcome,      \* of its last call since the start, and for which model
    fetched         \* the thermostat: what it has read

updateVars == <<upstream, firmwareDir, temp, prepare, outcome, fetched>>

Names == FirmwareNames \cup {ManifestName}

\* Contents of files.
Missing == [kind |-> "missing"]
Partial == [kind |-> "partial"]
ManifestFile(m) == [kind |-> "manifest", of |-> m]
RawFile(f) == [kind |-> "raw", of |-> f]
Adapted(f) == [kind |-> "patched", of |-> f]

Contents == {Missing, Partial} \cup {ManifestFile(m) : m \in Manifests}
              \cup {RawFile(f) : f \in FirmwareNames}
              \cup {Adapted(f) : f \in FirmwareNames}

Idle == [at |-> "idle"]
Calls == {"fetch", "save", "fill", "rename", "find", "download"}

\* Where FetchAndPrepareUpdate is: model, the manifest in body, the path and
\* the data of the file to save.
Call(at, model, body, path, data) ==
    [at |-> at, model |-> model, body |-> body, path |-> path, data |-> data]

NoOutcome == [prepared |-> FALSE]
Prepared(model) == [prepared |-> TRUE, model |-> model]

FetchedNothing == [manifest |-> Missing, got |-> Missing]

UpdateInit ==
    /\ upstream \in Manifests
    /\ firmwareDir = [n \in Names |-> Missing]
    /\ temp = Missing /\ prepare = Idle /\ outcome = NoOutcome
    /\ fetched = [m \in Models |-> FetchedNothing]

Return(result) == prepare' = Idle /\ outcome' = result

-----------------------------------------------------------------------------
(* FetchAndPrepareUpdate *)

\* OnChange1("profile/model"): the goroutine is free and has a model.
ReportModel(m) ==
    /\ prepare = Idle
    /\ prepare' = Call("fetch", m, Missing, ManifestName, Missing)
    /\ outcome' = NoOutcome
    /\ UNCHANGED <<upstream, firmwareDir, temp, fetched>>

FetchManifest ==
    /\ prepare.at = "fetch"
    /\ prepare' = [prepare EXCEPT !.at = "save",
                                  !.body = ManifestFile(upstream),
                                  !.data = ManifestFile(upstream)]
    /\ UNCHANGED <<upstream, firmwareDir, temp, outcome, fetched>>

\* PreparedServable: any model's firmware will do.
SlipNamed == {Entry[prepare.body.of][m] : m \in Models} \ {NoEntry}

\* The names that the manifest has for the model.
Named == {Entry[prepare.body.of][prepare.model]} \ {NoEntry}

\* The manifest in hand is searched for the model; what was prepared before
\* is kept.
FindUpdate ==
    /\ prepare.at = "find" /\ prepare.body.of \notin Unparsable
    /\ \E f \in Named :
          IF firmwareDir[f] # Missing
          THEN Return(Prepared(prepare.model))
          ELSE /\ prepare' = [prepare EXCEPT !.at = "download", !.path = f]
               /\ UNCHANGED outcome
    /\ UNCHANGED <<upstream, firmwareDir, temp, fetched>>

\* PatchedOnly: the download is saved as it came.
SlipMutateFirmware(f) == RawFile(f)

\* mutateFirmware, of what has been downloaded.
MutateFirmware(f) == Adapted(f)

Download ==
    /\ prepare.at = "download" /\ prepare.path \notin Unpatchable
    /\ prepare' = [prepare EXCEPT !.at = "save",
                                  !.data = MutateFirmware(prepare.path)]
    /\ UNCHANGED <<upstream, firmwareDir, temp, outcome, fetched>>

\* Every early return with an error: the network, the parser, a model that
\* the manifest has not, a firmware that cannot be patched, CreateTemp.
GiveUp ==
    /\ \/ prepare.at \in {"fetch", "download", "save"}
       \/ prepare.at = "find" /\ (prepare.body.of \in Unparsable \/ Named = {})
    /\ Return(NoOutcome)
    /\ UNCHANGED <<upstream, firmwareDir, temp, fetched>>

-----------------------------------------------------------------------------
(* atomicWriteFile *)

CreateTemp ==
    /\ prepare.at = "save"
    /\ temp' = Partial
    /\ prepare' = [prepare EXCEPT !.at = "fill"]
    /\ UNCHANGED <<upstream, firmwareDir, outcome, fetched>>

\* WholeFiles: the error of Write is not looked at.
SlipWritten == {prepare.data, Partial}

Written == {prepare.data}

FillTemp ==
    /\ prepare.at = "fill"
    /\ temp' \in Written
    /\ prepare' = [prepare EXCEPT !.at = "rename"]
    /\ UNCHANGED <<upstream, firmwareDir, outcome, fetched>>

\* The manifest has been saved and is searched, or the firmware is ready.
RenameTemp ==
    /\ prepare.at = "rename"
    /\ firmwareDir' = [firmwareDir EXCEPT ![prepare.path] = temp]
    /\ temp' = Missing
    /\ IF prepare.path = ManifestName
       THEN prepare' = [prepare EXCEPT !.at = "find"] /\ UNCHANGED outcome
       ELSE Return(Prepared(prepare.model))
    /\ UNCHANGED <<upstream, fetched>>

RemoveTemp == temp' = Missing

\* Write, Close, Chmod or Rename fails.
AbandonTemp ==
    /\ prepare.at \in {"fill", "rename"}
    /\ RemoveTemp
    /\ Return(NoOutcome)
    /\ UNCHANGED <<upstream, firmwareDir, fetched>>

-----------------------------------------------------------------------------
(* The manufacturer, the thermostat and the process *)

Publish ==
    /\ upstream' \in Manifests \ {upstream}
    /\ UNCHANGED <<firmwareDir, temp, prepare, outcome, fetched>>

\* GET /manifest
GetManifest(m) ==
    /\ firmwareDir[ManifestName] # Missing
    /\ fetched' = [fetched EXCEPT ![m] =
                    [manifest |-> firmwareDir[ManifestName], got |-> Missing]]
    /\ UNCHANGED <<upstream, firmwareDir, temp, prepare, outcome>>

\* GET /updates/..., for what the manifest has for the thermostat's model.
GetFirmware(m) ==
    /\ fetched[m].manifest.kind = "manifest"
    /\ LET f == Entry[fetched[m].manifest.of][m]
       IN  /\ f # NoEntry
           /\ fetched' = [fetched EXCEPT ![m].got = firmwareDir[f]]
    /\ UNCHANGED <<upstream, firmwareDir, temp, prepare, outcome>>

\* The directory is what is left; a temporary file in it has a name that is
\* never used again.
RestartUpdate ==
    /\ prepare # Idle
    /\ prepare' = Idle /\ outcome' = NoOutcome
    /\ temp' = Missing
    /\ UNCHANGED <<upstream, firmwareDir, fetched>>

UpdateNext ==
    \/ \E m \in Models : ReportModel(m) \/ GetManifest(m) \/ GetFirmware(m)
    \/ FetchManifest \/ FindUpdate \/ Download \/ GiveUp
    \/ CreateTemp \/ FillTemp \/ RenameTemp \/ AbandonTemp
    \/ Publish \/ RestartUpdate

UpdateSpec == UpdateInit /\ [][UpdateNext]_updateVars

-----------------------------------------------------------------------------
(* Properties *)

\* The type of every variable.
UpdateTypeOK ==
    /\ upstream \in Manifests
    /\ firmwareDir \in [Names -> Contents] /\ temp \in Contents
    /\ \/ prepare = Idle
       \/ prepare \in [at : Calls, model : Models, body : Contents,
                       path : Names, data : Contents]
    /\ outcome \in {NoOutcome} \cup {Prepared(m) : m \in Models}
    /\ fetched \in [Models -> [manifest : Contents, got : Contents]]

\* Nobody ever reads a part of a file, although the files are replaced while
\* they are served and the process may die in the middle (atomicWriteFile).
WholeFiles ==
    /\ \A n \in Names : firmwareDir[n] # Partial
    /\ \A m \in Models : fetched[m].manifest # Partial /\ fetched[m].got # Partial

\* A thermostat gets the patched form of the very firmware that the manifest
\* it has read names for it, or nothing, also when the manifest has been
\* replaced in between (FetchAndPrepareUpdate, the handler of /updates/).
PatchedOnly ==
    \A m \in Models : fetched[m].got.kind \notin {"missing", "partial"} =>
        fetched[m].got = Adapted(Entry[fetched[m].manifest.of][m])

\* When FetchAndPrepareUpdate has returned without an error, the manifest
\* that is served has a firmware for the model, and it can be downloaded;
\* the manifest alone is published before that (update.go:99).
PreparedServable ==
    prepare = Idle /\ outcome.prepared =>
        LET manifest == firmwareDir[ManifestName]
        IN  /\ manifest.kind = "manifest"
            /\ Entry[manifest.of][outcome.model] \in FirmwareNames
            /\ firmwareDir[Entry[manifest.of][outcome.model]] # Missing

\* Without a crash every temporary file is gone when the call returns,
\* whichever step has failed (atomicWriteFile's error paths).
TempRemoved == prepare = Idle => temp = Missing
=============================================================================
