--------------------------- MODULE ProfileArchives ---------------------------
(***************************************************************************)
(* Profile archives: exportProfile writes the settings of add-ons, which go *)
(* on changing, into an archive beside the one it is to replace;           *)
(* inspectProfile and inspectCatalogProfile examine an archive twice (its  *)
(* directory of entries, then every file as it is extracted) and leave the *)
(* files in cache/profile-imports/<job id>, from which the client restores *)
(* settings.  All of them hold mutation_mutex: one job works at a time.    *)
(*                                                                         *)
(* An archive is a sequence of entries; the names of its entries are the    *)
(* folded ones, so two that differ in case are one name twice.  A content  *)
(* has a size and a size when packed; Clean are those that scan_setting     *)
(* accepts, Manifests those that profile.json may hold.                    *)
(***************************************************************************)
EXTENDS Naturals, Sequences

CONSTANTS
  Addons, Files,               (* settings: Files of every add-on          *)
  Reserved,                    (* the ids that name a device, such as con  *)
  Contents, Clean, Manifests,  (* what a file holds, and what is accepted  *)
  Size, Packed,                (* of a content                             *)
  MaxEntry, MaxTotal, MaxEntries, MaxArchive, MaxRatio,  (* limits         *)
  Received,                    (* archives from elsewhere                  *)
  None,                        (* no file, no archive, no job              *)
  MaxJob,                      (* bound: jobs of a session                 *)
  MaxSessions,                 (* bound: sessions that end                 *)
  MaxWrites,                   (* bound: files written by add-ons          *)
  MaxFaults                    (* bound: file-system calls that fail       *)

Manifest == <<"profile.json">>
Setting(a, f) == <<"settings", a, f>>
Settings(a) == {Setting(a, f) : f \in Files}
AllSettings == UNION {Settings(a) : a \in Addons}
Names == {Manifest} \cup AllSettings
ReservedSettings == UNION {Settings(a) : a \in Reserved}
Other == <<"other">>    \* a name, or an entry of a kind, that is refused
Entry(n, c) == [name |-> n, content |-> c]
Entries == [name : Names \cup {Other}, content : Contents]
Accepted(e) == IF e.name = Manifest THEN e.content \in Manifests ELSE e.content \in Clean

\* A manifest has at most 2 MB, which is below the limits of files and of archives.
ASSUME ConstantsAssumption ==
  /\ Reserved \subseteq Addons
  /\ Clean \subseteq Contents /\ Manifests \subseteq Contents
  /\ None \notin Contents /\ None \notin Nat
  /\ Size \in [Contents -> Nat] /\ Packed \in [Contents -> Nat \ {0}]
  /\ MaxEntry \in Nat /\ MaxTotal \in Nat /\ MaxEntries \in Nat \ {0}
  /\ MaxArchive \in Nat /\ MaxRatio \in Nat
  /\ \A c \in Manifests : Size[c] <= MaxEntry /\ Size[c] <= MaxTotal
  /\ Received \subseteq Seq(Entries) /\ None \notin Seq(Entries)
  /\ MaxJob \in Nat /\ MaxSessions \in Nat /\ MaxWrites \in Nat /\ MaxFaults \in Nat

VARIABLES
  config,     \* the settings on the disk
  output,     \* the exported archive
  part,       \* the archive being written
  staging,    \* profile-imports/<id>
  downloads,  \* the ids with a directory in profile-downloads
  pc,         \* the next step of the job that works
  id,         \* the id of that job, or of the last one
  kind,       \* what it does
  todo,       \* export: the add-ons and files still to be archived
  current,    \* export: the file being archived, and what was scanned of it
  expanded,   \* export: the size of what has been scanned
  archive,    \* inspection: the archive
  entry,      \* inspection: its next entry
  answer,     \* what the job answers, or that an error was found
  cancelled,
  reported,   \* the staging directory the client works with
  sessions, writes, faults,
  raced,      \* history: the entries not archived as they were scanned
  omitted,    \* history: the files that could not be listed
  stable,     \* history: the files there since the export began
  uncleared,  \* history: the ids whose old directory could not be removed
  short       \* history: the ids whose archive an error left before its end

exporting == <<todo, current, expanded, raced, omitted, stable>>
inspecting == <<archive, entry, uncleared, short>>
counters == <<sessions, writes>>
jobVars == <<id, kind, cancelled>>
vars == <<config, output, part, staging, downloads, pc, jobVars, exporting, inspecting,
          answer, reported, counters, faults>>

Empty == [n \in Names |-> None]
Present == {n \in AllSettings : config[n] # None}

\* The sum of what weight says of the contents of an archive.
Sum(weight, s) ==
  LET sum[i \in 0..Len(s)] == IF i = 0 THEN 0 ELSE sum[i - 1] + weight[s[i].content]
  IN  sum[Len(s)]
Total(s) == Sum(Size, s)
PackedSize(s) == Sum(Packed, s)

Init ==
  /\ config \in [AllSettings -> Contents \cup {None}]
  /\ output = None /\ part = None /\ staging = [j \in 1..MaxJob |-> Empty] /\ downloads = {}
  /\ pc = "idle" /\ id = 0 /\ kind = None /\ cancelled = FALSE
  /\ todo = {} /\ current = None /\ expanded = 0
  /\ archive = None /\ entry = 1 /\ answer = "none" /\ reported = None
  /\ sessions = 0 /\ writes = 0 /\ faults = 0
  /\ raced = {} /\ omitted = {} /\ stable = {} /\ uncleared = {} /\ short = {}

Works == UNCHANGED faults
Fails == faults < MaxFaults /\ faults' = faults + 1
Goto(from, to) == pc = from /\ pc' = to

Start(k) ==
  /\ pc = "idle" /\ id < MaxJob
  /\ id' = id + 1 /\ kind' = k /\ cancelled' = FALSE

\* remove_all of a staging directory; some of it stays if it fails.
RemoveAll(j) ==
  \/ Works /\ staging' = [staging EXCEPT ![j] = Empty]
  \/ /\ Fails
     /\ \E kept \in SUBSET {n \in Names : staging[j][n] # None} :
          staging' = [staging EXCEPT ![j] = [n \in Names |-> IF n \in kept THEN @[n] ELSE None]]
-----------------------------------------------------------------------------
(* exportProfile.                                                           *)

ExportStep == UNCHANGED <<config, staging, downloads, jobVars, inspecting, reported, counters>>

NoExport ==
  todo' = {} /\ current' = None /\ expanded' = 0 /\ raced' = {} /\ omitted' = {} /\ stable' = {}

\* The manifest is read, and the archive opened with it as its first entry; what an
\* earlier export left there is overwritten.
StartExport(ids, manifest) ==
  /\ Start("export")
  /\ \/ /\ manifest \in Manifests /\ Works /\ pc' = "files" /\ answer' = "none"
        /\ part' = <<Entry(Manifest, manifest)>>
        /\ todo' = UNION {Settings(a) : a \in ids} \cap Present /\ stable' = todo'
        /\ expanded' = Size[manifest] /\ raced' = {} /\ omitted' = {} /\ current' = None
     \/ /\ pc' = "idle" /\ answer' = "failed" /\ NoExport
        /\ IF manifest \in Manifests THEN Fails /\ part' = None ELSE Works /\ UNCHANGED part
  /\ UNCHANGED <<config, output, staging, downloads, inspecting, reported, counters>>

\* Mutant: the manifest does not count.
FitsWithoutManifest(c) ==
  expanded + Size[c] - Size[part[1].content] <= MaxTotal /\ Len(part) <= MaxEntries

\* The limits of an export, the manifest being the first file.
Fits(c) == expanded + Size[c] <= MaxTotal /\ Len(part) + 1 <= MaxEntries

\* Mutant: a file that is refused is left out.
SkipRefused(n) ==
  /\ pc = "files" /\ n \in todo /\ todo' = todo \ {n} /\ Works
  /\ ExportStep /\ UNCHANGED <<output, part, raced, omitted, stable, answer>>
  /\ IF ~cancelled /\ config[n] \in Clean /\ Size[config[n]] <= MaxEntry /\ Fits(config[n])
     THEN /\ pc' = "add" /\ current' = Entry(n, config[n])
          /\ expanded' = expanded + Size[config[n]]
     ELSE UNCHANGED <<pc, current, expanded>>

\* A file that has gone, that cannot be read, that the scan rejects or that passes a
\* limit ends the export.
ScanFile(n) ==
  /\ pc = "files" /\ n \in todo /\ todo' = todo \ {n}
  /\ ExportStep /\ UNCHANGED <<output, part, raced, omitted, stable>>
  /\ LET good == /\ ~cancelled /\ config[n] \in Clean
                 /\ Size[config[n]] <= MaxEntry /\ Fits(config[n])
     IN \/ /\ good /\ Works /\ pc' = "add" /\ current' = Entry(n, config[n])
           /\ expanded' = expanded + Size[config[n]] /\ UNCHANGED answer
        \/ /\ pc' = "abort" /\ answer' = "failed" /\ UNCHANGED <<current, expanded>>
           /\ IF good THEN Fails ELSE Works

\* mz_zip_writer_add_file reads the file again: it may have been written since.
AddFile ==
  /\ pc = "add" /\ ExportStep /\ UNCHANGED <<output, todo, current, expanded, omitted, stable>>
  /\ LET now == config[current.name] IN
       \/ /\ now # None /\ Works /\ pc' = "files" /\ UNCHANGED answer
          /\ part' = Append(part, Entry(current.name, now))
          /\ raced' = IF now = current.content THEN raced ELSE raced \cup {current.name}
       \/ /\ pc' = "abort" /\ answer' = "failed" /\ UNCHANGED <<part, raced>>
          /\ IF now = None THEN Works ELSE Fails

\* An error of the directory iterator ends the loop over an add-on's files, and
\* the export goes on without those that are left.
StopListing(a) ==
  /\ pc = "files" /\ Settings(a) \cap todo # {} /\ Fails
  /\ todo' = todo \ Settings(a) /\ omitted' = omitted \cup (todo \cap Settings(a))
  /\ ExportStep /\ UNCHANGED <<output, part, pc, current, expanded, raced, stable, answer>>

\* The archive is closed and takes the place of the one before; whether it could be
\* closed is not looked at, and what is not closed may be read in part.  The last file
\* was the last chance to cancel.
Commit ==
  /\ pc = "files" /\ todo = {} /\ ExportStep
  /\ \/ /\ pc' = "idle" /\ part' = None /\ answer' = "ok" /\ NoExport
        /\ \/ Works /\ output' = part
           \/ Fails /\ \E k \in 0..Len(part) : output' = SubSeq(part, 1, k)
     \/ Fails /\ pc' = "abort" /\ answer' = "failed" /\ UNCHANGED <<output, part, exporting>>

Abort ==
  /\ Goto("abort", "idle") /\ ExportStep /\ NoExport /\ UNCHANGED <<output, answer>>
  /\ (Works /\ part' = None) \/ (Fails /\ UNCHANGED part)
-----------------------------------------------------------------------------
(* inspectProfile and inspectCatalogProfile.                                *)

\* What the first pass accepts, from the directory of the archive.  It looks at whole
\* names, an export at those below the directory of the add-on.
NamesAccepted(s) ==
  /\ \A i \in DOMAIN s : s[i].name \in Names \ ReservedSettings
  /\ \A i, j \in DOMAIN s : s[i].name = s[j].name => i = j
  /\ \E i \in DOMAIN s : s[i].name = Manifest
Dense(s) == \E i \in DOMAIN s : Size[s[i].content] \div Packed[s[i].content] > MaxRatio
WithinLimits(s) ==
  /\ \A i \in DOMAIN s : Size[s[i].content] <= MaxEntry
  /\ Total(s) <= MaxTotal /\ Len(s) <= MaxEntries
TooLarge(s) == PackedSize(s) > MaxArchive
Acceptable(s) == NamesAccepted(s) /\ WithinLimits(s) /\ ~Dense(s)

InspectStep == UNCHANGED <<config, output, part, exporting, counters>>

\* A catalog profile is downloaded first, and its size and digest compared; a
\* download that fails or differs is removed.
Downloaded(k, s) ==
  IF k = "inspect" THEN {downloads}
  ELSE {downloads \ {id + 1}} \cup (IF TooLarge(s) THEN {} ELSE {downloads \cup {id + 1}})

\* An error in going from one entry to the next ends the first pass as the last entry
\* does: what comes after it has not been looked at.
StartInspect(k, s) ==
  /\ Start(k) /\ reported = None /\ InspectStep
  /\ entry' = 1 /\ UNCHANGED <<uncleared, short, staging, reported>>
  /\ downloads' \in Downloaded(k, s)
  /\ IF TooLarge(s) \/ (k = "catalog" /\ id + 1 \notin downloads')
     THEN pc' = "idle" /\ answer' = "failed" /\ archive' = None /\ Works
     ELSE /\ archive' = s
          /\ \E last \in 0..Len(s) :
               /\ IF last = Len(s) THEN Works ELSE Fails
               /\ IF Acceptable(SubSeq(s, 1, last)) THEN pc' = "clear" /\ answer' = "none"
                  ELSE pc' = "reject" /\ answer' = "failed"

\* Mutant: the directory is taken as it is.
KeepOld ==
  /\ Goto("clear", "extract") /\ InspectStep /\ Works
  /\ UNCHANGED <<staging, downloads, jobVars, archive, entry, answer, reported, uncleared, short>>

\* The directory of the id may hold what an earlier session left; whether it could be
\* removed is not looked at.
Clear ==
  /\ Goto("clear", "extract") /\ InspectStep /\ RemoveAll(id)
  /\ uncleared' = IF staging'[id] = Empty THEN uncleared \ {id} ELSE uncleared \cup {id}
  /\ short' = short \ {id}
  /\ UNCHANGED <<downloads, jobVars, archive, entry, answer, reported>>

More == entry <= Len(archive) /\ ~cancelled

\* An entry that the first pass has not looked at may have any name: what is not one of
\* Names is not where settings are restored from.
Extract ==
  /\ pc = "extract" /\ More /\ InspectStep
  /\ UNCHANGED <<downloads, jobVars, archive, entry, uncleared, short, reported>>
  /\ \/ /\ Works /\ pc' = "scan" /\ UNCHANGED answer
        /\ IF archive[entry].name = Other THEN UNCHANGED staging
           ELSE staging' = [staging EXCEPT ![id][archive[entry].name] = archive[entry].content]
     \/ Fails /\ pc' = "reject" /\ answer' = "failed" /\ UNCHANGED staging

\* An entry whose description cannot be read is passed over, and an error in going from
\* one entry to the next ends the second pass: neither is seen as an error.
SkipEntries ==
  /\ pc = "extract" /\ More /\ Fails /\ InspectStep
  /\ entry' \in {entry + 1, Len(archive) + 1} /\ short' = short \cup {id}
  /\ UNCHANGED <<staging, pc, downloads, jobVars, archive, uncleared, answer, reported>>

\* A settings file that is rejected, or cannot be read, ends the job; a manifest ends it
\* after the rest.
Scan ==
  /\ pc = "scan" /\ InspectStep /\ entry' = entry + 1
  /\ \/ Accepted(archive[entry]) /\ Works /\ pc' = "extract" /\ UNCHANGED answer
     \/ /\ IF Accepted(archive[entry]) THEN Fails ELSE Works
        /\ pc' = IF archive[entry].name = Manifest THEN "extract" ELSE "reject"
        /\ answer' = "failed"
  /\ UNCHANGED <<staging, downloads, jobVars, archive, uncleared, short, reported>>

\* All files are there, or a cancel or an error has been seen.
Inspected ==
  /\ pc = "extract" /\ ~More /\ Works /\ InspectStep
  /\ IF cancelled \/ answer = "failed"
     THEN pc' = "reject" /\ answer' = "failed" /\ UNCHANGED <<reported, downloads>>
     ELSE pc' = "idle" /\ answer' = "ok" /\ reported' = id /\ downloads' = downloads \ {id}
  /\ UNCHANGED <<staging, jobVars, inspecting>>

\* What was extracted is removed.
Reject ==
  /\ Goto("reject", "idle") /\ InspectStep /\ RemoveAll(id)
  /\ downloads' = downloads \ {id}
  /\ archive' = None /\ entry' = 1
  /\ UNCHANGED <<jobVars, uncleared, short, answer, reported>>
-----------------------------------------------------------------------------
(* The client, the add-ons and the game.                                    *)

\* vh_job_cancel.
Cancel ==
  /\ pc # "idle" /\ ~cancelled /\ cancelled' = TRUE
  /\ UNCHANGED <<config, output, part, staging, downloads, pc, id, kind, exporting, inspecting,
                 answer, reported, counters, faults>>

ClientStep ==
  /\ pc = "idle" /\ reported # None
  /\ UNCHANGED <<output, part, downloads, pc, jobVars, exporting, entry, uncleared, short, answer,
                 counters>>

\* restoreProfileSettings: the add-on's directory becomes the one in the staging
\* directory, if there is one; Transactions has the steps.
Restore(a) ==
  /\ ClientStep /\ Works /\ \E n \in Settings(a) : staging[reported][n] # None
  /\ config' = [n \in AllSettings |-> IF n \in Settings(a) THEN staging[reported][n] ELSE config[n]]
  /\ UNCHANGED <<staging, reported, archive>>

\* discardProfileImport; or the review is left without it, as for a bad manifest.
Discard ==
  /\ ClientStep /\ reported' = None /\ archive' = None /\ UNCHANGED config
  /\ RemoveAll(reported) \/ UNCHANGED <<staging, faults>>

\* Add-ons write whenever they like; here, while an export reads.
AddonWrites ==
  /\ pc \in {"files", "add"} /\ writes < MaxWrites /\ writes' = writes + 1
  /\ \E n \in AllSettings, c \in Contents \cup {None} :
       config' = [config EXCEPT ![n] = c] /\ stable' = IF c = None THEN stable \ {n} ELSE stable
  /\ UNCHANGED <<output, part, staging, downloads, pc, jobVars, todo, current, expanded, raced,
                 omitted, inspecting, answer, reported, sessions, faults>>

\* The session ends and another begins, with ids from 1 again.
Restart ==
  /\ sessions < MaxSessions /\ sessions' = sessions + 1
  /\ pc' = "idle" /\ id' = 0 /\ kind' = None /\ cancelled' = FALSE /\ NoExport
  /\ reported' = None /\ answer' = "none" /\ archive' = None /\ entry' = 1
  /\ UNCHANGED <<config, output, part, staging, downloads, uncleared, short, writes, faults>>

Export ==
  \/ \E ids \in SUBSET Addons, m \in Contents : StartExport(ids, m)
  \/ \E n \in AllSettings : ScanFile(n)
  \/ AddFile \/ (\E a \in Addons : StopListing(a)) \/ Commit \/ Abort

Inspection ==
  \/ \E k \in {"inspect", "catalog"}, s \in Received \cup ({output} \ {None}) : StartInspect(k, s)
  \/ Clear \/ Extract \/ SkipEntries \/ Scan \/ Inspected \/ Reject

Next ==
  \/ Export \/ Inspection \/ Cancel \/ (\E a \in Addons : Restore(a)) \/ Discard
  \/ AddonWrites \/ Restart

Spec == Init /\ [][Next]_vars
-----------------------------------------------------------------------------
(* Properties                                                               *)

\* Every variable stays in its type; the one type invariant of this module.
TypeOK ==
  /\ config \in [AllSettings -> Contents \cup {None}]
  /\ {output, part, archive} \subseteq Seq(Entries) \cup {None}
  /\ staging \in [1..MaxJob -> [Names -> Contents \cup {None}]]
  /\ downloads \subseteq 1..MaxJob /\ uncleared \cup short \subseteq 1..MaxJob
  /\ pc \in {"idle", "files", "add", "abort", "clear", "extract", "scan", "reject"}
  /\ id \in 0..MaxJob /\ (pc # "idle" => id # 0) /\ reported \in 1..MaxJob \cup {None}
  /\ kind \in {"export", "inspect", "catalog", None} /\ cancelled \in BOOLEAN
  /\ todo \subseteq AllSettings /\ current \in [name : AllSettings, content : Contents] \cup {None}
  /\ expanded \in Nat /\ entry \in Nat \ {0} /\ answer \in {"none", "ok", "failed"}
  /\ raced \cup omitted \cup stable \subseteq AllSettings
  /\ sessions \in Nat /\ writes \in Nat /\ faults \in Nat

\* Whatever an export commits can be imported again: its limits, its scan and its
\* names are those of the inspection.  The exceptions: an archive that packs to more
\* than 64 MB, a file that packs to less than a 200th and an add-on whose id names a
\* device, which only the inspection refuses; a file that was written between its scan
\* and its archiving; and an archive that could not be closed.
ExportsAreImportable ==
  [][output' # output =>
       \/ Acceptable(output') /\ \A i \in DOMAIN output' : Accepted(output'[i])
       \/ TooLarge(output') \/ Dense(output') \/ raced # {} \/ output' # part
       \/ \E i \in DOMAIN output' : output'[i].name \in ReservedSettings]_vars

\* An export that is committed has every file of the chosen add-ons that was there all
\* the time, but for those an error of the directory iterator hid from it, and unless
\* the archive could not be closed.
ExportsAreComplete ==
  [][output' # output =>
       \/ stable \subseteq omitted \cup {output'[i].name : i \in DOMAIN output'}
       \/ output' # part]_vars

\* What the client restores settings from is of the archive that was inspected, each
\* file scanned: nothing is left of an earlier session that used the same id, or of an
\* inspection that was cut short, unless the old directory could not be removed.  And
\* every file of the archive is there, unless an error in going through its entries was
\* taken for its end: the job answers that all is well then.
StagingIsTheArchive ==
  reported # None =>
    \/ reported \in uncleared
    \/ \A n \in Names :
         LET c == staging[reported][n]
         IN IF c = None
            THEN reported \in short \/ \A i \in DOMAIN archive : archive[i].name # n
            ELSE Accepted(Entry(n, c)) /\ \E i \in DOMAIN archive : archive[i] = Entry(n, c)
=============================================================================
