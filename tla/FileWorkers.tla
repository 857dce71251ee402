---------------------------- MODULE FileWorkers -----------------------------
(* The two worker threads of the native editor that touch ROM files: the     *)
(* persistence worker writes one immutable save snapshot, the ROM loader     *)
(* reads, validates and, for a ROM without a copier header, rewrites one     *)
(* file.  Each runs one job at a time; nothing orders one against the other. *)
(*                                                                           *)
(* An image is the whole content of a ROM file.  Publication is atomic       *)
(* (staged file and rename in lm-app/src/file_persistence.rs): a write has   *)
(* happened or has not.                                                      *)
EXTENDS Naturals

CONSTANTS Path, Image,
          Plain,             \* the images without a copier header
          WithHeader(_),     \* a plain image with the header of Lunar Magic
          Absent             \* no file at this path

ASSUME FileAssumption ==
  /\ Plain \subseteq Image
  /\ Absent \notin Image
  /\ \A img \in Plain : WithHeader(img) \in Image \ Plain

VARIABLES disk,    \* the file at each path
          saver,   \* PersistenceWorker::running
          loader   \* RomLoader::running and its header prompt

workerVars == <<disk, saver, loader>>

Idle == [phase |-> "idle"]

SaveJob == [phase : {"writing", "written", "failed"}, id : Nat,
            path : Path, bytes : Image,
            adopts : BOOLEAN,     \* ReplaceAs or Create, not Replace
            creates : BOOLEAN]    \* Create

LoadPhases == {"reading", "checking", "replacing",         \* the thread at work
               "prepared", "headerless", "failed",         \* its answer
               "prompting"}                                \* waiting for the user

LoadJob == [phase : LoadPhases, id : Nat, path : Path, silent : BOOLEAN,
            original : Image \cup {Absent}, prepared : Image \cup {Absent}]

FilesTypeOK == /\ disk \in [Path -> Image \cup {Absent}]
               /\ saver \in SaveJob \cup {Idle}
               /\ loader \in LoadJob \cup {Idle}

-----------------------------------------------------------------------------
(* The job a started worker begins with. *)
NewSave(id, path, bytes, adopts) ==
  [phase |-> "writing", id |-> id, path |-> path, bytes |-> bytes,
   adopts |-> adopts, creates |-> adopts /\ disk[path] = Absent]

NewLoad(id, path, silent) ==
  [phase |-> "reading", id |-> id, path |-> path, silent |-> silent,
   original |-> Absent, prepared |-> Absent]

\* replace_existing needs a file at the path, write_new needs none.
CanPublish(job) == (disk[job.path] = Absent) <=> job.creates

SaverWrites ==
  /\ saver.phase = "writing"
  /\ CanPublish(saver)
  /\ disk' = [disk EXCEPT ![saver.path] = saver.bytes]
  /\ saver' = [saver EXCEPT !.phase = "written"]
  /\ UNCHANGED loader

\* A full disk, a missing permission, a destination that appeared or vanished.
SaverFails ==
  /\ saver.phase = "writing"
  /\ saver' = [saver EXCEPT !.phase = "failed"]
  /\ UNCHANGED <<disk, loader>>

-----------------------------------------------------------------------------
(* prepare_rom_open, one file access at a time. *)
LoaderReads ==
  LET image == disk[loader.path]
  IN /\ loader.phase = "reading"
     /\ image # Absent
     /\ loader' = [loader EXCEPT
          !.original = image,
          !.prepared = IF image \in Plain THEN Absent ELSE image,
          !.phase = IF image \notin Plain THEN "prepared"
                    ELSE IF loader.silent THEN "checking" ELSE "headerless"]
     /\ UNCHANGED <<disk, saver>>

\* The file is read again and compared with the image the header is made for.
LoaderRechecks ==
  /\ loader.phase = "checking"
  /\ disk[loader.path] = loader.original
  /\ loader' = [loader EXCEPT !.phase = "replacing"]
  /\ UNCHANGED <<disk, saver>>

LoaderAddsHeader ==
  /\ loader.phase = "replacing"
  /\ disk[loader.path] # Absent
  /\ disk' = [disk EXCEPT ![loader.path] = WithHeader(loader.original)]
  /\ loader' = [loader EXCEPT !.phase = "prepared",
                              !.prepared = WithHeader(loader.original)]
  /\ UNCHANGED saver

(* Any access may fail, an unsupported ROM is refused, and a file that       *)
(* changed since it was read is never given a header.                        *)
LoaderFails ==
  /\ loader.phase \in {"reading", "checking", "replacing"}
  /\ loader' = [loader EXCEPT !.phase = "failed"]
  /\ UNCHANGED <<disk, saver>>

WorkerStep ==
  \/ SaverWrites
  \/ SaverFails
  \/ LoaderReads
  \/ LoaderRechecks
  \/ LoaderAddsHeader
  \/ LoaderFails

SaverStep == SaverWrites \/ SaverFails
LoaderStep == LoaderReads \/ LoaderRechecks \/ LoaderAddsHeader \/ LoaderFails
=============================================================================
