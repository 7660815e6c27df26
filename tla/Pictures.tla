------------------------------- MODULE Pictures -----------------------------
(***************************************************************************)
(* The pictures of the mouse (src/src/assets.rs).  `omalogi picture'       *)
(* serves them from a cache of the asset host's index and of the files it  *)
(* lists, each checked against the index and written to a temporary file   *)
(* that is renamed.  The overlay runs one such command at a time           *)
(* (src/plugin/Omalogi.qml), a terminal runs others, and nothing keeps     *)
(* them apart: temporaries have fixed names.  The host publishes new       *)
(* revisions meanwhile, downloads fail and processes are killed.           *)
(*                                                                         *)
(* One model of mouse stays connected, and the host lists it.  A file's    *)
(* content is the number of its version.                                   *)
(***************************************************************************)
EXTENDS Integers, Sequences

CONSTANTS
    Views,          \* VIEWS: the pictures shown of a mouse, a sequence
    Listed,         \* Listed[r][n]: the version of file n in revision r of the host,
                    \* None when that revision has no such file
    MaxFaults,      \* bound: failed accesses and downloads, kills
    MaxCommands     \* bound: commands in a terminal

None   == 0         \* no such file
Broken == -1        \* an empty, partial or mixed file
View   == {Views[i] : i \in DOMAIN Views}
Colour == {"black", "white"}
Index  == <<"index.json">>
Metadata == <<"metadata.json">>
Render(v, c) == <<v, c>>
File == {Metadata} \cup {Render(v, c) : v \in View, c \in Colour}
Revision == DOMAIN Listed
Version == {Listed[r][n] : r \in Revision, n \in File} \cup {None}

ASSUME ViewsAssumption == Views \in Seq(STRING) /\ Views # <<>>
ASSUME ListedAssumption == Revision \subseteq Nat \ {0} /\ Version \subseteq Nat
ASSUME ServedAssumption == \A r \in Revision, n \in {Metadata} \cup {Render(v, "black") : v \in View} :
                               Listed[r][n] # None
ASSUME LimitsAssumption == {MaxFaults, MaxCommands} \subseteq Nat

Caller == {"overlay", "terminal"}

VARIABLES
    host,           \* the revision of its index, and that of its files
    path,           \* the cached files
    tmp,            \* their temporaries
    run,            \* what each process is doing
    mouseColor,     \* appearance.ini
    picture,        \* what the overlay shows
    clashed,        \* history: two runs used one temporary at once
    faults, commands

pictureVars == <<host, path, tmp, run, mouseColor, picture, clashed, faults, commands>>

Idle == [pc |-> "idle", white |-> FALSE, refresh |-> FALSE, offline |-> FALSE, index |-> None,
         todo |-> <<>>, data |-> None, file |-> "closed", owed |-> "nothing"]
Run == [pc : {"idle", "index", "check", "fetch", "create", "write", "rename", "metadata",
              "done", "failed"},
        white : BOOLEAN, offline : BOOLEAN,
        refresh : BOOLEAN,                  \* --refresh, until the index is read
        index : Revision \cup {None},       \* the index it goes by
        todo : Seq(File),                   \* files it still has to return, the current one first
        data : Version \cup Revision,       \* what it downloaded
        file : {"closed", "tmp", "path", "gone"},   \* where the file it writes is by now
        owed : {"nothing", "whole", "cached", "download"}]  \* history: what is due
NoPicture == [index |-> None, white |-> FALSE]

PicturesTypeOK ==
    /\ host \in [index : Revision, files : Revision]
    /\ path \in [File \cup {Index} -> Version \cup Revision \cup {Broken}]
    /\ tmp \in [File \cup {Index} -> Version \cup Revision \cup {None, Broken}]
    /\ run \in [Caller -> Run]
    /\ mouseColor \in Colour
    /\ picture \in [index : Revision \cup {None}, white : BOOLEAN]
    /\ clashed \in BOOLEAN
    /\ faults \in 0..MaxFaults /\ commands \in 0..MaxCommands

PicturesInit ==
    /\ \E r \in Revision : host = [index |-> r, files |-> r]
    /\ path = [n \in File \cup {Index} |-> None]
    /\ tmp = [n \in File \cup {Index} |-> None]
    /\ run = [p \in Caller |-> Idle]
    /\ mouseColor \in Colour
    /\ picture = NoPicture
    /\ clashed = FALSE /\ faults = 0 /\ commands = 0

Fault == faults < MaxFaults /\ faults' = faults + 1
NoFault == UNCHANGED faults

-----------------------------------------------------------------------------
(* What a run serves. *)
HasWhite(r) == \A v \in View : Listed[r][Render(v, "white")] # None

Renders(r, white) ==
    [i \in DOMAIN Views |-> Render(Views[i], IF white /\ HasWhite(r) THEN "white" ELSE "black")]

(* The cache holds all of it: a run would find it without the host. *)
Available(white) ==
    LET r == path[Index]
        needed == {Metadata} \cup {Renders(r, white)[i] : i \in DOMAIN Views}
    IN  r \in Revision /\ \A n \in needed : path[n] = Listed[r][n]

Settled == host.index = host.files

Running(p) == run[p].pc # "idle"
Name(p) == IF run[p].index = None THEN Index ELSE Head(run[p].todo)
Writing(p, n) == run[p].pc \in {"write", "rename"} /\ Name(p) = n
Shared(p) == \E q \in Caller \ {p} : Writing(q, Name(p))

(* Only p's run goes on. *)
Go(p, r) == run' = [run EXCEPT ![p] = r]
Fail(p) == Go(p, [Idle EXCEPT !.pc = "failed", !.white = run[p].white, !.owed = run[p].owed])
cache == <<path, tmp, clashed>>
others == <<mouseColor, picture, commands>>

(* What a command owes when it starts: the cached picture, one from a host *)
(* that holds still, or at least none that is not whole; nothing once      *)
(* another run writes what this one relies on. *)
Owed(white, refresh, offline) ==
    IF Available(white) /\ ~refresh THEN "cached"
    ELSE IF ~offline /\ Settled /\ (refresh \/ path[Index] \in {None, host.index}) THEN "download"
    ELSE "whole"

Started(white, refresh, offline) ==
    [Idle EXCEPT !.pc = "index", !.white = white, !.refresh = refresh, !.offline = offline,
                 !.owed = Owed(white, refresh, offline)]

-----------------------------------------------------------------------------
(* assets::load. *)

(* Faulty variant: --refresh is content with a cached index. *)
ReadIndex_Content(p) ==
    /\ run[p].pc = "index"
    /\ LET r == run[p]
           found == path[Index]
       IN  IF found = None THEN IF r.offline THEN Fail(p) ELSE Go(p, [r EXCEPT !.pc = "fetch"])
           ELSE IF found = Broken THEN Fail(p)
           ELSE Go(p, [r EXCEPT !.pc = "check", !.index = found, !.todo = <<Metadata>>])
    /\ NoFault /\ UNCHANGED <<host, cache, others>>

(* Faulty variant: the cached index is not looked at. *)
ReadIndex_Unparsed(p) ==
    /\ run[p].pc = "index"
    /\ LET r == run[p]
           found == path[Index]
       IN  IF (found = None \/ r.refresh) /\ ~r.offline
           THEN Go(p, [r EXCEPT !.pc = "fetch", !.refresh = FALSE])
           ELSE IF found = None THEN Fail(p)
           ELSE Go(p, [r EXCEPT !.pc = "check", !.index = found, !.todo = <<Metadata>>,
                                !.refresh = FALSE])
    /\ NoFault /\ UNCHANGED <<host, cache, others>>

(* A cached index is used as it is, unless it is to be refreshed. *)
ReadIndex(p) ==
    /\ run[p].pc = "index"
    /\ LET r == run[p]
           found == path[Index]
           download == found = None \/ r.refresh
       IN  IF download /\ ~r.offline THEN Go(p, [r EXCEPT !.pc = "fetch", !.refresh = FALSE])
           ELSE IF found \in {None, Broken} THEN Fail(p)
           ELSE Go(p, [r EXCEPT !.pc = "check", !.index = found, !.todo = <<Metadata>>,
                                !.refresh = FALSE])
    /\ NoFault /\ UNCHANGED <<host, cache, others>>

(* The next file, once this one is in place. *)
Advance(r) ==
    [r EXCEPT !.todo = Tail(r.todo), !.data = None, !.file = "closed",
              !.pc = IF Head(r.todo) = Metadata THEN "metadata"
                     ELSE IF Tail(r.todo) = <<>> THEN "done" ELSE "check"]

(* Faulty variant: a whole cached file is as good as the one listed. *)
CheckFile_AnyVersion(p) ==
    /\ run[p].pc = "check"
    /\ LET r == run[p]
       IN  IF path[Head(r.todo)] \notin {None, Broken} THEN Go(p, Advance(r))
           ELSE IF r.offline THEN Fail(p)
           ELSE Go(p, [r EXCEPT !.pc = "fetch"])
    /\ NoFault /\ UNCHANGED <<host, cache, others>>

(* Faulty variant: a file is downloaded whenever that is allowed. *)
CheckFile_NoCache(p) ==
    /\ run[p].pc = "check"
    /\ LET r == run[p]
       IN  IF ~r.offline THEN Go(p, [r EXCEPT !.pc = "fetch"])
           ELSE IF path[Head(r.todo)] = Listed[r.index][Head(r.todo)] THEN Go(p, Advance(r))
           ELSE Fail(p)
    /\ NoFault /\ UNCHANGED <<host, cache, others>>

(* file(): a cached file is returned only when it is the one listed. *)
CheckFile(p) ==
    /\ run[p].pc = "check"
    /\ LET r == run[p]
           n == Head(r.todo)
       IN  IF path[n] # None /\ path[n] = Listed[r.index][n] THEN Go(p, Advance(r))
           ELSE IF Listed[r.index][n] = None \/ r.offline THEN Fail(p)
           ELSE Go(p, [r EXCEPT !.pc = "fetch"])
    /\ NoFault /\ UNCHANGED <<host, cache, others>>

(* A download is an index that parses or a file that matches, or the run   *)
(* ends.  A bad one counts as a fault. *)
Fetch(p) ==
    /\ run[p].pc = "fetch"
    /\ LET r == run[p]
           n == Name(p)
           got == IF n = Index THEN host.index ELSE Listed[host.files][n]
       IN  IF n = Index \/ got = Listed[r.index][n]
           THEN Go(p, [r EXCEPT !.pc = "create", !.data = got])
           ELSE Fail(p)
    /\ NoFault /\ UNCHANGED <<host, cache, others>>

(* Faulty variant: the cached file itself is opened for writing. *)
CreateTmp_InPlace(p) ==
    /\ run[p].pc = "create"
    /\ path' = [path EXCEPT ![Name(p)] = Broken]
    /\ tmp' = [tmp EXCEPT ![Name(p)] = Broken]
    /\ Go(p, [run[p] EXCEPT !.pc = "write", !.file = "path"])
    /\ NoFault /\ UNCHANGED <<host, clashed, others>>

(* write_atomically: the temporary is truncated or made, written, and      *)
(* renamed to its place with whatever it holds. *)
CreateTmp(p) ==
    /\ run[p].pc = "create"
    /\ tmp' = [tmp EXCEPT ![Name(p)] = Broken]
    /\ clashed' = (clashed \/ Shared(p))
    /\ run' = [q \in Caller |->
                 LET r == IF Shared(p) THEN [run[q] EXCEPT !.owed = "nothing"] ELSE run[q]
                 IN  IF q = p THEN [r EXCEPT !.pc = "write", !.file = "tmp"] ELSE r]
    /\ NoFault /\ UNCHANGED <<host, path, others>>

(* Two writers of different bytes can leave a mixture. *)
Written(p, before) ==
    IF Shared(p) /\ before # run[p].data THEN {run[p].data, Broken} ELSE {run[p].data}

Write(p) ==
    /\ run[p].pc = "write"
    /\ LET n == Name(p)
       IN  CASE run[p].file = "tmp"  -> /\ \E c \in Written(p, tmp[n]) : tmp' = [tmp EXCEPT ![n] = c]
                                        /\ UNCHANGED path
             [] run[p].file = "path" -> /\ \E c \in {run[p].data, Broken} : path' = [path EXCEPT ![n] = c]
                                        /\ UNCHANGED tmp
             [] run[p].file = "gone" -> UNCHANGED <<path, tmp>>
    /\ run' = [q \in Caller |->
                 IF q = p THEN [run[p] EXCEPT !.pc = "rename", !.file = "closed"]
                 ELSE IF run[p].file = "path" THEN [run[q] EXCEPT !.owed = "nothing"]
                 ELSE run[q]]
    /\ NoFault /\ UNCHANGED <<host, clashed, others>>

(* Another run that has the temporary open goes on writing the same file   *)
(* in its new place. *)
Moved(f) == CASE f = "tmp" -> "path" [] f = "path" -> "gone" [] OTHER -> f

Rename(p) ==
    LET r == run[p]
        n == Name(p)
        next == IF r.index = None THEN [r EXCEPT !.pc = "check", !.index = r.data, !.data = None,
                                                 !.todo = <<Metadata>>]
                                  ELSE Advance(r)
    IN  /\ r.pc = "rename"
        /\ IF tmp[n] = None THEN Fail(p) /\ UNCHANGED <<path, tmp>>
           ELSE /\ path' = [path EXCEPT ![n] = tmp[n]]
                /\ tmp' = [tmp EXCEPT ![n] = None]
                /\ run' = [q \in Caller |->
                             IF q = p THEN next
                             ELSE [run[q] EXCEPT !.owed = "nothing",
                                                 !.file = IF Writing(q, n) THEN Moved(run[q].file)
                                                                           ELSE run[q].file]]
        /\ NoFault /\ UNCHANGED <<host, clashed, others>>

(* The metadata is read again from its file, and names the views. *)
ReadMetadata(p) ==
    /\ run[p].pc = "metadata"
    /\ LET r == run[p]
       IN  IF path[Metadata] = Broken THEN Fail(p)
           ELSE Go(p, [r EXCEPT !.pc = "check", !.todo = Renders(r.index, r.white)])
    /\ NoFault /\ UNCHANGED <<host, cache, others>>

(* A file access or a download fails, or the process is killed: what it    *)
(* wrote so far stays. *)
Die(p) ==
    /\ run[p].pc \notin {"idle", "done", "failed"}
    /\ Fault
    /\ Go(p, [Idle EXCEPT !.pc = "failed", !.white = run[p].white])
    /\ UNCHANGED <<host, cache, others>>

RunStep(p) ==
    \/ ReadIndex(p) \/ CheckFile(p) \/ Fetch(p) \/ CreateTmp(p) \/ Write(p) \/ Rename(p)
    \/ ReadMetadata(p)

-----------------------------------------------------------------------------
(* The overlay. *)

(* loadPicture, when no command is running. *)
LoadPicture(colour) == Go("overlay", Started(colour = "white", FALSE, FALSE))

OverlayOpens ==
    /\ picture = NoPicture /\ ~Running("overlay")
    /\ LoadPicture(mouseColor)
    /\ NoFault /\ UNCHANGED <<host, cache, others>>

(* The switch is there when the picture has both renders.  A command that  *)
(* is running is left to finish. *)
SetPictureColor ==
    /\ picture # NoPicture /\ HasWhite(picture.index)
    /\ \E c \in Colour \ {mouseColor} :
          /\ mouseColor' = c
          /\ IF Running("overlay") THEN UNCHANGED run ELSE LoadPicture(c)
    /\ NoFault /\ UNCHANGED <<host, cache, picture, commands>>

(* Faulty variant: the picture that was asked for is shown. *)
PictureFinished_Asked ==
    LET r == run["overlay"]
    IN  /\ r.pc \in {"done", "failed"}
        /\ IF r.pc = "failed" /\ r.white
           THEN mouseColor' = "black" /\ LoadPicture("black") /\ UNCHANGED picture
           ELSE /\ picture' = IF r.pc = "done"
                              THEN [index |-> r.index, white |-> r.white /\ HasWhite(r.index)]
                              ELSE NoPicture
                /\ Go("overlay", Idle) /\ UNCHANGED mouseColor
        /\ NoFault /\ UNCHANGED <<host, cache, commands>>

(* Faulty variant: the white picture is tried again. *)
PictureFinished_Retry ==
    LET r == run["overlay"]
    IN  /\ r.pc \in {"done", "failed"}
        /\ IF (r.pc = "failed" /\ r.white) \/ r.white # (mouseColor = "white")
           THEN LoadPicture(mouseColor) /\ UNCHANGED <<mouseColor, picture>>
           ELSE /\ picture' = IF r.pc = "done"
                              THEN [index |-> r.index, white |-> r.white /\ HasWhite(r.index)]
                              ELSE NoPicture
                /\ Go("overlay", Idle) /\ UNCHANGED mouseColor
        /\ NoFault /\ UNCHANGED <<host, cache, commands>>

(* pictureCommand's onFinished: a colour changed meanwhile is loaded next, *)
(* and without the white picture the black one is. *)
PictureFinished ==
    LET r == run["overlay"]
    IN  /\ r.pc \in {"done", "failed"}
        /\ IF r.white # (mouseColor = "white")
           THEN LoadPicture(mouseColor) /\ UNCHANGED <<mouseColor, picture>>
           ELSE IF r.pc = "failed" /\ r.white
           THEN mouseColor' = "black" /\ LoadPicture("black") /\ UNCHANGED picture
           ELSE /\ picture' = IF r.pc = "done"
                              THEN [index |-> r.index, white |-> r.white /\ HasWhite(r.index)]
                              ELSE NoPicture
                /\ Go("overlay", Idle) /\ UNCHANGED mouseColor
        /\ NoFault /\ UNCHANGED <<host, cache, commands>>

-----------------------------------------------------------------------------
(* A terminal; --offline and --refresh exclude each other. *)
TerminalCommand ==
    /\ ~Running("terminal")
    /\ commands < MaxCommands /\ commands' = commands + 1
    /\ \E white, refresh, offline \in BOOLEAN :
          ~(refresh /\ offline) /\ Go("terminal", Started(white, refresh, offline))
    /\ NoFault /\ UNCHANGED <<host, cache, mouseColor, picture>>

CommandFinished ==
    /\ run["terminal"].pc \in {"done", "failed"}
    /\ Go("terminal", Idle)
    /\ NoFault /\ UNCHANGED <<host, cache, others>>

(* The files of a new revision appear before or after its index. *)
Publish ==
    /\ \/ host.files + 1 \in Revision /\ host' = [host EXCEPT !.files = @ + 1]
       \/ host.index + 1 \in Revision /\ host' = [host EXCEPT !.index = @ + 1]
    /\ run' = [p \in Caller |-> IF run[p].owed = "download" THEN [run[p] EXCEPT !.owed = "whole"]
                                                           ELSE run[p]]
    /\ NoFault /\ UNCHANGED <<cache, others>>

PicturesNext ==
    \/ \E p \in Caller : RunStep(p) \/ Die(p)
    \/ OverlayOpens \/ SetPictureColor \/ PictureFinished
    \/ TerminalCommand \/ CommandFinished \/ Publish

(* Downloads time out and the shell reads the output of commands; nobody   *)
(* has to open, click, run commands or publish. *)
PicturesFairness ==
    /\ \A p \in Caller : WF_pictureVars(RunStep(p))
    /\ WF_pictureVars(PictureFinished)

PicturesSpec == PicturesInit /\ [][PicturesNext]_pictureVars /\ PicturesFairness
-----------------------------------------------------------------------------
(* assets.rs: "a bad download never replaces a good index": whatever fails *)
(* or is killed, the cached index is whole, so the next command can go by  *)
(* it, unless two runs wrote it at once. *)
IndexReadable == path[Index] = Broken => clashed

(* A picture that a run returns is made of the files its index lists,      *)
(* metadata and renders of one revision, whatever versions the cache had   *)
(* from earlier and cut-short runs; unless another run wrote meanwhile. *)
ServedAsListed ==
    \A p \in Caller :
        LET r == run[p]
        IN  r.pc = "done" /\ r.owed # "nothing" =>
              /\ path[Metadata] = Listed[r.index][Metadata]
              /\ \A i \in DOMAIN Views :
                    LET n == Renders(r.index, r.white)[i] IN path[n] = Listed[r.index][n]

(* README.md: "After that only selecting another render color or running   *)
(* `omalogi picture --refresh' downloads more files."  A picture that was  *)
(* completed is found again without a download. *)
WorksOffline ==
    \A p \in Caller :
        run[p].owed = "cached" => run[p].pc \notin {"fetch", "create", "write", "rename", "failed"}

(* --refresh brings back a picture whatever earlier runs left in the cache *)
(* and in the temporaries, and a first run finds one, when the host holds  *)
(* still and nothing fails. *)
RefreshRepairs ==
    \A p \in Caller : run[p].owed = "download" => run[p].pc # "failed"

(* Between commands the overlay shows the colour its switch shows, if the  *)
(* mouse has it, also when the user changed it while one was running. *)
ColorShown ==
    picture # NoPicture /\ ~Running("overlay") =>
        picture.white = (mouseColor = "white" /\ HasWhite(picture.index))

(* A picture that cannot be had is not asked for over and over: the        *)
(* overlay stops when the user stops clicking. *)
StopsAsking == <>[][~SetPictureColor]_pictureVars => []<>(~Running("overlay"))

(* No failure, kill or run of another process leaves a cache whose index   *)
(* cannot be parsed or from which a wrong file is served (assets.rs, load). *)
CacheSound == PicturesTypeOK /\ IndexReadable /\ ServedAsListed

(* A complete cache is served without the network, and a refresh gets over *)
(* an incomplete one (assets.rs, Options).                                 *)
CacheServes == WorksOffline /\ RefreshRepairs
=============================================================================
