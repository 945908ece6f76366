---------------------------- MODULE ViewedFiles ----------------------------
(***************************************************************************)
(* The files <space-view> fetches to show or to save, and those of them    *)
(* it keeps in IndexedDB in large space mode, composed with the page       *)
(* around it: one element serves one space after another, and what it has  *)
(* under way ends as the element is by then, on the page or off it.        *)
(*                                                                         *)
(* Requests to IndexedDB are served in the order they are made, so each    *)
(* has its effect when it is made; viewed-files and viewed-files-meta are  *)
(* written in one transaction, so they are one here.                       *)
(***************************************************************************)
EXTENDS WebShell, SequencesExt

CONSTANTS
  Files,
  Home,          \* Home[f]: the space of a file
  Size,          \* Size[f]
  TextFiles,     \* those whose preview is text
  PreviewLimit,  \* files above it are not previewed (one limit for all kinds)
  Budget,        \* getViewedFilesBudget
  FileActs,      \* what the user may do of "view", "download", "close", "toggle", "delete"
  FileFaults     \* "net", "store", "clear"

ASSUME ViewedFilesAssumption ==
  /\ Home \in [Files -> Spaces]
  /\ Size \in [Files -> Nat] /\ {PreviewLimit, Budget} \subseteq Nat
  /\ TextFiles \subseteq Files
  /\ None \notin Files /\ None \notin [space : Spaces, on : BOOLEAN]
  /\ FileActs \subseteq {"view", "download", "close", "toggle", "delete"}
  /\ FileFaults \subseteq {"net", "store", "clear"}

VARIABLES
  large,    \* journal-sync-settings: the spaces in large space mode
  viewed,   \* the keys of viewed-files, by accessedAt
  gone,     \* files deleted on the server
  on,       \* journalSyncEnabled
  preview,  \* filePreviewItem, _previewRequestId, filePreviewLoading, what is shown
  fetches,  \* getOrFetchFileBlob under way
  toggle    \* toggleJournalSync

kept_on_disk == <<large, viewed>>
element == <<on, preview, fetches, toggle>>
fileVars == <<kept_on_disk, gone, element>>
vars == <<shellVars, fileVars>>

NoPreview == [file |-> None, nr |-> 0, loading |-> FALSE, shows |-> None]
NoToggle == [pc |-> "idle", to |-> FALSE, left |-> None]

FileFault(f) == f \in FileFaults /\ faults < MaxFaults /\ faults' = faults + 1

\* The properties spaceId and journalSyncEnabled of a task's element.
Now(task) == IF task.left = None THEN [space |-> current, on |-> on] ELSE task.left

Loaded == view = "space" /\ token = current
Shown(f) == Loaded /\ Home[f] = current /\ f \notin gone

Key(s, f) == <<s, f>>
Total(keys) == FoldSeq(LAMBDA k, n : n + Size[k[2]], 0, keys)

\* The rows whose keys are not deleted, in their order: at[j] is the place of the j-th.
\* (A set of one sequence, as are those below.)
Without(keys, deleted) ==
  LET left == {i \in DOMAIN keys : keys[i] \notin deleted}
      n == Cardinality(left)
  IN {[j \in 1..n |-> keys[at[j]]] :
        at \in {at \in [1..n -> left] : \A i, j \in 1..n : i < j => at[i] < at[j]}}

\* pruneCachedFiles: the oldest go until the budget holds.
Prune(keys) ==
  LET Rest(n) == SubSeq(keys, n + 1, Len(keys))
  IN {Rest(n) : n \in {n \in 0..Len(keys) :
        Total(Rest(n)) <= Budget /\ \A j \in 0..(n - 1) : Total(Rest(j)) > Budget}}

\* Mutant: a second row for a file.
Added(keys, k) == {Append(keys, k)}

\* A file that is read or written is the last to go.
Accessed(keys, k) == {Append(left, k) : left \in Without(keys, {k})}

-----------------------------------------------------------------------------
(***************************************************************************)
(* getOrFetchFileBlob, for handleDownload and handleFilePreviewClick.      *)
(***************************************************************************)
Step(t, pc) == fetches' = (fetches \ {t}) \cup {[t EXCEPT !.pc = pc]}
End(t) == fetches' = fetches \ {t}

\* As far as getCachedFile, which is asked only in large space mode.
Fetch(f, use) ==
  LET hit == on /\ Contains(viewed, Key(current, f))
  IN /\ viewed' \in IF hit THEN Accessed(viewed, Key(current, f)) ELSE {viewed}
     /\ fetches' = fetches \cup
          {[nr |-> acts', file |-> f, use |-> use, from |-> current, left |-> None,
            pc |-> IF hit THEN "got" ELSE IF on THEN "missed" ELSE "sent"]}

HandleDownload(f) ==
  /\ Act /\ Shown(f)
  /\ Fetch(f, "download")
  /\ UNCHANGED <<faults, storage, shell, history, large, gone, on, preview, toggle>>

\* Bound ("text" in Overlaps lifts it): not while a text is being read.
HandleFilePreviewClick(f) ==
  /\ Act /\ Shown(f)
  /\ "text" \in Overlaps \/ \A t \in fetches : t.pc # "text"
  /\ preview' = [file |-> f, nr |-> acts', loading |-> Size[f] <= PreviewLimit, shows |-> None]
  /\ IF Size[f] <= PreviewLimit THEN Fetch(f, "view") ELSE UNCHANGED <<viewed, fetches>>
  /\ UNCHANGED <<faults, storage, shell, history, large, gone, on, toggle>>

CloseFilePreview ==
  /\ Act /\ preview.file # None
  /\ preview' = NoPreview
  /\ UNCHANGED <<faults, storage, shell, history, kept_on_disk, gone, on, fetches, toggle>>

\* Not found in the cache: it is asked of the space the element shows by now.
DownloadFile(t) ==
  /\ t.pc = "missed"
  /\ fetches' = (fetches \ {t}) \cup {[t EXCEPT !.pc = "sent", !.from = Now(t).space]}
  /\ UNCHANGED <<shellVars, kept_on_disk, gone, on, preview, toggle>>

\* The element has been given another space, whose setting it has yet to read.
Turning(t) == t.left = None /\ ~Loaded

\* The file has come, and is kept if the element is in large space mode by now, for the
\* space it shows by now.  Bound ("turn" in Overlaps lifts it): not while it is turning.
Downloaded(t) ==
  /\ t.pc = "sent" /\ Home[t.file] = t.from /\ t.file \notin gone
  /\ Turning(t) => "turn" \in Overlaps
  /\ \/ /\ Now(t).on
        /\ viewed' \in Accessed(viewed, Key(Now(t).space, t.file))
        /\ Step(t, "kept") /\ UNCHANGED faults
     \/ /\ \/ ~Now(t).on /\ UNCHANGED faults
           \/ Now(t).on /\ FileFault("store")
        /\ Step(t, "got") /\ UNCHANGED viewed
  /\ UNCHANGED <<acts, storage, shell, history, large, gone, on, preview, toggle>>

PruneCachedFiles(t) ==
  /\ t.pc = "kept"
  /\ viewed' \in Prune(viewed)
  /\ Step(t, "got")
  /\ UNCHANGED <<shellVars, large, gone, on, preview, toggle>>

\* Mutant: no check of the request's number.
AnyRequest(t) == preview.file # None

CurrentRequest(t) == preview.nr = t.nr

\* A text has still to be read out of the blob.
Delivered(t) ==
  /\ t.pc = "got"
  /\ IF t.use = "view" /\ CurrentRequest(t)
       THEN IF t.file \in TextFiles
              THEN Step(t, "text") /\ UNCHANGED preview
              ELSE /\ preview' = [preview EXCEPT !.shows = t.file, !.loading = FALSE]
                   /\ End(t)
       ELSE End(t) /\ UNCHANGED preview
  /\ UNCHANGED <<shellVars, kept_on_disk, gone, on, toggle>>

TextRead(t) ==
  /\ t.pc = "text"
  /\ preview' = [preview EXCEPT !.shows = t.file, !.loading = @ /\ preview.nr # t.nr]
  /\ End(t)
  /\ UNCHANGED <<shellVars, kept_on_disk, gone, on, toggle>>

\* A file that is not there closes its preview, another error is shown in it.
FetchFails(t) ==
  /\ t.pc = "sent"
  /\ LET missing == Home[t.file] # t.from \/ t.file \in gone
     IN /\ IF missing THEN UNCHANGED faults ELSE FileFault("net")
        /\ preview' = IF t.use # "view" \/ preview.nr # t.nr THEN preview
                      ELSE IF missing THEN NoPreview
                      ELSE [preview EXCEPT !.loading = FALSE]
  /\ End(t)
  /\ UNCHANGED <<acts, storage, shell, history, kept_on_disk, gone, on, toggle>>

-----------------------------------------------------------------------------
(***************************************************************************)
(* Large space mode, and deletions.                                        *)
(***************************************************************************)
\* toggleJournalSync as far as the setting.  Bound ("toggle" in Overlaps lifts it): no
\* file is under way for an element that has left the page.
ToggleJournalSync ==
  /\ Act /\ Loaded /\ toggle = NoToggle
  /\ "toggle" \in Overlaps \/ \A t \in fetches : t.left = None
  /\ large' = IF on THEN large \ {current} ELSE large \cup {current}
  /\ toggle' = [pc |-> "set", to |-> ~on, left |-> None]
  /\ UNCHANGED <<faults, storage, shell, history, viewed, gone, on, preview, fetches>>

\* The element's loadData reads the setting of its space again.
SettingRead == on' = IF toggle.left = None THEN current \in large ELSE on

\* Turned off: the cached list goes first (see SpaceView), then the files.
SettingWritten ==
  /\ toggle.pc = "set"
  /\ IF toggle.to
       THEN toggle' = NoToggle /\ SettingRead
       ELSE /\ toggle' = [toggle EXCEPT !.pc = "clear",
                            !.left = IF @ = None THEN @ ELSE [@ EXCEPT !.on = FALSE]]
            /\ on' = (on /\ toggle.left # None)
  /\ UNCHANGED <<shellVars, kept_on_disk, gone, preview, fetches>>

\* Mutant: the cached list goes, the files stay.
NoneOf(s) == {}

OfSpace(s) == {Key(s, f) : f \in Files}

\* When either fails, the catch block leaves the files, and the setting is not read.
ClearCachedFilesForSpace ==
  /\ toggle.pc = "clear" /\ toggle' = NoToggle
  /\ \/ /\ viewed' \in Without(viewed, OfSpace(Now(toggle).space))
        /\ SettingRead /\ UNCHANGED faults
     \/ FileFault("clear") /\ UNCHANGED <<viewed, on>>
  /\ UNCHANGED <<acts, storage, shell, history, large, gone, preview, fetches>>

\* confirmDelete, and ItemDeleted from the hub: removeCachedFile.
DeleteFile(f) ==
  /\ Act /\ Shown(f)
  /\ gone' = gone \cup {f}
  /\ viewed' \in Without(viewed, {Key(current, f)})
  /\ UNCHANGED <<faults, storage, shell, history, large, element>>

-----------------------------------------------------------------------------
(***************************************************************************)
(* The page around the element.                                            *)
(***************************************************************************)
\* What is under way goes on without the page.
Leaving(task) == IF task.left = None THEN [task EXCEPT !.left = Now(task)] ELSE task

\* Bounds: a space is not left while its mode changes ("toggle" in Overlaps lifts it),
\* nor is an element that is turning taken off the page while a file is on its way
\* ("turn" lifts it).
MayTurn ==
  /\ "toggle" \in Overlaps \/ toggle = NoToggle \/ (view' = view /\ current' = current)
  /\ \/ "turn" \in Overlaps \/ view' = view
     \/ \A t \in fetches : Turning(t) => t.pc \notin {"missed", "sent"}

\* Between spaces the element stays, its preview too; a new one starts afresh. Its
\* loadData reads the setting of its space.
Follow ==
  /\ LET leaves == view = "space" /\ view' # "space"
     IN /\ fetches' = IF leaves THEN {Leaving(t) : t \in fetches} ELSE fetches
        /\ toggle' = IF leaves /\ toggle # NoToggle THEN Leaving(toggle) ELSE toggle
        /\ preview' = IF leaves THEN NoPreview ELSE preview
        /\ on' = IF leaves THEN FALSE
                 ELSE IF token' # token /\ token' # None THEN token' \in large ELSE on
  /\ MayTurn
  /\ UNCHANGED <<kept_on_disk, gone>>

Closed ==
  /\ toggle # NoToggle => "toggle" \in Overlaps
  /\ on' = FALSE /\ preview' = NoPreview /\ fetches' = {} /\ toggle' = NoToggle
  /\ UNCHANGED <<kept_on_disk, gone>>

\* Files of a space are kept already.
Init ==
  /\ ShellInit
  /\ large \in SUBSET Spaces
  /\ viewed \in {<<>>} \cup {<<Key(Home[f], f)>> : f \in {g \in Files : Home[g] \in large}}
  /\ gone = {}
  /\ on = FALSE /\ preview = NoPreview /\ fetches = {} /\ toggle = NoToggle

FileWork ==
  \/ \E t \in fetches :
       \/ DownloadFile(t) \/ Downloaded(t) \/ PruneCachedFiles(t)
       \/ Delivered(t) \/ TextRead(t) \/ FetchFails(t)
  \/ SettingWritten \/ ClearCachedFilesForSpace

FileUser ==
  \/ \E f \in Files :
       \/ "download" \in FileActs /\ HandleDownload(f)
       \/ "view" \in FileActs /\ HandleFilePreviewClick(f)
       \/ "delete" \in FileActs /\ DeleteFile(f)
  \/ "close" \in FileActs /\ CloseFilePreview
  \/ "toggle" \in FileActs /\ ToggleJournalSync

Next ==
  \/ FileWork \/ FileUser
  \/ (ShellWork \/ ShellUser) /\ Follow
  \/ Opens /\ Closed

Spec == Init /\ [][Next]_vars

-----------------------------------------------------------------------------
Contexts == [space : Spaces, on : BOOLEAN] \cup {None}

TypeOK ==
  /\ ShellTypeOK
  /\ large \subseteq Spaces /\ gone \subseteq Files /\ on \in BOOLEAN
  /\ viewed \in Seq(Spaces \X Files) /\ IsInjective(viewed)
  /\ preview \in [file : Files \cup {None}, nr : 0..MaxActs, loading : BOOLEAN,
                  shows : Files \cup {None}]
  /\ fetches \subseteq [nr : 1..MaxActs, file : Files, use : {"view", "download"},
                        from : Spaces, left : Contexts,
                        pc : {"missed", "sent", "kept", "got", "text"}]
  /\ toggle \in [pc : {"idle", "set", "clear"}, to : BOOLEAN, left : Contexts]

\* The preview shows the file it was opened for, whichever other files have been
\* opened before and are still on their way, and shows it until it is closed (the
\* number _previewRequestId after the await of handleFilePreviewClick).
PreviewOfItem == preview.file # None => preview.shows \in {preview.file, None}

\* Files of a space stay on the device only in large space mode: none that was fetched
\* while it was turned off slips in after the others have been cleared
\* (toggleJournalSync, the second check in getOrFetchFileBlob).
NothingKeptOutside ==
  toggle = NoToggle => \A k \in ToSet(viewed) : k[1] \in large
=============================================================================
