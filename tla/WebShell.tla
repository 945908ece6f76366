------------------------------ MODULE WebShell ------------------------------
(***************************************************************************)
(* The page around the views of the web client, <app-shell>: which view    *)
(* and which space it shows, joining and leaving spaces, and the store of  *)
(* the tokens, which is IndexedDB with local storage to fall back on.      *)
(*                                                                         *)
(* A token is known by its space.  One tab has the page open: its writes   *)
(* come one after the other, and nothing else writes the tokens, so they   *)
(* are read in one step (IndexedDB serves requests in order).              *)
(***************************************************************************)
EXTENDS Naturals, Sequences

CONSTANTS
  Spaces,
  ShellActs,   \* what the user may do of "join", "leave", "select", "show", "open"
  ShellFaults, \* "write", "read", "lost"
  Overlaps,    \* what may come in between: "leave", "close", "toggle", "turn", "text" (see
               \* where they bound)
  MaxActs,     \* bound on what the user does
  MaxFaults,   \* bound on what fails
  None

ASSUME WebShellAssumption ==
  /\ ShellActs \subseteq {"join", "leave", "select", "show", "open"}
  /\ ShellFaults \subseteq {"write", "read", "lost"}
  /\ Overlaps \subseteq {"leave", "close", "toggle", "turn", "text"}
  /\ {MaxActs, MaxFaults} \subseteq Nat
  /\ None \notin Spaces /\ \A S \in SUBSET Spaces : S # None

VARIABLES
  acts, faults,  \* how much of the bounds is used
  stored,    \* auth-tokens in IndexedDB: the spaces with a token
  legacy,    \* sharedspaces:tokens in local storage
  last,      \* sharedspaces:lastSelectedSpace, or None
  cache,     \* tokenCache, or None
  writes,    \* what tokenWritePromise has still to write, and for whom
  boot,      \* initialSpaceLoad, with where the URL leads
  view, current, listed,  \* view, currentSpaceId, spaces
  token,     \* the token <space-view> has resolved, or None
  join,      \* handleJoin of <join-view>
  leave,     \* removeSpace of <space-view>
  kept,      \* history: the spaces whose joining has been stored, and not left since
  cleared    \* history: the tokens that local storage alone had when it was cleared for
             \* a write which is still pending

storage == <<stored, legacy, last>>
shell == <<cache, writes, boot, view, current, listed, token, join, leave>>
history == <<kept, cleared>>
shellVars == <<acts, faults, storage, shell, history>>

Act == acts < MaxActs /\ acts' = acts + 1
Fault(f) == f \in ShellFaults /\ faults < MaxFaults /\ faults' = faults + 1

\* A task: the space it was asked for, that of its element by now, and whether the
\* element is still on the page.
Task(s) == [pc |-> "begun", asked |-> s, space |-> s, here |-> TRUE]
Idle == [pc |-> "idle", asked |-> None, space |-> None, here |-> FALSE]
Ready == boot = None

-----------------------------------------------------------------------------
(***************************************************************************)
(* The tokens.                                                             *)
(***************************************************************************)
\* ensureTokenCache: the cache it comes to and what it leaves in local storage.  When
\* IndexedDB cannot be read, local storage stands in; when what is merged cannot be
\* written, it fails.
EnsureTokenCache(c, l) ==
  \/ cache # None /\ c = cache /\ l = legacy /\ UNCHANGED <<stored, faults>>
  \/ /\ cache = None
     /\ \/ c = stored \cup legacy /\ l = {} /\ stored' = c /\ UNCHANGED faults
        \/ Fault("read") /\ c = legacy /\ l = legacy /\ UNCHANGED stored
        \/ /\ ~(legacy \subseteq stored) /\ Fault("write")
           /\ c = None /\ l = legacy /\ UNCHANGED stored

\* The rest of setToken and removeToken, once there is a cache: local storage is cleared
\* at once, also of what it alone has, IndexedDB is written when it is its turn.
SetTokens(tokens, by, alone) ==
  /\ cache' = tokens
  /\ legacy' = {}
  /\ writes' = Append(writes, [tokens |-> tokens, by |-> by])
  /\ cleared' = cleared \cup alone

\* Mutant: a snapshot that cannot be written is given up.
GiveUpSnapshot(tokens) == legacy' = legacy

FallBack(tokens) == legacy' = tokens

Written(task, name) == IF writes[1].by = name THEN [task EXCEPT !.pc = "stored"] ELSE task

\* A join is for good once it is stored, unless its space has been left meanwhile.
JoinedForGood == IF writes[1].by = "join" THEN {join.space} \cap cache ELSE {}

\* queueTokenPersist: the next snapshot is written.
PersistTokens ==
  /\ writes # <<>>
  /\ LET tokens == writes[1].tokens
     IN \/ stored' = tokens /\ legacy' = {} /\ UNCHANGED faults
        \/ Fault("write") /\ FallBack(tokens) /\ UNCHANGED stored
  /\ writes' = Tail(writes)
  /\ join' = Written(join, "join") /\ leave' = Written(leave, "leave")
  /\ kept' = kept \cup JoinedForGood /\ cleared' = {}
  /\ UNCHANGED <<acts, last, cache, boot, view, current, listed, token>>

-----------------------------------------------------------------------------
(***************************************************************************)
(* Views.                                                                  *)
(***************************************************************************)
\* A task whose element leaves the page goes on without it.
Left(task, its, v) == [task EXCEPT !.here = @ /\ (view # its \/ v = its)]

Show(v) ==
  /\ view' = v
  /\ join' = Left(join, "join", v) /\ leave' = Left(leave, "space", v)

\* selectSpace.  Between two spaces <space-view> stays, with whatever it is doing.
SelectSpace(s) ==
  /\ view' = "space" /\ current' = s /\ last' = s
  /\ token' = IF view = "space" /\ s = current THEN token ELSE None
  /\ join' = Left(join, "join", "space")
  /\ leave' = IF leave.here THEN [leave EXCEPT !.space = s] ELSE leave

\* The page has loaded its spaces: it goes where a notification leads, or back to the
\* space it showed last; one that is gone is forgotten.
LoadSpacesFromStorage ==
  /\ ~Ready /\ boot' = None
  /\ \E c \in (SUBSET Spaces) \cup {None}, l \in SUBSET Spaces :
       /\ EnsureTokenCache(c, l)
       /\ cache' = c /\ legacy' = l
       /\ listed' = IF c = None THEN {} ELSE c
  /\ LET requested == boot \in listed'
         auto == IF requested THEN boot ELSE last
     IN IF boot # "join" /\ auto \in listed'
          THEN SelectSpace(auto)
          ELSE /\ last' = IF boot = "join" THEN last ELSE None
               /\ UNCHANGED <<view, current, token, join, leave>>
  /\ UNCHANGED <<acts, writes, history>>

\* The buttons of the spaces, and NAVIGATE_TO_SPACE of the service worker.  Bound
\* ("leave" in Overlaps lifts it): not while a space is being left.
Navigate(s) ==
  /\ Act /\ s \in listed
  /\ leave.here => "leave" \in Overlaps
  /\ SelectSpace(s)
  /\ UNCHANGED <<faults, stored, legacy, cache, writes, boot, listed, history>>

ShowView(v) ==
  /\ Act /\ view # v
  /\ Show(v)
  /\ UNCHANGED <<faults, storage, cache, writes, boot, current, listed, token, history>>

\* loadData of <space-view> as far as its token; without one it leads to <join-view>.
ResolveToken ==
  /\ view = "space" /\ token = None
  /\ IF current \in cache
       THEN token' = current /\ UNCHANGED <<view, join, leave>>
       ELSE Show("join") /\ UNCHANGED token
  /\ UNCHANGED <<acts, faults, storage, cache, writes, boot, current, listed, history>>

\* The page is opened anew, at its address, with an invitation, or for a space.  Bound
\* ("close" in Overlaps lifts it): not while only the page's memory has a token that has
\* been stored before.
OpenPage(to) ==
  /\ Act
  /\ kept \cap cleared # {} => "close" \in Overlaps
  /\ boot' = to
  /\ cache' = None /\ writes' = <<>>
  /\ view' = IF to = "join" THEN "join" ELSE "home"
  /\ current' = None /\ listed' = {} /\ token' = None
  /\ join' = Idle /\ leave' = Idle
  /\ cleared' = {}
  /\ UNCHANGED <<faults, storage, kept>>

-----------------------------------------------------------------------------
(***************************************************************************)
(* Joining and leaving.                                                    *)
(***************************************************************************)
\* handleSubmit.  Bound: one at a time, also when its element has left the page.
HandleJoin(s) ==
  /\ Act /\ view = "join" /\ join = Idle
  /\ join' = Task(s)
  /\ UNCHANGED <<faults, storage, cache, writes, boot, view, current, listed, token, leave, history>>

\* The token is exchanged and set, after the page has loaded its spaces, which waits
\* for the same tokenInitPromise; or it is not, and the invitation is used up.
Exchanged ==
  /\ join.pc = "begun" /\ Ready
  /\ \/ \E c \in (SUBSET Spaces) \cup {None}, l \in SUBSET Spaces :
          /\ EnsureTokenCache(c, l)
          /\ IF c = None
               THEN cache' = c /\ legacy' = l /\ join' = Idle /\ UNCHANGED <<writes, cleared>>
               ELSE /\ SetTokens(c \cup {join.space}, "join", l \ stored')
                    /\ join' = [join EXCEPT !.pc = "storing"]
     \/ Fault("lost") /\ join' = Idle
        /\ UNCHANGED <<stored, legacy, cache, writes, cleared>>
  /\ UNCHANGED <<acts, last, boot, view, current, listed, token, leave, kept>>

\* The event view-change, which no one hears from an element that has left the page.
Joined ==
  /\ join.pc = "stored"
  /\ join' = Idle
  /\ IF join.here
       THEN /\ view' = "space" /\ current' = join.space /\ token' = None
            /\ listed' = cache /\ last' = join.space
       ELSE UNCHANGED <<view, current, token, listed, last>>
  /\ UNCHANGED <<acts, faults, stored, legacy, cache, writes, boot, leave, history>>

\* removeSpace: until the hub has stopped.  Bound: one at a time.
RemoveSpace ==
  /\ Act /\ view = "space" /\ token = current /\ leave = Idle
  /\ leave' = Task(current)
  /\ UNCHANGED <<faults, storage, cache, writes, boot, view, current, listed, token, join, history>>

\* The token of the space the element has by now.
Stopped ==
  /\ leave.pc = "begun"
  /\ leave' = [leave EXCEPT !.pc = "storing"]
  /\ SetTokens(cache \ {leave.space}, "leave", legacy \ stored)
  /\ kept' = kept \ {leave.asked}
  /\ UNCHANGED <<acts, faults, stored, last, boot, view, current, listed, token, join>>

Removed ==
  /\ leave.pc = "stored"
  /\ leave' = Idle
  /\ IF leave.here THEN view' = "join" /\ listed' = cache ELSE UNCHANGED <<view, listed>>
  /\ UNCHANGED <<acts, faults, storage, cache, writes, boot, current, token, join, history>>

-----------------------------------------------------------------------------
\* The tokens of an earlier version may still be in local storage, as may those a
\* failed write has left there.
ShellInit ==
  /\ acts = 0 /\ faults = 0
  /\ stored \in SUBSET Spaces /\ legacy \in SUBSET Spaces
  /\ last \in Spaces \cup {None}
  /\ boot \in {"home", "join"} \cup Spaces
  /\ cache = None /\ writes = <<>>
  /\ view = IF boot = "join" THEN "join" ELSE "home"
  /\ current = None /\ listed = {} /\ token = None
  /\ join = Idle /\ leave = Idle
  /\ kept = stored \cup legacy /\ cleared = {}

ShellWork ==
  \/ LoadSpacesFromStorage \/ ResolveToken \/ PersistTokens
  \/ Exchanged \/ Joined \/ Stopped \/ Removed

ShellUser ==
  \/ "select" \in ShellActs /\ \E s \in Spaces : Navigate(s)
  \/ "show" \in ShellActs /\ \E v \in {"join", "admin"} : ShowView(v)
  \/ "join" \in ShellActs /\ \E s \in Spaces : HandleJoin(s)
  \/ "leave" \in ShellActs /\ RemoveSpace

Opens == "open" \in ShellActs /\ \E to \in {"home", "join"} \cup Spaces : OpenPage(to)

ShellSpec == ShellInit /\ [][ShellWork \/ ShellUser \/ Opens]_shellVars

-----------------------------------------------------------------------------
Tasks == [pc : {"idle", "begun", "storing", "stored"}, asked : Spaces \cup {None},
          space : Spaces \cup {None}, here : BOOLEAN]

ShellTypeOK ==
  /\ acts \in 0..MaxActs /\ faults \in 0..MaxFaults
  /\ {stored, legacy, listed, kept, cleared} \subseteq SUBSET Spaces
  /\ {last, current, token} \subseteq Spaces \cup {None}
  /\ cache \in (SUBSET Spaces) \cup {None}
  /\ writes \in Seq([tokens : SUBSET Spaces, by : {"join", "leave"}])
  /\ boot \in {"home", "join", None} \cup Spaces
  /\ view \in {"home", "join", "admin", "space"}
  /\ view = "space" => cache # None /\ current # None
  /\ {join, leave} \subseteq Tasks

\* A space whose joining has been stored, and that the user has not left, is found again
\* when the page is opened, whichever writes to IndexedDB have failed and whatever was
\* under way when it was closed: one of the two stores has its token (queueTokenPersist,
\* ensureTokenCache).  Only a token that local storage alone had may be in neither, while
\* the write it was cleared for is pending; the page has it then.
TokensKept ==
  /\ kept \subseteq stored \cup legacy \cup cleared
  /\ cache # None => kept \subseteq cache
=============================================================================
