--------------------------- MODULE GameRepository ---------------------------
(***************************************************************************)
(* The list of games of the Android application (GameRepository).  The     *)
(* list is changed on the main thread, through blocks that other threads   *)
(* post to its handler.  queueRefresh starts a thread that clears the list *)
(* and scans two directories of games, unless one runs already, which then *)
(* has to scan once more.  Others add games by themselves: an installation *)
(* when the game is in its directory, but also before it has extracted it; *)
(* the import of a folder or image that stays outside of these             *)
(* directories; and the search for missing titles and icons.               *)
(*                                                                         *)
(* A scan reports one game at a time, in any order.  Saving and loading    *)
(* the list, progress entries and the order of the games are left out.     *)
(***************************************************************************)
EXTENDS Integers, Sequences, FiniteSets

CONSTANTS
  Games,        \* games
  External,     \* those in folders and images outside of the directories
  Callers,      \* threads that call queueRefresh
  OnMain,       \* the one of them that is the main thread
  MaxRequests   \* bound: calls of queueRefresh

VARIABLES
  needsRefresh, refreshRunning,   \* under refreshLock
  isRefreshing,   \* what the screen shows
  posts,          \* the blocks posted to the main thread
  starting,       \* callers between their critical section and the thread
  rpc,            \* the refreshing thread, "off" if there is none
  todo,           \* the games that its scan has not come to
  leaving,        \* refreshing threads that have left their loop
  listed,         \* games
  deleting,       \* those of them whose entry is going to be removed
  disk,           \* the games in the directories that are scanned
  fresh,          \* installed and not yet reported
  requests,       \* calls of queueRefresh so far
  known           \* on disk at the last request, or reported by their
                  \* installation, and not deleted by the user since

refreshVars == <<needsRefresh, refreshRunning, isRefreshing, posts, starting, rpc, todo,
                 leaving, listed, deleting, disk, fresh, requests, known>>

Block(o, s) == [op |-> o, games |-> s]
Blocks == [op : {"show", "hide", "clear", "scanned", "installed", "announced"},
           games : SUBSET Games]

Init ==
  /\ needsRefresh = FALSE /\ refreshRunning = FALSE
  /\ isRefreshing = FALSE
  /\ posts = <<>>
  /\ starting = {}
  /\ rpc = "off"
  /\ todo = {}
  /\ leaving = 0
  /\ listed = {} /\ deleting = {} /\ disk = {} /\ fresh = {}
  /\ requests = 0
  /\ known = {}

-----------------------------------------------------------------------------
(* queueRefresh *)

\* Variant for mutation: a thread is started although one runs.
RequestStarts(c) ==
  /\ c \notin starting
  /\ requests < MaxRequests
  /\ requests' = requests + 1
  /\ known' = known \union disk
  /\ needsRefresh' = TRUE
  /\ refreshRunning' = TRUE
  /\ starting' = starting \union {c}
  /\ UNCHANGED <<isRefreshing, posts, rpc, todo, leaving, listed, deleting, disk, fresh>>

Request(c) ==
  /\ c \notin starting
  /\ requests < MaxRequests
  /\ requests' = requests + 1
  /\ known' = known \union disk
  /\ needsRefresh' = TRUE
  /\ refreshRunning' = TRUE
  /\ starting' = IF refreshRunning THEN starting ELSE starting \union {c}
  /\ UNCHANGED <<isRefreshing, posts, rpc, todo, leaving, listed, deleting, disk, fresh>>

\* The main thread shows the sign at once; then the thread is started.
StartRefresh(c) ==
  /\ c \in starting
  /\ starting' = starting \ {c}
  /\ IF c = OnMain
     THEN isRefreshing' = TRUE /\ UNCHANGED posts
     ELSE posts' = Append(posts, Block("show", {})) /\ UNCHANGED isRefreshing
  /\ rpc' = "begin"
  /\ UNCHANGED <<needsRefresh, refreshRunning, todo, leaving, listed, deleting, disk, fresh, requests, known>>

-----------------------------------------------------------------------------
(* The refreshing thread *)

\* The request is taken up before the refresh; clear waits for the main thread.
RefreshBegin ==
  /\ rpc = "begin"
  /\ needsRefresh' = FALSE
  /\ posts' = Append(posts, Block("clear", {}))
  /\ rpc' = "clearing"
  /\ UNCHANGED <<refreshRunning, isRefreshing, starting, todo, leaving, listed, deleting, disk, fresh,
                 requests, known>>

\* collectGameInfo: each game found is added, and the main thread awaited.
Scan(g) ==
  /\ rpc = "scan" /\ g \in todo
  /\ todo' = todo \ {g}
  /\ IF g \in disk
     THEN posts' = Append(posts, Block("scanned", {g})) /\ rpc' = "adding"
     ELSE UNCHANGED <<posts, rpc>>
  /\ UNCHANGED <<needsRefresh, refreshRunning, isRefreshing, starting, leaving, listed, deleting, disk,
                 fresh, requests, known>>

\* Variant for mutation: the request is looked at outside of the lock.
RefreshEndUnlocked ==
  /\ rpc = "scan" /\ todo = {}
  /\ \E seen \in {needsRefresh, FALSE} :
       IF seen THEN rpc' = "begin" /\ UNCHANGED <<refreshRunning, leaving>>
       ELSE rpc' = "off" /\ refreshRunning' = FALSE /\ leaving' = leaving + 1
  /\ UNCHANGED <<needsRefresh, isRefreshing, posts, starting, todo, listed, deleting, disk, fresh,
                 requests, known>>

\* Once more if there was a request meanwhile.
RefreshEnd ==
  /\ rpc = "scan" /\ todo = {}
  /\ IF needsRefresh THEN rpc' = "begin" /\ UNCHANGED <<refreshRunning, leaving>>
     ELSE rpc' = "off" /\ refreshRunning' = FALSE /\ leaving' = leaving + 1
  /\ UNCHANGED <<needsRefresh, isRefreshing, posts, starting, todo, listed, deleting, disk, fresh,
                 requests, known>>

RefreshLeave ==
  /\ leaving > 0
  /\ leaving' = leaving - 1
  /\ posts' = Append(posts, Block("hide", {}))
  /\ UNCHANGED <<needsRefresh, refreshRunning, isRefreshing, starting, rpc, todo, listed, deleting, disk,
                 fresh, requests, known>>

-----------------------------------------------------------------------------
(* The main thread, installations, and the user *)

\* A posted block runs; who waits for it goes on.  Once the list is cleared, to
\* remove one of its former entries has no effect.
MainRun ==
  /\ posts # <<>> /\ OnMain \notin starting
  /\ posts' = Tail(posts)
  /\ LET b == Head(posts)
     IN /\ isRefreshing' = CASE b.op = "show" -> TRUE [] b.op = "hide" -> FALSE
                             [] OTHER -> isRefreshing
        /\ listed' = IF b.op = "clear" THEN {} ELSE listed \union b.games
        /\ deleting' = IF b.op = "clear" THEN {} ELSE deleting
        /\ rpc' = IF b.op \in {"clear", "scanned"} THEN "scan" ELSE rpc
        /\ todo' = IF b.op = "clear" THEN Games ELSE todo
        /\ known' = IF b.op = "installed" THEN known \union (b.games \cap disk) ELSE known
  /\ UNCHANGED <<needsRefresh, refreshRunning, starting, leaving, disk, fresh, requests>>

\* The blocks with games that a thread waits for.
Awaited(b) == \E i \in 1..Len(posts) : posts[i] = b

\* The game is extracted into its directory, once the former installation of
\* it has come to its end.
Install(g) ==
  /\ g \notin External
  /\ g \notin disk /\ g \notin fresh /\ ~Awaited(Block("installed", {g}))
  /\ disk' = disk \union {g}
  /\ fresh' = fresh \union {g}
  /\ UNCHANGED <<needsRefresh, refreshRunning, isRefreshing, posts, starting, rpc, todo,
                 leaving, listed, deleting, requests, known>>

\* add, called for the game that was extracted.
InstallReport(g) ==
  /\ g \in fresh
  /\ fresh' = fresh \ {g}
  /\ posts' = Append(posts, Block("installed", {g}))
  /\ UNCHANGED <<needsRefresh, refreshRunning, isRefreshing, starting, rpc, todo, leaving,
                 listed, deleting, disk, requests, known>>

\* add, called for a game wherever it is: outside of the directories, still to
\* be extracted, or listed with missing data.  The caller waits for its block.
Announce(g) ==
  /\ ~Awaited(Block("announced", {g}))
  /\ posts' = Append(posts, Block("announced", {g}))
  /\ UNCHANGED <<needsRefresh, refreshRunning, isRefreshing, starting, rpc, todo, leaving,
                 listed, deleting, disk, fresh, requests, known>>

\* The user deletes a game: its files go at once if they are the application's.
Delete(g) ==
  /\ g \in listed \ deleting /\ OnMain \notin starting
  /\ disk' = disk \ {g}
  /\ deleting' = deleting \union {g}
  /\ known' = known \ {g}
  /\ UNCHANGED <<needsRefresh, refreshRunning, isRefreshing, posts, starting, rpc, todo,
                 leaving, listed, fresh, requests>>

\* remove, when its cache is deleted too.
RemoveGame(g) ==
  /\ g \in deleting /\ OnMain \notin starting
  /\ listed' = listed \ {g}
  /\ deleting' = deleting \ {g}
  /\ known' = known \ {g}
  /\ UNCHANGED <<needsRefresh, refreshRunning, isRefreshing, posts, starting, rpc, todo,
                 leaving, disk, fresh, requests>>

RefreshThreads == (\E c \in Callers : StartRefresh(c)) \/ RefreshBegin \/ (\E g \in Games : Scan(g))
           \/ RefreshEnd \/ RefreshLeave

Next ==
  \/ \E c \in Callers : Request(c)
  \/ RefreshThreads \/ MainRun
  \/ \E g \in Games : Install(g) \/ InstallReport(g) \/ Announce(g) \/ Delete(g) \/ RemoveGame(g)

\* The threads and the main thread run.
Fairness == WF_refreshVars(RefreshThreads) /\ WF_refreshVars(MainRun)

Spec == Init /\ [][Next]_refreshVars /\ Fairness

-----------------------------------------------------------------------------
(* Properties *)

TypeOK ==
  /\ needsRefresh \in BOOLEAN /\ refreshRunning \in BOOLEAN /\ isRefreshing \in BOOLEAN
  /\ posts \in Seq(Blocks)
  /\ starting \subseteq Callers
  /\ rpc \in {"off", "begin", "clearing", "scan", "adding"}
  /\ leaving \in 0..MaxRequests /\ requests \in 0..MaxRequests
  /\ todo \subseteq Games /\ listed \subseteq Games /\ deleting \subseteq listed
  /\ disk \subseteq Games
  /\ fresh \subseteq Games /\ known \subseteq Games

(***************************************************************************)
(* No request and no game in the directories that are scanned is lost:     *)
(* when no refresh runs, the list has every game that was there at the     *)
(* last request or was reported by its installation, unless the user has   *)
(* deleted it, although a refresh clears the list and scans while others   *)
(* add to it.  Of a game outside of these directories, or one that is      *)
(* announced and not yet extracted, nothing is said: the next refresh      *)
(* drops it.                                                               *)
(***************************************************************************)
NoGameMissed == ~refreshRunning => known \subseteq listed

(***************************************************************************)
(* The sign of a running refresh is taken away in the end: when nothing is *)
(* under way it is not shown.                                              *)
(***************************************************************************)
SignSettles ==
  ~refreshRunning /\ starting = {} /\ leaving = 0 /\ posts = <<>> => ~isRefreshing

(***************************************************************************)
(* Every request is taken up in the end, and the refreshing thread ends    *)
(* when the requests do.                                                   *)
(***************************************************************************)
RequestsAreServed == needsRefresh ~> ~needsRefresh /\ ~refreshRunning
=============================================================================
