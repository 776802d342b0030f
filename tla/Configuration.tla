----------------------------- MODULE Configuration -----------------------------
(***************************************************************************)
(* The server's configuration while it runs: the file, the goroutines that *)
(* reload it (cmd/inlets/server.go, internal/server/config), what a reload *)
(* changes (internal/server/server.go), and the admin console that saves   *)
(* it and is itself restarted by a reload (internal/server/admin).         *)
(*                                                                         *)
(* A text is what an operator or a request writes; Bad is one Validate     *)
(* refuses.  A file is an inode, so that a rename under a writer or under  *)
(* the watch is what it is in the code.  os.WriteFile truncates at open    *)
(* and writes from offset 0, and nothing keeps two saves apart: what an    *)
(* inode holds is the set of the texts whose bytes it has, each from where *)
(* the shorter ones end to its own end.  {} is a file that was cut off,    *)
(* {d} is d, whole, and a larger set is a file that nobody has written.    *)
(* A document is a file Validate accepts, mixed ones among them; of it the *)
(* model knows where it puts the console.  Reads of the file and what      *)
(* Reload does before it applies are one step under Manager.mu.            *)
(*                                                                         *)
(* Left out: full disks and failing writes, a read of the file between an  *)
(* editor's truncation and its write, the trimming of old revisions, the   *)
(* audit log, keep-alive connections of the console (idle ones do not hold *)
(* up Shutdown), the process's end.                                        *)
(***************************************************************************)
EXTENDS Naturals, FiniteSets

CONSTANTS
    Requests,   \* PUT /config, POST restore and POST /reload requests
    Typed,      \* valid texts an operator writes with an editor
    Sent,       \* valid texts sent to PUT /config
    Bad,        \* a text Validate refuses
    Size,       \* the lengths of the texts
    AdminOf,    \* where a document wants the console: [Documents -> address or None]
    Files,      \* inodes
    Consoles,   \* admin servers
    Watcher, Main, \* the goroutine of the watcher's timer, the signal loop
    None,
    MaxEdits    \* bound: edits of the file by hand

Texts     == Typed \cup Sent \cup {Bad}
Documents == DOMAIN AdminOf
Threads   == Requests \cup {Watcher, Main}
Addresses == {AdminOf[d] : d \in Documents} \cup {None}

ASSUME ConfigurationAssumption ==
    /\ Files \subseteq Nat /\ Consoles \subseteq Nat /\ 0 \in Files \cap Consoles
    /\ None \notin Files \cup Consoles \cup Threads \cup Texts /\ None \notin Documents
    /\ Watcher \notin Requests /\ Main \notin Requests /\ Watcher # Main
    /\ Bad \notin Typed \cup Sent /\ Typed \cap Sent = {}
    /\ Size \in [Texts -> Nat]
    /\ Documents \subseteq SUBSET Texts
    /\ {} \notin Documents /\ {Bad} \notin Documents
    /\ \A d \in Typed \cup Sent : {d} \in Documents
    /\ MaxEdits \in Nat

VARIABLES
    path,     \* the inode the configuration's path names
    tmp,      \* the inode path + ".tmp" names, or None
    content,  \* Files -> the texts whose bytes it has
    mounted,  \* the file is a mount point of its own: rename fails with EBUSY
    watched,  \* the inode inotify watches, or None
    armed,    \* the watcher's reloadTimer is running
    unseen,   \* the file was edited and no event told the watcher
    edits,    \* edits by hand so far
    revisions,\* the texts of the revision table
    pc,       \* Threads -> where the goroutine is
    at,       \* Requests -> the console that accepted it
    text,     \* Requests -> the text it saves
    fd,       \* Requests -> the inode it has open
    mu,       \* owner of Manager.mu
    cfg,      \* Threads -> the document it has loaded
    ref,      \* the document of config.Ref
    limits,   \* the document whose limits and notification are in force
    adminServer, \* the console the server knows of
    Admin,    \* options.Admin: where it listens as far as the server knows, or None
    live      \* consoles that are listening

disk    == <<path, tmp, content, watched, armed, unseen>>
asking  == <<at, text, fd>>
force   == <<ref, limits>>
console == <<adminServer, Admin, live>>
vars    == <<disk, mounted, edits, revisions, pc, asking, mu, cfg, force, console>>

\* The first of the ids nothing refers to any more.
First(i, S, used) == i \in S \ used /\ \A j \in S \ used : i <= j

Init ==
    \E d \in Typed :
        /\ path = 0 /\ tmp = None /\ watched = 0
        /\ content = [f \in Files |-> IF f = 0 THEN {d} ELSE {}]
        /\ mounted \in BOOLEAN
        /\ armed = FALSE /\ unseen = FALSE /\ edits = 0
        /\ revisions = {}
        /\ pc = [t \in Threads |-> IF t \in Requests THEN "new" ELSE "idle"]
        /\ at = [q \in Requests |-> None]
        /\ text = [q \in Requests |-> None]
        /\ fd = [q \in Requests |-> None]
        /\ mu = None
        /\ cfg = [t \in Threads |-> None]
        /\ ref = {d} /\ limits = {d}
        /\ Admin = AdminOf[{d}]
        /\ adminServer = IF AdminOf[{d}] = None THEN None ELSE 0
        /\ live = IF AdminOf[{d}] = None THEN {} ELSE {0}

-----------------------------------------------------------------------------
At(t, l) == pc' = [pc EXCEPT ![t] = l]
Active(q) == pc[q] \notin {"new", "ok", "error"}

\* What t was asked is done, or refused.  Only a request has somebody to tell.
Ends(t, l) ==
    /\ At(t, IF t \in Requests THEN l ELSE "idle")
    /\ at' = [q \in Requests |-> IF q = t THEN None ELSE at[q]]

\* Faulty variants (FileFirst, InPlace, RenamedIsEnough, Anything, StillListens,
\* WaitsForAll) come just before what they vary; nothing uses them but the tests of the
\* properties.

\* inotify reports a write to the inode it watches: watchConfigFile arms its timer
\* anew.
Written(f) == armed' = (armed \/ f = watched)

\* A rename over the path: an inode without a name is not watched any longer, and
\* nobody adds the new one.
Named(f) ==
    /\ path' = f
    /\ watched' = IF watched = path THEN None ELSE watched

-----------------------------------------------------------------------------
(* Saving: the admin console *)

\* A request reaches a console that listens.
Accepted(q) ==
    /\ pc[q] = "new"
    /\ \E s \in live : at' = [at EXCEPT ![q] = s]

Row(d) == revisions \cup {d}

\* SaveRaw and Restore put the text into the revision table before they touch the
\* file.  (A failing insert ends the request, as if it had never come.)
FileFirst(q, d) ==
    /\ text' = [text EXCEPT ![q] = d]
    /\ At(q, "check")
    /\ UNCHANGED revisions
Records(q, d) ==
    /\ text' = [text EXCEPT ![q] = d]
    /\ At(q, "check")
    /\ revisions' = Row(d)

\* PUT /config.
Put(q) ==
    /\ Accepted(q)
    /\ \E d \in Sent \cup {Bad} : Records(q, d)
    /\ UNCHANGED <<disk, mounted, edits, fd, mu, cfg, force, console>>

\* POST /config/revisions/:id/restore, of a revision that is there.
Restore(q) ==
    /\ Accepted(q)
    /\ \E d \in revisions : Records(q, d)
    /\ UNCHANGED <<disk, mounted, edits, fd, mu, cfg, force, console>>

\* POST /reload.
Reload(q) ==
    /\ Accepted(q)
    /\ At(q, "lock")
    /\ UNCHANGED <<disk, mounted, edits, revisions, text, fd, mu, cfg, force, console>>

\* SaveRawAtomic validates the text; writeFileAtomic opens path.tmp, which other
\* saves may have open, and truncates it.
InPlace(f) == f = path
Opened(f) ==
    IF tmp # None THEN f = tmp
    ELSE First(f, Files, {path, watched} \cup {fd[r] : r \in Requests})
OpenTmp(q) ==
    /\ pc[q] = "check"
    /\ \/ /\ text[q] = Bad
          /\ Ends(q, "error")
          /\ text' = [text EXCEPT ![q] = None]
          /\ UNCHANGED <<tmp, content, fd, armed>>
       \/ /\ text[q] # Bad
          /\ \E f \in Files :
                /\ Opened(f)
                /\ tmp' = f
                /\ content' = [content EXCEPT ![f] = {}]
                /\ fd' = [fd EXCEPT ![q] = f]
                /\ Written(f)
          /\ At(q, "write")
          /\ UNCHANGED <<at, text>>
    /\ UNCHANGED <<path, watched, unseen, mounted, edits, revisions, mu, cfg, force,
                   console>>

\* A write at offset 0: beyond its end, what was there is still there.
Over(d, c) == {d} \cup {e \in c : Size[e] > Size[d]}

\* The text goes over what has come into the inode since q has truncated it, wherever
\* that has got to by now, and the inode is closed.
Writes(q) ==
    /\ content' = [content EXCEPT ![fd[q]] = Over(text[q], @)]
    /\ fd' = [fd EXCEPT ![q] = None]
    /\ Written(fd[q])

WriteTmp(q) ==
    /\ pc[q] = "write"
    /\ Writes(q)
    /\ At(q, "rename")
    /\ UNCHANGED <<path, tmp, watched, unseen, mounted, edits, revisions, at, text, mu, cfg,
                   force, console>>

\* Rename gives the path whatever path.tmp is now; where it fails, because the file
\* is mounted or another save has renamed path.tmp away, the file is truncated.
RenamedIsEnough(q) ==
    /\ pc[q] = "rename"
    /\ ~mounted
    /\ text' = [text EXCEPT ![q] = None]
    /\ IF tmp # None THEN tmp' = None /\ Named(tmp) /\ At(q, "lock") /\ UNCHANGED at
                     ELSE UNCHANGED <<tmp, path, watched>> /\ Ends(q, "ok")
    /\ UNCHANGED <<content, fd, armed, unseen, mounted, edits, revisions, mu, cfg, force,
                   console>>
Rename(q) ==
    /\ pc[q] = "rename"
    /\ \/ /\ ~mounted /\ tmp # None
          /\ tmp' = None /\ Named(tmp)
          /\ text' = [text EXCEPT ![q] = None]
          /\ At(q, "lock")
          /\ UNCHANGED <<content, fd, armed>>
       \/ /\ mounted \/ tmp = None
          /\ content' = [content EXCEPT ![path] = {}]
          /\ fd' = [fd EXCEPT ![q] = path]
          /\ Written(path)
          /\ At(q, "rewrite")
          /\ UNCHANGED <<tmp, path, watched, text>>
    /\ UNCHANGED <<unseen, mounted, edits, revisions, at, mu, cfg, force, console>>

Rewrite(q) ==
    /\ pc[q] = "rewrite"
    /\ Writes(q)
    /\ At(q, "remove")
    /\ UNCHANGED <<path, tmp, watched, unseen, mounted, edits, revisions, at, text, mu, cfg,
                   force, console>>

\* os.Remove of path.tmp, whosever it is.
RemoveTmp(q) ==
    /\ pc[q] = "remove"
    /\ tmp' = None
    /\ text' = [text EXCEPT ![q] = None]
    /\ At(q, "lock")
    /\ UNCHANGED <<path, content, watched, armed, unseen, mounted, edits, revisions, at, fd,
                   mu, cfg, force, console>>

-----------------------------------------------------------------------------
(* Reloading *)

\* The watcher's timer, 200 ms after the last write it was told of.
TimerFires ==
    /\ armed /\ pc[Watcher] = "idle"
    /\ armed' = FALSE
    /\ At(Watcher, "lock")
    /\ UNCHANGED <<path, tmp, content, watched, unseen, mounted, edits, revisions, asking,
                   mu, cfg, force, console>>

\* SIGHUP.
Hangup ==
    /\ pc[Main] = "idle"
    /\ At(Main, "lock")
    /\ UNCHANGED <<disk, mounted, edits, revisions, asking, mu, cfg, force, console>>

\* Manager.Reload up to apply: a file that cannot be read or is not valid changes
\* nothing.
Anything(c) == c # {}
Valid(c) == c \in Documents
Load(t) ==
    /\ pc[t] = "lock"
    /\ mu = None
    /\ \/ /\ ~Valid(content[path])
          /\ Ends(t, "error")
          /\ UNCHANGED <<cfg, ref, mu>>
       \/ /\ Valid(content[path])
          /\ cfg' = [cfg EXCEPT ![t] = content[path]]
          /\ ref' = content[path]
          /\ mu' = t
          /\ At(t, "apply")
          /\ UNCHANGED at
    /\ unseen' = FALSE
    /\ UNCHANGED <<path, tmp, content, watched, armed, mounted, edits, revisions, text, fd,
                   limits, console>>

\* UpdateConfig.  (Tokens are read through ref.)
UpdateConfig(t) ==
    /\ pc[t] = "apply"
    /\ limits' = cfg[t]
    /\ At(t, "admin")
    /\ UNCHANGED <<disk, mounted, edits, revisions, asking, mu, cfg, ref, console>>

Returns(t, l) ==
    /\ mu' = None
    /\ cfg' = [cfg EXCEPT ![t] = None]
    /\ Ends(t, l)
Goes(t, l) == At(t, l) /\ UNCHANGED <<mu, cfg, at>>

\* ReconcileAdmin: nothing to do, a console to stop, or one to start.
Wanted(t)  == AdminOf[cfg[t]]
Settled(t) == IF Wanted(t) = None THEN adminServer = None
              ELSE adminServer # None /\ Admin = Wanted(t)
StillListens(s) == live
Closed(s) == live \ {s}
ReconcileAdmin(t) ==
    /\ pc[t] = "admin"
    /\ \/ /\ Settled(t)
          /\ Admin' = Wanted(t)
          /\ Returns(t, "ok")
          /\ UNCHANGED live
       \/ /\ ~Settled(t) /\ adminServer = None
          /\ Goes(t, "start")
          /\ UNCHANGED <<Admin, live>>
       \/ /\ ~Settled(t) /\ adminServer # None
          /\ live' = Closed(adminServer)
          /\ Goes(t, "stopping")
          /\ UNCHANGED Admin
    /\ UNCHANGED <<disk, mounted, edits, revisions, text, fd, force, adminServer>>

\* Shutdown has closed the listener and waits for the console's requests, 5 s at
\* most: the request whose reload this is never ends by then.
Busy(s) == \E q \in Requests : Active(q) /\ at[q] = s
WaitsForAll(s) == ~Busy(s)
Waited(s) == TRUE
Stopped(t) ==
    /\ pc[t] = "stopping"
    /\ Waited(adminServer)
    /\ \/ /\ Wanted(t) = None /\ Busy(adminServer)
          /\ Returns(t, "error")
          /\ UNCHANGED <<adminServer, Admin>>
       \/ /\ Wanted(t) = None /\ ~Busy(adminServer)
          /\ adminServer' = None /\ Admin' = None
          /\ Returns(t, "ok")
       \/ /\ Wanted(t) # None
          /\ adminServer' = None
          /\ Goes(t, "start")
          /\ UNCHANGED Admin
    /\ UNCHANGED <<disk, mounted, edits, revisions, text, fd, force, live>>

\* admin.New and Start: the database or the address may not be to be had.
Start(t) ==
    /\ pc[t] = "start"
    /\ \/ /\ Returns(t, "error")
          /\ UNCHANGED console
       \/ /\ \E s \in Consoles :
                /\ First(s, Consoles, live \cup {at[q] : q \in Requests})
                /\ adminServer' = s
                /\ live' = live \cup {s}
          /\ Admin' = Wanted(t)
          /\ Returns(t, "ok")
    /\ UNCHANGED <<disk, mounted, edits, revisions, text, fd, force>>

-----------------------------------------------------------------------------
(* The operator *)

\* An editor that writes the file in place, or a new one it renames.
Edit ==
    /\ edits < MaxEdits
    /\ edits' = edits + 1
    /\ \E d \in Typed \cup {Bad} :
          \/ /\ content' = [content EXCEPT ![path] = {d}]
             /\ Written(path)
             /\ unseen' = (path # watched)
             /\ UNCHANGED <<path, watched>>
          \/ /\ ~mounted
             /\ \E f \in Files :
                   /\ First(f, Files, {path, tmp, watched} \cup {fd[r] : r \in Requests})
                   /\ content' = [content EXCEPT ![f] = {d}]
                   /\ Named(f)
             /\ unseen' = TRUE
             /\ UNCHANGED armed
    /\ UNCHANGED <<tmp, mounted, revisions, pc, asking, mu, cfg, force, console>>

-----------------------------------------------------------------------------
Saving(q) ==
    OpenTmp(q) \/ WriteTmp(q) \/ Rename(q) \/ Rewrite(q) \/ RemoveTmp(q)
Applying(t) == UpdateConfig(t) \/ ReconcileAdmin(t) \/ Stopped(t) \/ Start(t)

Next ==
    \/ \E q \in Requests : Put(q) \/ Restore(q) \/ Reload(q) \/ Saving(q)
    \/ \E t \in Threads : Load(t) \/ Applying(t)
    \/ TimerFires \/ Hangup \/ Edit

Spec == Init /\ [][Next]_vars

\* The Go scheduler lets every goroutine go on; a mutex that is free time and again
\* is taken in the end (sync.Mutex hands over to a waiter that starves); the timer
\* of the watcher fires and Shutdown's context runs out.
FairSpec ==
    /\ Spec
    /\ \A q \in Requests : WF_vars(Saving(q))
    /\ \A t \in Threads : SF_vars(Load(t)) /\ WF_vars(Applying(t))
    /\ WF_vars(TimerFires)

-----------------------------------------------------------------------------
Places == {"new", "idle", "check", "write", "rename", "rewrite", "remove", "lock", "apply",
           "admin", "stopping", "start", "ok", "error"}

\* Every variable keeps to its range; above all, what is in force is a document
\* Validate has accepted (docs/server/configuration.md: an invalid one fails safely).
TypeOK ==
    /\ path \in Files /\ tmp \in Files \cup {None} /\ watched \in Files \cup {None}
    /\ content \in [Files -> SUBSET Texts]
    /\ mounted \in BOOLEAN /\ armed \in BOOLEAN /\ unseen \in BOOLEAN
    /\ edits \in 0 .. MaxEdits
    /\ revisions \subseteq Texts
    /\ pc \in [Threads -> Places]
    /\ at \in [Requests -> Consoles \cup {None}]
    /\ text \in [Requests -> Texts \cup {None}]
    /\ fd \in [Requests -> Files \cup {None}]
    /\ mu \in Threads \cup {None}
    /\ cfg \in [Threads -> Documents \cup {None}]
    /\ ref \in Documents /\ limits \in Documents
    /\ adminServer \in Consoles \cup {None}
    /\ Admin \in Addresses
    /\ live \subseteq Consoles

\* reload.go Reload, monitor.go SaveRaw: when nobody saves or reloads any more, the
\* document in force is the one in the file, in whatever order the saves, reloads and
\* edits came; unless the file was edited when its inode was not watched any longer,
\* or is not valid.
SettledInForce ==
    (/\ \A t \in Threads : pc[t] \in {"new", "idle", "ok", "error"}
     /\ ~armed /\ ~unseen /\ content[path] \in Documents)
    => ref = content[path] /\ limits = content[path]

\* monitor.go: "Persist the revision BEFORE writing the file".  Every text of which the
\* console has put bytes into the file is in the revision table, be it the whole file
\* or a part of a mixed one.  (A mixed file is itself no revision.)
LoggedFirst == \A d \in content[path] : d \in Sent => d \in revisions

\* The operator edits, three requests are about, or two, which cannot rename: what it
\* takes for two writes to one inode of which neither is made good again.
Other(q)  == Requests \ {q}
Came(q)   == pc[q] # "new"
Crowded ==
    \/ edits > 0
    \/ mounted /\ \E q \in Requests : Came(q) /\ \E r \in Other(q) : Came(r)
    \/ \E q \in Requests : Came(q) /\
          \E r \in Other(q) : Came(r) /\ \E s \in Other(q) \ {r} : Came(s)

\* save.go writeFileAtomic, which takes no lock.  The file is cut off only while a save
\* that will write it has it open, and that only where it cannot be renamed or two
\* requests share path.tmp.  It is mixed of two texts only while a save has yet to
\* rename a file over it or truncate it, unless it is crowded.
WholeOrInWork ==
    /\ content[path] = {} =>
          \E q \in Requests :
              /\ fd[q] = path /\ pc[q] \in {"write", "rewrite"}
              /\ mounted \/ \E r \in Other(q) : Came(r)
    /\ Cardinality(content[path]) > 1 =>
          Crowded \/ \E q \in Requests : pc[q] = "rename"

\* server.go ReconcileAdmin: at most one console listens, and it is the one that the
\* next reload will stop.
OneConsole == live \subseteq {adminServer}

\* server.go:361: ReconcileAdmin "(re)starts the admin HTTP listener when admin.listen
\* or related settings change".  When no reload is under way, the document in force
\* wants a console and the server believes that it has one, that console listens.
ConsoleListens ==
    (mu = None /\ adminServer # None /\ AdminOf[ref] # None) => adminServer \in live

\* admin.go Stop: a request whose own reload stops its console waits for itself, under
\* Manager.mu; it is answered all the same, and so are those behind it, until none is
\* left.
RequestsReturn == []<>(\A q \in Requests : ~Active(q))
=============================================================================
