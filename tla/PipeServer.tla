----------------------------- MODULE PipeServer -----------------------------
(***************************************************************************)
(* ThreadPipe::Work with GameConnection_Loop (DreamAuth2/ThreadPipe.cpp),  *)
(* against its peers: the modules injected in games, which start by asking *)
(* for the key data of the session, the texts and the addresses            *)
(* (DreamWarcraft: AuthConnection_Init, Language_Init, InitMap).  Both     *)
(* block in Pipe.h: the server until a game connects, either one until the *)
(* other has written or gone.                                              *)
(*                                                                         *)
(* The name of the pipe travels in shared memory.  A session begins and    *)
(* ends around the thread: its data is set before Run, and cleared before  *)
(* StopSignal.                                                             *)
(*                                                                         *)
(* The specification is PipeSpec, so that Game_proofs can extend Packet    *)
(* as well.                                                                *)
(***************************************************************************)
EXTENDS Integers, FiniteSets

CONSTANTS
  Game,         (* modules in games; each of them starts once              *)
  Revision,     (* revisions of modules                                    *)
  OwnRevision,  (* VERSION.revision of the client                          *)
  MaxPipe,      (* bound: pipes created                                    *)
  MaxLogin,     (* bound: sessions                                         *)
  Early,        (* whether a game may connect before the server listens    *)
  None

ASSUME PipeAssumption ==
  /\ Revision \subseteq Nat /\ OwnRevision \in Nat
  /\ MaxPipe \in Nat /\ MaxLogin \in Nat
  /\ Early \in BOOLEAN
  /\ None \notin Game

VARIABLES
  srv,       (* where the pipe thread is in Work                           *)
  term,      (* term_                                                      *)
  made,      (* pipes created; each is known by its number                 *)
  pipe,      (* ctx_.pipe, 0 for NULL                                      *)
  open,      (* pipes whose server end is open                             *)
  peer,      (* the game that has connected to each pipe                   *)
  smem,      (* the name in shared memory, 0 for none                      *)
  session,   (* the session the data of Auth is of, 0 for zeros            *)
  copy,      (* GameConnection_Loop's copy of it                           *)
  logins,    (* history: sessions begun                                    *)
  origin,    (* history: the session in which each pipe was created        *)
  pc,        (* where each game is                                         *)
  revision,  (* of each game                                               *)
  name,      (* AuthConnection_Ctx of each game                            *)
  req, ans,  (* the messages under way to the server and to each game      *)
  key        (* the session the key data sent to each game is of           *)

server == <<srv, term, made, pipe, open, origin>>
sessions == <<session, copy, logins>>
games == <<pc, name, req, ans, key>>
pipeVars == <<server, peer, smem, sessions, games, revision>>

Pipe == 1..MaxPipe
Request == {"data", "lang", "net"}

(* The answers: the one asked for, or a single zero byte.                  *)
Answer == Request \cup {"null"}

PipeInit ==
  /\ srv = "off" /\ term = FALSE
  /\ made = 0 /\ pipe = 0 /\ open = {} /\ origin = [p \in Pipe |-> 0]
  /\ peer = [p \in Pipe |-> None]
  /\ smem = 0
  /\ session = 0 /\ copy = 0 /\ logins = 0
  /\ pc = [g \in Game |-> "out"]
  /\ revision \in [Game -> Revision]
  /\ name = [g \in Game |-> 0] /\ key = [g \in Game |-> 0]
  /\ req = [g \in Game |-> None] /\ ans = [g \in Game |-> None]

-----------------------------------------------------------------------------
(* The client around the pipe thread.                                      *)

(* Mutation: a session begins though the thread of the last one runs.      *)
LoginUnwaited ==
  /\ session = 0 /\ logins < MaxLogin
  /\ logins' = logins + 1 /\ session' = logins + 1
  /\ srv' = (IF srv = "off" THEN "create" ELSE srv) /\ term' = FALSE
  /\ UNCHANGED <<made, pipe, open, origin, peer, smem, copy, games, revision>>

(* A login comes when the stop before it has come back from Pipe_Term.     *)
Login ==
  /\ srv = "off" /\ session = 0 /\ logins < MaxLogin
  /\ term => pipe = 0
  /\ logins' = logins + 1 /\ session' = logins + 1
  /\ srv' = "create" /\ term' = FALSE
  /\ UNCHANGED <<made, pipe, open, origin, peer, smem, copy, games, revision>>

ClearSession ==
  /\ session # 0
  /\ session' = 0
  /\ UNCHANGED <<server, peer, smem, copy, logins, games, revision>>

(* Pipe_Term: wakes a thread that waits for a game, and closes the pipe.   *)
Term == pipe' = 0 /\ open' = open \ {pipe}

(* A stop that finds no pipe yet is left to GameModule.  A thread that     *)
(* serves a game is not woken: the null message that should do it goes to  *)
(* a handle that is not open, and CloseHandle is left to CloseServing.     *)
StopSignal ==
  /\ session = 0 /\ ~term
  /\ srv \notin {"off", "create"}
  /\ term' = TRUE
  /\ IF srv = "serve" THEN UNCHANGED <<pipe, open>> ELSE Term
  /\ UNCHANGED <<srv, made, origin, peer, smem, sessions, games, revision>>

(* CloseHandle waits for a pending ReadFile, or leaves the pipe open to it *)
(* while nobody can use the handle any more.                               *)
CloseServing ==
  /\ term /\ pipe # 0
  /\ Term \/ (srv = "serve" /\ pipe' = 0 /\ UNCHANGED open)
  /\ UNCHANGED <<srv, term, made, origin, peer, smem, sessions, games, revision>>

-----------------------------------------------------------------------------
(* Work.                                                                   *)

(* One pass of the loop: the test of term_, Pipe_Create, ...               *)
Create ==
  /\ srv = "create"
  /\ made < MaxPipe
  /\ made' = made + 1 /\ pipe' = made + 1
  /\ open' = open \cup {made + 1}
  /\ origin' = [origin EXCEPT ![made + 1] = logins]
  /\ srv' = "announce"
  /\ UNCHANGED <<term, peer, smem, sessions, games, revision>>

(* Mutation: the context is copied before the pipe has its name.           *)
ContextNext == made + 1

(* ctx_, of which the name is what a game can use.                         *)
Context == made

Announce ==
  /\ srv = "announce"
  /\ smem' = Context
  /\ srv' = "listen"
  /\ UNCHANGED <<term, made, pipe, open, origin, peer, sessions, games, revision>>

Connected == pipe # 0 /\ peer[pipe] # None

(* ConnectNamedPipe blocks, unless a game has connected already: then it   *)
(* returns FALSE, and the thread goes on with another pipe.                *)
Listen ==
  /\ srv = "listen"
  /\ srv' = IF Connected THEN "create" ELSE "listening"
  /\ UNCHANGED <<term, made, pipe, open, origin, peer, smem, sessions, games, revision>>

AcceptOrStopped ==
  /\ srv = "listening"
  /\ Connected \/ term
  /\ srv' = "serve" /\ copy' = session
  /\ UNCHANGED <<term, made, pipe, open, origin, peer, smem, session, logins, games, revision>>

Serving(g) == srv = "serve" /\ pipe # 0 /\ peer[pipe] = g

(* memcmp of as many bytes as its third argument says: the comparison of a *)
(* size with 0, hence 1.                                                   *)
SameRevision(g) == revision[g] % 256 = OwnRevision % 256

(* A request to the update server can fail, or time out.                   *)
Answers(g) ==
  CASE req[g] = "data" -> {IF SameRevision(g) THEN "data" ELSE "null"}
    [] req[g] = "lang" -> {"lang"}
    [] req[g] = "net"  -> {"net", "null"}

(* Mutation: the server answers, but goes on with the same request.        *)
ServeKeeps(g) ==
  /\ Serving(g) /\ req[g] # None
  /\ \E a \in Answers(g) : ans' = [ans EXCEPT ![g] = a]
  /\ key' = [key EXCEPT ![g] = IF req[g] = "data" THEN copy ELSE @]
  /\ UNCHANGED <<server, peer, smem, sessions, pc, name, req, revision>>

(* Mutation: a request that has failed is not answered.                    *)
ServeSilent(g) ==
  /\ Serving(g) /\ req[g] # None
  /\ \E a \in Answers(g) : ans' = [ans EXCEPT ![g] = IF a = "null" THEN None ELSE a]
  /\ key' = [key EXCEPT ![g] = IF req[g] = "data" THEN copy ELSE @]
  /\ req' = [req EXCEPT ![g] = None]
  /\ UNCHANGED <<server, peer, smem, sessions, pc, name, revision>>

(* ReadFile, what the request asks for, and WriteFile.                     *)
Serve(g) ==
  /\ Serving(g) /\ req[g] # None
  /\ \E a \in Answers(g) : ans' = [ans EXCEPT ![g] = a]
  /\ key' = [key EXCEPT ![g] = IF req[g] = "data" THEN copy ELSE @]
  /\ req' = [req EXCEPT ![g] = None]
  /\ UNCHANGED <<server, peer, smem, sessions, pc, name, revision>>

Gone(g) == pc[g] = "gone"

(* The game has left; or it has asked, or nothing keeps the pipe open, but *)
(* the handle is closed.                                                   *)
Fails(g) == Gone(g) \/ (pipe = 0 /\ (made \notin open \/ req[g] # None))

(* ReadFile, or WriteFile, fails: an end has been closed.                  *)
Broken ==
  /\ srv = "serve"
  /\ peer[made] # None => Fails(peer[made])
  /\ srv' = "end" /\ copy' = 0
  /\ open' = IF pipe = 0 THEN open \ {made} ELSE open
  /\ UNCHANGED <<term, made, pipe, origin, peer, smem, session, logins, games, revision>>

End ==
  /\ srv = "end"
  /\ IF term THEN srv' = "off" /\ UNCHANGED <<pipe, open>>
             ELSE srv' = "create" /\ Term
  /\ UNCHANGED <<term, made, origin, peer, smem, sessions, games, revision>>

Server == Create \/ Announce \/ Listen \/ AcceptOrStopped \/ Broken \/ End

-----------------------------------------------------------------------------
(* A game.                                                                 *)

At(g, from, to) == pc[g] = from /\ pc' = [pc EXCEPT ![g] = to]

(* The module is injected and copies the shared memory, ...                *)
Inject(g) ==
  /\ At(g, "out", "copied")
  /\ name' = [name EXCEPT ![g] = smem]
  /\ UNCHANGED <<server, peer, smem, sessions, req, ans, key, revision>>

(* ... and clears it.                                                      *)
ClearMemory(g) ==
  /\ At(g, "copied", "named")
  /\ smem' = 0
  /\ UNCHANGED <<server, peer, sessions, name, req, ans, key, revision>>

Free(p) == p \in open /\ peer[p] = None

Connect(g) ==
  /\ Free(name[g])
  /\ Early \/ srv = "listening"
  /\ At(g, "named", "data")
  /\ peer' = [peer EXCEPT ![name[g]] = g]
  /\ UNCHANGED <<server, smem, sessions, name, req, ans, key, revision>>

ConnectFails(g) ==
  /\ ~Free(name[g])
  /\ At(g, "named", "failed")
  /\ UNCHANGED <<server, peer, smem, sessions, name, req, ans, key, revision>>

Alive(g) == \E p \in open : peer[p] = g

(* The places before and after the writing of each request.                *)
Waiting == [data |-> "data?", lang |-> "lang?", net |-> "net?"]
Waits(g, r) == pc[g] = Waiting[r]

Ask(g) ==
  /\ pc[g] \in Request
  /\ IF Alive(g)
     THEN /\ req' = [req EXCEPT ![g] = pc[g]]
          /\ pc' = [pc EXCEPT ![g] = Waiting[@]]
     ELSE pc' = [pc EXCEPT ![g] = "failed"] /\ UNCHANGED req
  /\ UNCHANGED <<server, peer, smem, sessions, name, ans, key, revision>>

(* What a module makes of an answer: the key data, the texts, for which it *)
(* needs a key (nobody's key data cannot be decrypted), and the addresses. *)
GotKey(g)     == Waits(g, "data") /\ ans[g] # "null"
GotTexts(g)   == Waits(g, "lang") /\ ans[g] # "null" /\ key[g] # 0
GotOffsets(g) == Waits(g, "net") /\ ans[g] # "null"

(* The read of an answer; what was written before the other end was closed *)
(* can be read.                                                            *)
Read(g) ==
  /\ ans[g] # None
  /\ pc' = [pc EXCEPT ![g] = CASE GotKey(g)     -> "lang"
                               [] GotTexts(g)   -> "net"
                               [] GotOffsets(g) -> "inited"
                               [] OTHER         -> "failed"]
  /\ ans' = [ans EXCEPT ![g] = None]
  /\ UNCHANGED <<server, peer, smem, sessions, name, req, key, revision>>

ReadFails(g) ==
  /\ \E r \in Request : Waits(g, r)
  /\ ans[g] = None /\ ~Alive(g)
  /\ pc' = [pc EXCEPT ![g] = "failed"]
  /\ req' = [req EXCEPT ![g] = None]
  /\ UNCHANGED <<server, peer, smem, sessions, name, ans, key, revision>>

(* The game ends, or crashes; only then does it close its end.             *)
Exit(g) ==
  /\ pc[g] \notin {"out", "gone"}
  /\ pc' = [pc EXCEPT ![g] = "gone"]
  /\ req' = [req EXCEPT ![g] = None] /\ ans' = [ans EXCEPT ![g] = None]
  /\ UNCHANGED <<server, peer, smem, sessions, name, key, revision>>

Advances(g) ==
  \/ ClearMemory(g) \/ Connect(g) \/ ConnectFails(g) \/ Ask(g)
  \/ Read(g) \/ ReadFails(g)

-----------------------------------------------------------------------------
PipeNext ==
  \/ Login \/ ClearSession \/ StopSignal \/ CloseServing \/ Server
  \/ \E g \in Game : Serve(g) \/ Inject(g) \/ Advances(g) \/ Exit(g)

PipeSpec == PipeInit /\ [][PipeNext]_pipeVars

(* The thread and the games run; a request to the update server is         *)
(* answered or times out (Connection).  CloseHandle may wait for ever.     *)
PipeFairSpec ==
  /\ PipeSpec /\ WF_pipeVars(Server)
  /\ \A g \in Game : WF_pipeVars(Serve(g)) /\ WF_pipeVars(Advances(g))

-----------------------------------------------------------------------------
(* Properties.                                                             *)

Places ==
  Request \cup {Waiting[r] : r \in Request}
    \cup {"out", "copied", "named", "inited", "failed", "gone"}

(* Every variable has its type (ThreadPipe.h, Pipe.h 18-23).               *)
PipeTypeOK ==
  /\ srv \in {"off", "create", "announce", "listen", "listening", "serve", "end"}
  /\ term \in BOOLEAN
  /\ made \in 0..MaxPipe /\ pipe \in 0..made /\ open \subseteq 1..made
  /\ peer \in [Pipe -> Game \cup {None}]
  /\ smem \in 0..made
  /\ logins \in 0..MaxLogin /\ session \in {0, logins} /\ copy \in 0..logins
  /\ origin \in [Pipe -> 0..logins]
  /\ pc \in [Game -> Places]
  /\ revision \in [Game -> Revision]
  /\ name \in [Game -> 0..made] /\ key \in [Game -> 0..logins]
  /\ req \in [Game -> Request \cup {None}] /\ ans \in [Game -> Answer \cup {None}]

(* Requests and answers alternate on every pipe, whoever ends and comes    *)
(* back in between: no game can read the answer to something else, for     *)
(* nothing in an answer says what it answers (141-196).                    *)
Alternate ==
  \A g \in Game :
    /\ req[g] # None => ans[g] = None /\ Waits(g, req[g])
    /\ ans[g] # None => \E r \in Request : Waits(g, r) /\ ans[g] \in {r, "null"}

(* A game that has started holds the key data of the session its pipe was  *)
(* made in: not that of an earlier one, nor the zeros a logout leaves      *)
(* before it stops the thread (122, ThreadLogout.cpp 27-29).               *)
KeyOfSession == \A g \in Game : pc[g] = "inited" => key[g] = origin[name[g]]

(* "version mismatch" (147): only a module of the client's own revision    *)
(* gets the key data and starts.                                           *)
VersionMatches ==
  \A g \in Game : pc[g] = "inited" => revision[g] = OwnRevision

(* A game that waits for the client while it starts does not do so for     *)
(* ever: sessions may end and requests fail at any time.                   *)
Starts(g) == pc[g] \notin {"out", "copied", "inited", "failed", "gone"}
Settles == \A g \in Game : Starts(g) ~> ~Starts(g)

=============================================================================
