----------------------------- MODULE KeyRepeat -----------------------------
(***************************************************************************)
(* DreamWarcraft/KeyRepeat.cpp and the part of Input.cpp that feeds it: a  *)
(* key that is held is pressed again and again, by the program.  A press   *)
(* starts a one-shot timer for the key; if the key is still down when that *)
(* expires, a periodic timer presses it until its release is seen.  While  *)
(* the chat box is open neither presses nor releases are passed on.        *)
(*                                                                         *)
(* Timers are those of module Timer: here a destroyed one is gone, which   *)
(* is what its clients may rely on, and expiries come at any time.  The    *)
(* game's own reaction to keys is its opening and closing of the chat box. *)
(* Left out: the keys that never repeat and the hotkey that locks the      *)
(* mouse, whose press is not passed on.                                    *)
(***************************************************************************)
EXTENDS FiniteSets

CONSTANTS
  Key,      (* keys of the keyboard                                        *)
  Slash,    (* KEY_OEM_SLASH, which opens the chat box                     *)
  Mouse,    (* mouse buttons and wheel directions, treated like keys       *)
  Timers,   (* Timer objects; bounds how many exist at a time              *)
  Null

ASSUME KeyAssumption ==
  /\ Slash \in Key
  /\ Key \cap Mouse = {}
  /\ Null \notin Timers \cup [code : Key \cup Mouse, periodic : BOOLEAN]

Code == Key \cup Mouse

VARIABLES
  held,           (* the keys the user holds                               *)
  InputKeyState,  (* the keys taken to be down                             *)
  chat,           (* isChatBoxOn()                                         *)
  inGame,         (* IsInGame()                                            *)
  Enable,         (* the option KeyAutoRepeat, read at each press          *)
  tm,             (* the timers: the code they are for and their kind      *)
  RepeatTimer,
  RepeatDelayTimer,
  missed,         (* history: keys whose last release the chat box hid     *)
  away            (* history: keys released while another program had the  *)
                  (* keyboard, before the game began                       *)

timers == <<tm, RepeatTimer, RepeatDelayTimer>>
vars == <<held, InputKeyState, chat, inGame, Enable, timers, missed, away>>

NoTimers == [c \in Code |-> Null]

Init ==
  /\ held = {} /\ InputKeyState = {}
  /\ chat = FALSE /\ inGame = FALSE
  /\ Enable \in BOOLEAN
  /\ tm = [t \in Timers |-> Null]
  /\ RepeatTimer = NoTimers /\ RepeatDelayTimer = NoTimers
  /\ missed = {} /\ away = {}

-----------------------------------------------------------------------------
(* The listeners of KeyRepeat.                                             *)

(* tm without the timers in s.                                             *)
Destroyed(s) == [t \in Timers |-> IF t \in s THEN Null ELSE tm[t]]

Free == {t \in Timers : tm[t] = Null}

(* Mutation: the delay timer of an earlier press is forgotten, not         *)
(* destroyed.                                                              *)
RestartDelayForgets(c, t) ==
  /\ tm' = [tm EXCEPT ![t] = [code |-> c, periodic |-> FALSE]]
  /\ RepeatDelayTimer' = [RepeatDelayTimer EXCEPT ![c] = t]

RestartDelay(c, t) ==
  /\ tm' = [Destroyed({RepeatDelayTimer[c]}) EXCEPT ![t] = [code |-> c, periodic |-> FALSE]]
  /\ RepeatDelayTimer' = [RepeatDelayTimer EXCEPT ![c] = t]

Repeats(c) == RepeatTimer[c] # Null

onKeyDown(c) ==
  IF Enable /\ ~Repeats(c)
  THEN (\E t \in Free : RestartDelay(c, t)) /\ UNCHANGED RepeatTimer
  ELSE UNCHANGED timers

(* Mutation: only the delay timers are destroyed.                          *)
ClearDelays(s) ==
  /\ tm' = Destroyed({RepeatDelayTimer[c] : c \in s})
  /\ RepeatDelayTimer' = [c \in Code |-> IF c \in s THEN Null ELSE RepeatDelayTimer[c]]
  /\ UNCHANGED RepeatTimer

(* The timers of the codes in s are destroyed and their pointers cleared.  *)
Clear(s) ==
  /\ tm' = Destroyed({RepeatTimer[c] : c \in s} \cup {RepeatDelayTimer[c] : c \in s})
  /\ RepeatTimer' = [c \in Code |-> IF c \in s THEN Null ELSE RepeatTimer[c]]
  /\ RepeatDelayTimer' = [c \in Code |-> IF c \in s THEN Null ELSE RepeatDelayTimer[c]]

onKeyUp(c) == Clear({c})

(* Mutation: the state of the key is not looked at.                        *)
StillDownAssumed(c) == TRUE

StillDown(c) == c \in InputKeyState

(* The look at RepeatTimer (39, 49) never finds one: see Pointed.          *)
onRepeatDelayExpired(c) ==
  /\ RepeatDelayTimer' = [RepeatDelayTimer EXCEPT ![c] = Null]
  /\ IF StillDown(c) /\ RepeatTimer[c] = Null
     THEN \E t \in Free :
            /\ tm' = [Destroyed({RepeatDelayTimer[c]})
                        EXCEPT ![t] = [code |-> c, periodic |-> TRUE]]
            /\ RepeatTimer' = [RepeatTimer EXCEPT ![c] = t]
     ELSE LET gone == IF StillDown(c) THEN {} ELSE {RepeatTimer[c]}
          IN /\ tm' = Destroyed({RepeatDelayTimer[c]} \cup gone)
             /\ RepeatTimer' =
                  [RepeatTimer EXCEPT ![c] = IF StillDown(c) THEN RepeatTimer[c] ELSE Null]

-----------------------------------------------------------------------------
(* Input_Update.                                                           *)

(* A press, by the user or the program.  A slash without modifier keys     *)
(* opens the chat box first.                                               *)
Pressed(k) ==
  /\ InputKeyState' = InputKeyState \cup {k}
  /\ IF inGame /\ ~chat
     THEN /\ chat' \in IF k = Slash THEN BOOLEAN ELSE {chat}
          /\ onKeyDown(k)
     ELSE UNCHANGED <<chat, timers>>

(* The user presses k, or the system repeats a key that is held.           *)
KeyDown(k) ==
  /\ held' = held \cup {k}
  /\ Pressed(k)
  /\ missed' = missed \ {k} /\ away' = away \ {k}
  /\ UNCHANGED <<inGame, Enable>>

KeyUp(k) ==
  /\ k \in held
  /\ held' = held \ {k}
  /\ InputKeyState' = InputKeyState \ {k}
  /\ IF inGame /\ ~chat
     THEN onKeyUp(k) /\ UNCHANGED missed
     ELSE missed' = missed \cup {k} /\ UNCHANGED timers
  /\ UNCHANGED <<chat, inGame, Enable, away>>

(* Mutation: mouse buttons have a key state too.                           *)
MouseDownSets(m) ==
  /\ inGame
  /\ onKeyDown(m)
  /\ InputKeyState' = InputKeyState \cup {m}
  /\ UNCHANGED <<held, chat, inGame, Enable, missed, away>>

(* A mouse button, or a turn of the wheel, which has no release.           *)
MouseDown(m) ==
  /\ inGame
  /\ onKeyDown(m)
  /\ UNCHANGED <<held, InputKeyState, chat, inGame, Enable, missed, away>>

MouseUp(m) ==
  /\ inGame
  /\ onKeyUp(m)
  /\ UNCHANGED <<held, InputKeyState, chat, inGame, Enable, missed, away>>

(* Mutation: the state is not reset.                                       *)
StateKept == InputKeyState

KeyStateReset == {}

(* The window gets the keyboard back; the user may have let keys go.       *)
Focus ==
  /\ held' \in SUBSET held
  /\ IF inGame
     THEN InputKeyState' = KeyStateReset /\ Clear(Code) /\ away' = {}
     ELSE away' = away \cup (held \ held') /\ UNCHANGED <<InputKeyState, timers>>
  /\ UNCHANGED <<chat, inGame, Enable, missed>>

-----------------------------------------------------------------------------
(* Timers, the chat box, the option and the game.                          *)

DelayExpires(t) ==
  /\ inGame
  /\ tm[t] # Null /\ ~tm[t].periodic
  /\ onRepeatDelayExpired(tm[t].code)
  /\ UNCHANGED <<held, InputKeyState, chat, inGame, Enable, missed, away>>

RepeatExpires(t) ==
  /\ inGame
  /\ tm[t] # Null /\ tm[t].periodic
  /\ Pressed(tm[t].code)
  /\ UNCHANGED <<held, inGame, Enable, missed, away>>

(* The game opens and closes the chat box (Enter, Esc).                    *)
ChatToggles ==
  /\ inGame
  /\ chat' = ~chat
  /\ UNCHANGED <<held, InputKeyState, inGame, Enable, timers, missed, away>>

OptionToggles ==
  /\ Enable' = ~Enable
  /\ UNCHANGED <<held, InputKeyState, chat, inGame, timers, missed, away>>

(* Mutation: the pointers of the game before are kept.                     *)
ArraysKept == UNCHANGED <<RepeatTimer, RepeatDelayTimer>>

(* The arrays are static: Init clears what the game before has left.       *)
ArraysCleared == RepeatTimer' = NoTimers /\ RepeatDelayTimer' = NoTimers

Game_Init ==
  /\ ~inGame
  /\ inGame' = TRUE
  /\ ArraysCleared
  /\ UNCHANGED <<held, InputKeyState, chat, Enable, tm, missed, away>>

(* Timer_Cleanup deletes the timers, whoever points to them.               *)
Game_Cleanup ==
  /\ inGame
  /\ inGame' = FALSE /\ chat' = FALSE
  /\ tm' = Destroyed(Timers)
  /\ UNCHANGED <<held, InputKeyState, Enable, RepeatTimer, RepeatDelayTimer, missed, away>>

-----------------------------------------------------------------------------
Next ==
  \/ \E k \in Key : KeyDown(k) \/ KeyUp(k)
  \/ \E m \in Mouse : MouseDown(m) \/ MouseUp(m)
  \/ \E t \in Timers : DelayExpires(t) \/ RepeatExpires(t)
  \/ Focus \/ ChatToggles \/ OptionToggles \/ Game_Init \/ Game_Cleanup

Spec == Init /\ [][Next]_vars

-----------------------------------------------------------------------------
(* Properties.                                                             *)

(* Every variable has its type (KeyRepeat.cpp 11-12, Input.cpp 17).        *)
TypeOK ==
  /\ held \subseteq Key /\ InputKeyState \subseteq Key
  /\ chat \in BOOLEAN /\ inGame \in BOOLEAN /\ Enable \in BOOLEAN
  /\ tm \in [Timers -> [code : Code, periodic : BOOLEAN] \cup {Null}]
  /\ RepeatTimer \in [Code -> Timers \cup {Null}]
  /\ RepeatDelayTimer \in [Code -> Timers \cup {Null}]
  /\ missed \subseteq Key /\ away \subseteq Key

(***************************************************************************)
(* In a game the two arrays and the timers agree: no pointer is left to a  *)
(* deleted timer, and no timer runs that no release can stop, whatever the *)
(* order of presses, expiries, focus changes and games.  A key that        *)
(* repeats has no delay timer: the guards of lines 39 and 49 rest on it.   *)
(***************************************************************************)
Pointed(c) ==
  /\ RepeatTimer[c] # Null => tm[RepeatTimer[c]] = [code |-> c, periodic |-> TRUE]
  /\ RepeatDelayTimer[c] # Null => tm[RepeatDelayTimer[c]] = [code |-> c, periodic |-> FALSE]
  /\ RepeatTimer[c] = Null \/ RepeatDelayTimer[c] = Null

Owned ==
  inGame =>
    /\ \A c \in Code : Pointed(c)
    /\ \A t \in Timers : tm[t] # Null =>
         t \in {RepeatTimer[tm[t].code], RepeatDelayTimer[tm[t].code]}

(* "if it is still down" (KeyRepeat.cpp 37): only a key that is held       *)
(* repeats, except one released while the chat box was open.  Such a key   *)
(* goes on (Input.cpp 214), and nothing else does: not what a wheel        *)
(* direction or mouse button has begun, nor a key released in time.        *)
RepeatsHeld ==
  inGame => \A c \in Code : RepeatTimer[c] # Null => c \in held \cup missed

(* A key is taken for down only if it is held, or repeats though it was    *)
(* released, or was released outside a game while another program had the  *)
(* keyboard: a focus event resets the state in a game only (Input.cpp 229) *)
DownIsHeld == InputKeyState \subseteq held \cup missed \cup away

=============================================================================
