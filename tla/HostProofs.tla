----------------------------- MODULE HostProofs -----------------------------
(***************************************************************************)
(* Theorems about one host: what Windows concludes from windows that are   *)
(* gone, and what Install leaves of its files and services.  The two share *)
(* no variable; names of Windows that Install has too begin with Windows.  *)
(***************************************************************************)
EXTENDS Windows, Install, TLAPS

(* Windows *)

\* Of what was launched unknown, the looks that found it running are counted,
\* and none that found it dead, or not at all, is before one of them.
FailureInv ==
    \A d \in Dir : launched[d] # "known" =>
        /\ d \in prev.found \cup look.found => looked[d] >= 1
        /\ d \in prev.found /\ (d \in look.found \/ seen[d] = 2) => looked[d] = 2
        /\ d \in look.found /\ d \in prev.names => d \in prev.found
        /\ Alive(d) => /\ d \in prev.names => d \in prev.found
                       /\ d \in look.names => d \in look.found

\* Once tmux is lost there is nothing, and what the agent sees of it is either
\* what there was or nothing at all.
LostInv ==
    \A d \in Dir : lost[d] = "lost" =>
        /\ \A x \in Dir : ~Open(x)
        /\ look = NoLook \/ d \in look.names \/ look.names = {}

-----------------------------------------------------------------------------

LEMMA BoundsNat ==
    /\ MaxEnds \in Nat /\ MaxAsks \in Nat
    /\ MaxLosses \in Nat /\ MaxCuts \in Nat
  BY WindowsAssumption

LEMMA WindowsTypeInit == WindowsInit => WindowsTypeOK
  <1> SUFFICES ASSUME WindowsInit
               PROVE  WindowsTypeOK
    OBVIOUS
  <1> USE WindowsAssumption, BoundsNat
  <1>1. window \in [Dir -> [Kind -> Nat]]
    BY DEF WindowsInit, NoWindow
  <1>2. step \in [Opener -> [at : {"idle", "check", "kill", "new", "settle"},
                             dir : Dir \cup {NoDir}]]
    BY DEF WindowsInit, NotOpening
  <1>3. \A p \in Opener : step[p].at = "idle" /\ step[p].dir = NoDir
    BY DEF WindowsInit, NotOpening
  <1>4. "keeper" \in Opener
    BY DEF Opener
  <1>5. \A d \in Dir : d \notin prev.names /\ seen[d] = 0
    BY DEF WindowsInit, NoLook
  <1>6. look.found \subseteq look.names /\ prev.found \subseteq prev.names
    BY DEF WindowsInit, NoLook
  <1>7. look = NoLook /\ prev = NoLook /\ waiting \in BOOLEAN
    BY DEF WindowsInit
  <1>11. seen \in [Dir -> 0..2]
    BY DEF WindowsInit
  <1>10. deactivated \subseteq Dir /\ todo \subseteq Listed
    BY DEF WindowsInit
  <1>8. ends \in 0..MaxEnds /\ asks \in 0..MaxAsks /\ losses \in 0..MaxLosses /\ cuts \in 0..MaxCuts
    BY DEF WindowsInit
  <1>9. /\ launched \in [Dir -> {"known", "fresh", "failed"}] /\ looked \in [Dir -> 0..2]
        /\ lost \in [Dir -> {"no", "lost", "passed"}]
    BY DEF WindowsInit
  <1> QED
    BY <1>1, <1>2, <1>3, <1>4, <1>5, <1>6, <1>7, <1>8, <1>9, <1>10, <1>11 DEF WindowsTypeOK

\* A step of an opener keeps the types of what the openers do.
StepOK ==
    /\ step \in [Opener -> [at : {"idle", "check", "kill", "new", "settle"},
                            dir : Dir \cup {NoDir}]]
    /\ \A p \in Opener : step[p].at = "idle" <=> step[p].dir = NoDir
    /\ step["keeper"].dir \in {Core, NoDir}

LEMMA StepsTyped ==
    ASSUME StepOK, NEW p \in Opener
    PROVE  /\ Ends(p) => StepOK'
           /\ \A at \in {"check", "kill", "new", "settle"} :
                 /\ step[p].at # "idle" /\ Goes(p, at) => StepOK'
                 /\ \A d \in Dir : (p = "keeper" => d = Core) /\ Begins(p, at, d) => StepOK'
  <1> USE WindowsAssumption, BoundsNat DEF StepOK
  <1>0. "keeper" \in Opener
    BY DEF Opener
  <1>1. ASSUME Ends(p)
        PROVE  StepOK'
    BY <1>0, <1>1 DEF Ends, NotOpening
  <1>2. ASSUME NEW at \in {"check", "kill", "new", "settle"}, step[p].at # "idle", Goes(p, at)
        PROVE  StepOK'
    BY <1>0, <1>2 DEF Goes
  <1>3. ASSUME NEW at \in {"check", "kill", "new", "settle"}, NEW d \in Dir,
               p = "keeper" => d = Core, Begins(p, at, d)
        PROVE  StepOK'
    <2> DEFINE new == [NotOpening EXCEPT !.at = at, !.dir = d]
    <2>1. /\ new \in [at : {"idle", "check", "kill", "new", "settle"},
                     dir : Dir \cup {NoDir}]
          /\ new.at = at /\ new.dir = d
      <3>1. NotOpening \in [at : {"idle", "check", "kill", "new", "settle"},
                            dir : Dir \cup {NoDir}]
        BY DEF NotOpening
      <3>2. new \in [at : {"idle", "check", "kill", "new", "settle"},
                     dir : Dir \cup {NoDir}]
        BY <3>1
      <3>3. new.at = at /\ new.dir = d
        BY DEF NotOpening
      <3> QED
        BY <3>2, <3>3
    <2>2. step' = [step EXCEPT ![p] = new]
      BY <1>3 DEF Begins
    <2> HIDE DEF new
    <2> QED
      BY <1>0, <1>3, <2>1, <2>2
  <1> QED
    BY <1>1, <1>2, <1>3

\* What the openers leave alone.
OthersOK ==
    /\ window \in [Dir -> [Kind -> Nat]]
    /\ deactivated \subseteq Dir /\ todo \subseteq Listed
    /\ ends \in 0..MaxEnds /\ asks \in 0..MaxAsks
    /\ losses \in 0..MaxLosses /\ cuts \in 0..MaxCuts
    /\ launched \in [Dir -> {"known", "fresh", "failed"}]
    /\ looked \in [Dir -> 0..2]
    /\ lost \in [Dir -> {"no", "lost", "passed"}]

WatchOK ==
    /\ look \in Looks \cup {NoLook} /\ look.found \subseteq look.names
    /\ prev \in Looks \cup {NoLook} /\ prev.found \subseteq prev.names
    /\ seen \in [Dir -> 0..2]
    /\ \A d \in Dir : seen[d] > 0 <=> d \in prev.names
    /\ waiting \in BOOLEAN

LEMMA TypeParts == WindowsTypeOK <=> StepOK /\ OthersOK /\ WatchOK
  BY DEF WindowsTypeOK, StepOK, OthersOK, WatchOK

\* Commands, launches and boot.
LEMMA LaunchTyped ==
    ASSUME StepOK, OthersOK,
           \/ \E o \in Operator, d \in Dir : AskOpen(o, d) \/ AskReopen(o, d)
           \/ \E p \in Opener : Launch(p)
           \/ BootStarts \/ \E d \in Listed : BootComesTo(d)
    PROVE  StepOK' /\ OthersOK'
  <1> USE WindowsAssumption, BoundsNat
  <1>0. "boot" \in Opener /\ Operator \subseteq Opener
    BY DEF Opener
  <1>1. ASSUME NEW o \in Operator, NEW d \in Dir, AskOpen(o, d)
        PROVE  StepOK' /\ OthersOK'
    <2>1. StepOK'
      BY <1>0, <1>1, StepsTyped DEF AskOpen
    <2> QED
      BY <1>1, <2>1 DEF AskOpen, Commanded, OthersOK, historyVars
  <1>2. ASSUME NEW o \in Operator, NEW d \in Dir, AskReopen(o, d)
        PROVE  StepOK' /\ OthersOK'
    <2>1. StepOK'
      BY <1>0, <1>2, StepsTyped DEF AskReopen
    <2> QED
      BY <1>2, <2>1 DEF AskReopen, Commanded, OthersOK, historyVars
  <1>3. ASSUME NEW p \in Opener, CheckOpen(p)
        PROVE  StepOK' /\ OthersOK'
    <2>1. StepOK'
      BY <1>3, StepsTyped DEF CheckOpen
    <2> QED
      BY <1>3, <2>1 DEF CheckOpen, OthersOK, historyVars, countVars
  <1>4. ASSUME NEW p \in Opener, KillOld(p)
        PROVE  StepOK' /\ OthersOK'
    <2>1. StepOK'
      BY <1>4, StepsTyped DEF KillOld
    <2>2. window' \in [Dir -> [Kind -> Nat]]
      <3>1. NoWindow \in [Kind -> Nat]
        BY DEF NoWindow
      <3> QED
        BY <1>4, <3>1 DEF KillOld, OthersOK
    <2> QED
      BY <1>4, <2>1, <2>2 DEF KillOld, OthersOK, historyVars, countVars
  <1>5. ASSUME NEW p \in Opener, NewWindow(p)
        PROVE  StepOK' /\ OthersOK'
    <2>1. StepOK'
      BY <1>5, StepsTyped DEF NewWindow
    <2>2. window' \in [Dir -> [Kind -> Nat]]
      BY <1>5 DEF NewWindow, OthersOK, One, Kind
    <2>3. launched' \in [Dir -> {"known", "fresh", "failed"}]
      BY <1>5 DEF NewWindow, OthersOK
    <2>5. looked' \in [Dir -> 0..2]
      <3>1. looked' = [looked EXCEPT ![step[p].dir] = 0]
        BY <1>5 DEF NewWindow
      <3>2. looked \in [Dir -> 0..2] /\ 0 \in 0..2
        BY DEF OthersOK
      <3> QED
        BY <3>1, <3>2
    <2>4. lost' \in [Dir -> {"no", "lost", "passed"}]
      BY <1>5 DEF NewWindow, OthersOK
    <2> QED
      BY <1>5, <2>1, <2>2, <2>3, <2>4, <2>5 DEF NewWindow, OthersOK, countVars
  <1>6. ASSUME NEW p \in Opener, Settle(p)
        PROVE  StepOK' /\ OthersOK'
    <2>1. StepOK'
      BY <1>6, StepsTyped DEF Settle
    <2>2. window' \in [Dir -> [Kind -> Nat]]
      BY <1>6 DEF Settle, OthersOK, One, NoWindow, Kind
    <2> QED
      BY <1>6, <2>1, <2>2 DEF Settle, OthersOK, historyVars, countVars
  <1>7. CASE BootStarts
    BY <1>7 DEF BootStarts, Commanded, StepOK, OthersOK, historyVars
  <1>8. ASSUME NEW d \in Listed, BootComesTo(d)
        PROVE  StepOK' /\ OthersOK'
    <2>1. StepOK'
      <3>1. CASE UNCHANGED step
        BY <3>1 DEF StepOK
      <3>2. CASE Begins("boot", "new", d)
        BY <1>0, <3>2, StepsTyped
      <3> QED
        BY <1>8, <3>1, <3>2 DEF BootComesTo
    <2> QED
      BY <1>8, <2>1 DEF BootComesTo, OthersOK, historyVars, countVars
  <1> QED
    BY <1>1, <1>2, <1>3, <1>4, <1>5, <1>6, <1>7, <1>8 DEF Launch

\* What happens to windows.
LEMMA EventTyped ==
    ASSUME OthersOK,
           \/ \E d \in Dir, k \in Kind : ClaudeExits(d, k) \/ Close(d, k)
           \/ TmuxDies
    PROVE  OthersOK'
  <1> USE WindowsAssumption, BoundsNat
  <1>1. ASSUME NEW d \in Dir, NEW k \in Kind, ClaudeExits(d, k)
        PROVE  OthersOK'
    <2>1. window' \in [Dir -> [Kind -> Nat]]
      BY <1>1 DEF ClaudeExits, OthersOK, Kind
    <2>2. launched' \in [Dir -> {"known", "fresh", "failed"}] /\ looked' \in [Dir -> 0..2]
      BY <1>1 DEF ClaudeExits, OthersOK
    <2> QED
      BY <1>1, <2>1, <2>2 DEF ClaudeExits, CountEnd, OthersOK
  <1>2. ASSUME NEW d \in Dir, NEW k \in Kind, Close(d, k)
        PROVE  OthersOK'
    <2>1. window' \in [Dir -> [Kind -> Nat]]
      BY <1>2 DEF Close, OthersOK
    <2>2. launched' \in [Dir -> {"known", "fresh", "failed"}] /\ looked' \in [Dir -> 0..2]
      BY <1>2 DEF Close, OthersOK
    <2> QED
      BY <1>2, <2>1, <2>2 DEF Close, CountEnd, OthersOK
  <1>3. CASE TmuxDies
    <2>1. window' \in [Dir -> [Kind -> Nat]]
      BY <1>3 DEF TmuxDies, OthersOK, NoWindow
    <2>2. launched' \in [Dir -> {"known", "fresh", "failed"}] /\ looked' \in [Dir -> 0..2]
      BY <1>3 DEF TmuxDies
    <2>3. lost' \in [Dir -> {"no", "lost", "passed"}]
      BY <1>3 DEF TmuxDies, OthersOK
    <2> QED
      BY <1>3, <2>1, <2>2, <2>3 DEF TmuxDies, OthersOK
  <1> QED
    BY <1>1, <1>2, <1>3

\* The agent's looks, and its end.
LEMMA WatchTyped ==
    ASSUME StepOK, OthersOK, WatchOK,
           TakeLook \/ Observe \/ BackoffPasses \/ WatcherRestarts \/ OutOfTime
    PROVE  StepOK' /\ OthersOK' /\ WatchOK'
  <1> USE WindowsAssumption, BoundsNat
  <1>0. "keeper" \in Opener
    BY DEF Opener
  <1>1. CASE TakeLook
    <2>1. StepOK'
      BY <1>0, <1>1 DEF TakeLook, StepOK
    <2>2. OthersOK'
      BY <1>1 DEF TakeLook, OthersOK, countVars
    <2>3. look' \in Looks /\ look'.found \subseteq look'.names
      BY <1>1 DEF TakeLook, Looks, Open
    <2> QED
      BY <1>1, <2>1, <2>2, <2>3 DEF TakeLook, WatchOK
  <1>2. CASE Observe
    <2>1. StepOK'
      <3>1. CASE UNCHANGED step
        BY <3>1 DEF StepOK
      <3>2. CASE Begins("keeper", "check", Core)
        BY <1>0, <3>2, StepsTyped
      <3> QED
        BY <1>2, <3>1, <3>2 DEF Observe
    <2>2. Gone(look) \subseteq prev.names
      BY DEF Gone
    <2>3. look \in Looks /\ prev' = look /\ look' = NoLook
      BY <1>2 DEF Observe, WatchOK
    <2>4. OthersOK'
      <3>1. prev.found \subseteq Dir
        BY DEF WatchOK, Looks, NoLook
      <3>2. deactivated' \subseteq Dir
        BY <1>2, <3>1 DEF Observe, OthersOK
      <3> QED
        BY <1>2, <3>2 DEF Observe, OthersOK, historyVars, countVars
    <2>5. seen' \in [Dir -> 0..2] /\ \A d \in Dir : seen'[d] > 0 <=> d \in look.names
      BY <1>2 DEF Observe, WatchOK
    <2>6. NoLook.found \subseteq NoLook.names
      BY DEF NoLook
    <2>7. waiting' \in BOOLEAN
      BY <1>2 DEF Observe, WatchOK
    <2> QED
      BY <2>1, <2>3, <2>4, <2>5, <2>6, <2>7 DEF WatchOK
  <1>3. CASE BackoffPasses
    BY <1>3 DEF BackoffPasses, StepOK, OthersOK, WatchOK, historyVars, countVars
  <1>4. CASE WatcherRestarts
    <2>1. StepOK'
      BY <1>0, <1>4 DEF WatcherRestarts, StepOK, NotOpening
    <2>2. OthersOK'
      BY <1>4 DEF WatcherRestarts, Cut, OthersOK, historyVars
    <2>3. seen' \in [Dir -> 0..2] /\ \A d \in Dir : ~(seen'[d] > 0)
      BY <1>4 DEF WatcherRestarts
    <2>4. NoLook.found \subseteq NoLook.names /\ \A d \in Dir : d \notin NoLook.names
      BY DEF NoLook
    <2> QED
      BY <1>4, <2>1, <2>2, <2>3, <2>4 DEF WatcherRestarts, WatchOK
  <1>5. CASE OutOfTime
    <2>1. StepOK'
      BY <1>0, <1>5, StepsTyped DEF OutOfTime
    <2> QED
      BY <1>5, <2>1 DEF OutOfTime, Cut, OthersOK, WatchOK, historyVars, watchVars
  <1> QED
    BY <1>1, <1>2, <1>3, <1>4, <1>5

LEMMA WindowsTypeNext ==
    ASSUME WindowsTypeOK, [WindowsNext]_windowsVars
    PROVE  WindowsTypeOK'
  <1> USE TypeParts
  <1>1. StepOK /\ OthersOK /\ WatchOK
    OBVIOUS
  <1>2. ASSUME \/ \E o \in Operator, d \in Dir : AskOpen(o, d) \/ AskReopen(o, d)
               \/ \E p \in Opener : Launch(p)
               \/ BootStarts \/ \E d \in Listed : BootComesTo(d)
        PROVE  WindowsTypeOK'
    <2>1. StepOK' /\ OthersOK'
      BY <1>1, <1>2, LaunchTyped
    <2>2. UNCHANGED watchVars
      BY <1>2 DEF AskOpen, AskReopen, Launch, CheckOpen, KillOld, NewWindow, Settle, BootStarts,
                  BootComesTo
    <2>3. WatchOK'
      BY <1>1, <2>2 DEF WatchOK, watchVars
    <2> QED
      BY <2>1, <2>3 DEF WindowsTypeOK, StepOK, OthersOK, WatchOK
  <1>3. ASSUME \/ \E d \in Dir, k \in Kind : ClaudeExits(d, k) \/ Close(d, k)
               \/ TmuxDies
        PROVE  WindowsTypeOK'
    <2>1. OthersOK'
      BY <1>1, <1>3, EventTyped
    <2>2. UNCHANGED <<step, watchVars>>
      BY <1>3 DEF ClaudeExits, Close, TmuxDies
    <2>3. StepOK' /\ WatchOK'
      BY <1>1, <2>2 DEF StepOK, WatchOK, watchVars
    <2> QED
      BY <2>1, <2>3 DEF WindowsTypeOK, StepOK, OthersOK, WatchOK
  <1>4. ASSUME TakeLook \/ Observe \/ BackoffPasses \/ WatcherRestarts \/ OutOfTime
        PROVE  WindowsTypeOK'
    <2>1. StepOK' /\ OthersOK' /\ WatchOK'
      BY <1>1, <1>4, WatchTyped
    <2> QED
      BY <2>1 DEF WindowsTypeOK, StepOK, OthersOK, WatchOK
  <1>5. CASE UNCHANGED windowsVars
    BY <1>5 DEF windowsVars, WindowsTypeOK, watchVars, countVars, historyVars
  <1> QED
    BY <1>2, <1>3, <1>4, <1>5 DEF WindowsNext

-----------------------------------------------------------------------------
(* A failed launch is not a close.                                         *)

LEMMA NoLookOfDir == \A d \in Dir : d \notin NoLook.names /\ d \notin NoLook.found
  BY WindowsAssumption DEF NoLook

LEMMA FailureInit == WindowsInit => FailureInv
  BY DEF WindowsInit, FailureInv

\* Where no look is taken or compared, and nothing of d runs that did not.
LEMMA FailureFrame ==
    ASSUME FailureInv, UNCHANGED <<look, prev, seen>>,
           \A d \in Dir : \/ launched'[d] = "known"
                         \/ /\ launched[d] # "known" /\ looked'[d] = looked[d]
                            /\ Alive(d)' => Alive(d)
    PROVE  FailureInv'
  <1> SUFFICES ASSUME NEW d \in Dir, launched'[d] # "known"
               PROVE  /\ d \in prev'.found \cup look'.found => looked'[d] >= 1
                      /\ d \in prev'.found /\ (d \in look'.found \/ seen'[d] = 2) => looked'[d] = 2
                      /\ d \in look'.found /\ d \in prev'.names => d \in prev'.found
                      /\ Alive(d)' => /\ d \in prev'.names => d \in prev'.found
                                      /\ d \in look'.names => d \in look'.found
    BY DEF FailureInv
  <1>1. launched[d] # "known" /\ looked'[d] = looked[d] /\ (Alive(d)' => Alive(d))
    OBVIOUS
  <1> QED
    BY <1>1 DEF FailureInv

LEMMA NewWindowKeeps ==
    ASSUME WindowsTypeOK, FailureInv, NEW p \in Opener, NewWindow(p)
    PROVE  FailureInv'
  <1> DEFINE d == step[p].dir
  <1>1. d \in Dir
    BY DEF NewWindow, WindowsTypeOK
  <1>2. /\ \A x \in Dir \ {d} : /\ window'[x] = window[x] /\ launched'[x] = launched[x]
                                /\ looked'[x] = looked[x]
        /\ UNCHANGED <<look, prev, seen>>
    BY <1>1 DEF NewWindow, WindowsTypeOK, watchVars
  <1>3. launched'[d] = "known" \/ d \notin prev.names \cup look.names
    BY <1>1 DEF NewWindow, WindowsTypeOK
  <1>4. prev.found \subseteq prev.names /\ look.found \subseteq look.names
    BY DEF WindowsTypeOK
  <1> HIDE DEF d
  <1> QED
    BY <1>2, <1>3, <1>4 DEF FailureInv, Alive

LEMMA ClosingKeeps ==
    ASSUME WindowsTypeOK, FailureInv,
           \/ \E p \in Opener : KillOld(p) \/ Settle(p)
           \/ \E d \in Dir, k \in Kind : ClaudeExits(d, k) \/ Close(d, k)
           \/ TmuxDies
    PROVE  FailureInv'
  <1>1. ASSUME NEW p \in Opener, KillOld(p) \/ Settle(p)
        PROVE  FailureInv'
    <2>1. \A x \in Dir : Alive(x)' => Alive(x)
      BY <1>1 DEF KillOld, Settle, WindowsTypeOK, Alive, NoWindow, One, Kind
    <2> QED
      BY <1>1, <2>1, FailureFrame DEF KillOld, Settle, watchVars, historyVars
  <1>2. ASSUME NEW d \in Dir, NEW k \in Kind, ClaudeExits(d, k) \/ Close(d, k)
        PROVE  FailureInv'
    <2>1. \A x \in Dir : Alive(x)' => Alive(x)
      BY <1>2 DEF ClaudeExits, Close, WindowsTypeOK, Alive, Kind
    <2>2. \A x \in Dir : \/ launched'[x] = "known"
                         \/ launched[x] # "known" /\ looked'[x] = looked[x]
      BY <1>2 DEF ClaudeExits, Close, WindowsTypeOK
    <2> QED
      BY <1>2, <2>1, <2>2, FailureFrame DEF ClaudeExits, Close, watchVars
  <1>3. CASE TmuxDies
    BY <1>3, FailureFrame DEF TmuxDies, watchVars
  <1> QED
    BY <1>1, <1>2, <1>3

LEMMA LookKeeps ==
    ASSUME WindowsTypeOK, FailureInv, TakeLook
    PROVE  FailureInv'
  <1>1. /\ look'.names = {d \in Dir : Open(d)} /\ look'.found = {d \in Dir : Alive(d)}
        /\ UNCHANGED <<window, prev, seen, launched>>
        /\ \A d \in Dir : looked'[d] =
              IF Alive(d) /\ launched[d] # "known" /\ looked[d] < 2 THEN looked[d] + 1
              ELSE looked[d]
    BY DEF TakeLook
  <1> SUFFICES ASSUME NEW d \in Dir, launched[d] # "known"
               PROVE  /\ d \in prev'.found \cup look'.found => looked'[d] >= 1
                      /\ d \in prev'.found /\ (d \in look'.found \/ seen'[d] = 2) => looked'[d] = 2
                      /\ d \in look'.found /\ d \in prev'.names => d \in prev'.found
                      /\ Alive(d)' => /\ d \in prev'.names => d \in prev'.found
                                      /\ d \in look'.names => d \in look'.found
    BY <1>1 DEF FailureInv
  <1>2. looked[d] \in 0..2 /\ (Alive(d)' <=> Alive(d))
    BY <1>1 DEF WindowsTypeOK, Alive
  <1>3. looked'[d] = IF d \in look'.found /\ looked[d] < 2 THEN looked[d] + 1 ELSE looked[d]
    BY <1>1
  <1>4. d \in prev.found \cup look.found => looked[d] >= 1
    BY DEF FailureInv
  <1>10. d \in prev.found /\ (d \in look.found \/ seen[d] = 2) => looked[d] = 2
    BY DEF FailureInv
  <1>12. ASSUME Alive(d), d \in prev.names
         PROVE  d \in prev.found
    BY <1>12 DEF FailureInv
  <1>5. d \in look'.found <=> Alive(d)
    BY <1>1
  <1>6. prev' = prev /\ seen' = seen
    BY <1>1
  <1>8. d \in prev'.found \cup look'.found => looked'[d] >= 1
    BY <1>2, <1>3, <1>4, <1>6
  <1>9. d \in prev'.found /\ (d \in look'.found \/ seen'[d] = 2) => looked'[d] = 2
    BY <1>2, <1>3, <1>4, <1>6, <1>10
  <1>13. ASSUME Alive(d), d \in prev'.names
         PROVE  d \in prev'.found
    BY <1>6, <1>12, <1>13
  <1>14. d \in look'.found /\ d \in prev'.names => d \in prev'.found
    BY <1>5, <1>13
  <1>15. Alive(d)' => /\ d \in prev'.names => d \in prev'.found
                      /\ d \in look'.names => d \in look'.found
    BY <1>2, <1>5, <1>13
  <1> QED
    BY <1>8, <1>9, <1>14, <1>15

LEMMA ObserveKeeps ==
    ASSUME WindowsTypeOK, FailureInv, Observe
    PROVE  FailureInv'
  <1>1. /\ prev' = look /\ look' = NoLook
        /\ UNCHANGED <<window, launched, looked>>
        /\ \A d \in Dir : seen'[d] = IF d \notin look.names THEN 0
                                    ELSE IF seen[d] = 2 THEN 2 ELSE seen[d] + 1
    BY DEF Observe, historyVars
  <1>2. look.found \subseteq look.names
    BY DEF WindowsTypeOK
  <1> SUFFICES ASSUME NEW d \in Dir, launched[d] # "known"
               PROVE  /\ d \in prev'.found \cup look'.found => looked'[d] >= 1
                      /\ d \in prev'.found /\ (d \in look'.found \/ seen'[d] = 2) => looked'[d] = 2
                      /\ d \in look'.found /\ d \in prev'.names => d \in prev'.found
                      /\ Alive(d)' => /\ d \in prev'.names => d \in prev'.found
                                      /\ d \in look'.names => d \in look'.found
    BY <1>1 DEF FailureInv
  <1>3. d \notin look'.found /\ d \notin look'.names
    BY <1>1, NoLookOfDir, WindowsAssumption DEF NoLook
  <1>4. (Alive(d)' <=> Alive(d)) /\ looked'[d] = looked[d]
    BY <1>1 DEF Alive
  <1>5. d \in look.found /\ seen'[d] = 2 => looked[d] = 2
    <2> SUFFICES ASSUME d \in look.found, seen'[d] = 2
                 PROVE  looked[d] = 2
      OBVIOUS
    <2>1. seen[d] \in 0..2 /\ seen[d] > 0
      BY <1>1, <1>2 DEF WindowsTypeOK
    <2>2. d \in prev.names
      BY <2>1 DEF WindowsTypeOK
    <2> QED
      BY <2>2 DEF FailureInv
  <1> QED
    BY <1>1, <1>3, <1>4, <1>5 DEF FailureInv

LEMMA RestartKeeps ==
    ASSUME WatcherRestarts
    PROVE  FailureInv'
  <1>1. /\ look' = NoLook /\ prev' = NoLook
        /\ \A d \in Dir : d \notin NoLook.names /\ d \notin NoLook.found
    BY WindowsAssumption DEF WatcherRestarts, NoLook
  <1> QED
    BY <1>1 DEF FailureInv

LEMMA FailureNext ==
    ASSUME WindowsTypeOK, FailureInv, [WindowsNext]_windowsVars
    PROVE  FailureInv'
  <1>1. CASE UNCHANGED <<window, look, prev, seen, launched, looked>>
    BY <1>1, FailureFrame DEF Alive
  <1>2. ASSUME NEW o \in Operator, NEW d \in Dir, AskOpen(o, d) \/ AskReopen(o, d)
        PROVE  FailureInv'
    BY <1>1, <1>2 DEF AskOpen, AskReopen, watchVars, historyVars
  <1>3. ASSUME NEW p \in Opener, CheckOpen(p)
        PROVE  FailureInv'
    BY <1>1, <1>3 DEF CheckOpen, watchVars, historyVars
  <1>4. ASSUME NEW d \in Listed, BootComesTo(d)
        PROVE  FailureInv'
    BY <1>1, <1>4 DEF BootComesTo, watchVars, historyVars
  <1>5. CASE BootStarts \/ BackoffPasses \/ OutOfTime \/ UNCHANGED windowsVars
    BY <1>1, <1>5 DEF BootStarts, BackoffPasses, OutOfTime, windowsVars, watchVars, historyVars
  <1> QED
    BY <1>2, <1>3, <1>4, <1>5, NewWindowKeeps, ClosingKeeps, LookKeeps, ObserveKeeps,
       RestartKeeps DEF WindowsNext, Launch

-----------------------------------------------------------------------------
(* A lost server is not a close.                                           *)

LEMMA LostInit == WindowsInit => LostInv
  BY DEF WindowsInit, LostInv

LEMMA LostNext ==
    ASSUME WindowsTypeOK, LostInv, [WindowsNext]_windowsVars
    PROVE  LostInv'
  <1> DEFINE Fewer == \A x \in Dir : Open(x)' => Open(x)
  <1>1. ASSUME UNCHANGED <<look, lost>>, Fewer
        PROVE  LostInv'
    BY <1>1 DEF LostInv
  <1>2. ASSUME UNCHANGED window
        PROVE  Fewer
    BY <1>2 DEF Open, Alive
  <1>3. ASSUME NEW o \in Operator, NEW d \in Dir, AskOpen(o, d) \/ AskReopen(o, d)
        PROVE  LostInv'
    BY <1>1, <1>2, <1>3 DEF AskOpen, AskReopen, watchVars, historyVars
  <1>4. ASSUME NEW p \in Opener, CheckOpen(p)
        PROVE  LostInv'
    BY <1>1, <1>2, <1>4 DEF CheckOpen, watchVars, historyVars
  <1>5. ASSUME NEW p \in Opener, KillOld(p)
        PROVE  LostInv'
    <2>1. PICK d \in Dir : d = step[p].dir
      BY <1>5 DEF KillOld, WindowsTypeOK
    <2>2. \/ UNCHANGED window
          \/ window' = [window EXCEPT ![d] = NoWindow]
      BY <1>5, <2>1 DEF KillOld
    <2>3. CASE UNCHANGED window
      BY <1>1, <1>2, <1>5, <2>3 DEF KillOld, watchVars, historyVars
    <2>4. CASE window' = [window EXCEPT ![d] = NoWindow]
      <3>1. window'[d] = NoWindow /\ \A x \in Dir \ {d} : window'[x] = window[x]
        BY <2>1, <2>4 DEF WindowsTypeOK
      <3>2. ~Open(d)'
        BY <3>1 DEF Open, Alive, NoWindow, Kind
      <3>3. Fewer
        BY <3>1, <3>2 DEF Open, Alive
      <3> QED
        BY <1>1, <1>5, <3>3 DEF KillOld, watchVars, historyVars
    <2> QED
      BY <2>2, <2>3, <2>4
  <1>6. ASSUME NEW p \in Opener, NewWindow(p)
        PROVE  LostInv'
    <2>1. \A x \in Dir : lost'[x] # "lost"
      BY <1>6 DEF NewWindow, WindowsTypeOK
    <2> QED
      BY <2>1 DEF LostInv
  <1>7. ASSUME NEW p \in Opener, Settle(p)
        PROVE  LostInv'
    <2>1. PICK d \in Dir : d = step[p].dir
      BY <1>7 DEF Settle, WindowsTypeOK
    <2>2. \/ window'[d] = window[d]
          \/ window[d] = One("dead") /\ window'[d] = NoWindow
          \/ window[d] = One("new") /\ window'[d] = One("up")
      BY <1>7, <2>1 DEF Settle, WindowsTypeOK
    <2>3. Open(d)' => Open(d)
      BY <2>2 DEF Open, Alive, One, NoWindow, Kind
    <2>4. \A x \in Dir \ {d} : window'[x] = window[x]
      BY <1>7, <2>1 DEF Settle, WindowsTypeOK
    <2>5. Fewer
      BY <2>3, <2>4 DEF Open, Alive
    <2> QED
      BY <1>1, <1>7, <2>5 DEF Settle, watchVars, historyVars
  <1>8. ASSUME NEW d \in Listed, BootComesTo(d)
        PROVE  LostInv'
    BY <1>1, <1>2, <1>8 DEF BootComesTo, watchVars, historyVars
  <1>9. CASE BootStarts \/ BackoffPasses \/ OutOfTime
    BY <1>1, <1>2, <1>9 DEF BootStarts, BackoffPasses, OutOfTime, watchVars, historyVars
  <1>10. CASE TakeLook
    <2>1. UNCHANGED <<window, lost>> /\ look'.names = {d \in Dir : Open(d)}
      BY <1>10 DEF TakeLook, historyVars
    <2> QED
      BY <1>2, <2>1 DEF LostInv
  <1>11. CASE Observe \/ WatcherRestarts
    <2>1. look' = NoLook /\ UNCHANGED <<window, lost>>
      BY <1>11 DEF Observe, WatcherRestarts, historyVars
    <2> QED
      BY <1>2, <2>1 DEF LostInv
  <1>12. ASSUME NEW d \in Dir, NEW k \in Kind, ClaudeExits(d, k) \/ Close(d, k)
         PROVE  LostInv'
    <2>1. Open(d)
      BY <1>12 DEF ClaudeExits, Close, Open, Alive, WindowsTypeOK, Kind
    <2>2. \A x \in Dir : lost[x] # "lost"
      BY <2>1 DEF LostInv
    <2> QED
      BY <1>12, <2>2 DEF ClaudeExits, Close, LostInv
  <1>13. CASE TmuxDies
    <2>1. UNCHANGED look /\ \A x \in Dir : ~Open(x)'
      BY <1>13 DEF TmuxDies, watchVars, Open, Alive, NoWindow, Kind
    <2>2. \A d \in Dir : lost'[d] = "lost" =>
              lost[d] = "lost" \/ look = NoLook \/ d \in look.names
      BY <1>13 DEF TmuxDies
    <2> QED
      BY <2>1, <2>2 DEF LostInv
  <1>14. CASE UNCHANGED windowsVars
    BY <1>1, <1>2, <1>14 DEF windowsVars, watchVars, historyVars
  <1> QED
    BY <1>3, <1>4, <1>5, <1>6, <1>7, <1>8, <1>9, <1>10, <1>11, <1>12, <1>13, <1>14
       DEF WindowsNext, Launch

-----------------------------------------------------------------------------
(* The theorems.                                                           *)

\* Only the agent's look at what has gone marks a folder.
LEMMA MarkedByObserve ==
    ASSUME WindowsTypeOK, [WindowsNext]_windowsVars, NEW d \in deactivated' \ deactivated
    PROVE  Observe /\ d \in Gone(look) /\ d \in prev.found
  <1>1. Observe
    BY DEF WindowsNext, windowsVars, AskOpen, AskReopen, Launch, CheckOpen, KillOld, NewWindow,
           Settle, BootStarts, BootComesTo, TakeLook, BackoffPasses, ClaudeExits, Close,
           TmuxDies, WatcherRestarts, OutOfTime
  <1> QED
    BY <1>1 DEF Observe

\* Every variable of the windows, their openers and the agent keeps its type.
THEOREM WindowsTypeCorrect == WindowsSpec => []WindowsTypeOK
  <1>1. WindowsTypeOK /\ [WindowsNext]_windowsVars => WindowsTypeOK'
    BY WindowsTypeNext
  <1> QED
    BY <1>1, WindowsTypeInit, PTL DEF WindowsSpec

\* For any folders, operators and bounds, and however often the agent looks: a
\* launch that failed is taken for a session closed on purpose only if two looks
\* found it running first.
THEOREM FailedLaunchStays == WindowsSpec => LaunchFailureIsNotClose
  <1> DEFINE Step == \A d \in deactivated' \ deactivated : launched[d] = "failed" => looked[d] = 2
  <1>1. WindowsTypeOK /\ FailureInv /\ [WindowsNext]_windowsVars => FailureInv'
    BY FailureNext
  <1>2. WindowsTypeOK /\ FailureInv /\ [WindowsNext]_windowsVars => [Step]_windowsVars
    <2> SUFFICES ASSUME WindowsTypeOK, FailureInv, [WindowsNext]_windowsVars,
                        NEW d \in deactivated' \ deactivated, launched[d] = "failed"
                 PROVE  looked[d] = 2
      OBVIOUS
    <2>1. Observe /\ d \in Gone(look) /\ d \in prev.found
      BY MarkedByObserve
    <2>2. d \in Dir
      BY WindowsTypeNext DEF WindowsTypeOK
    <2>3. seen[d] = 2
      BY <2>1, <2>2 DEF Gone, WindowsTypeOK
    <2> QED
      BY <2>1, <2>2, <2>3 DEF FailureInv
  <1> QED
    BY <1>1, <1>2, WindowsTypeInit, WindowsTypeNext, FailureInit, PTL
    DEF WindowsSpec, LaunchFailureIsNotClose

\* For any folders, operators and bounds: what went with the tmux server is not
\* taken for closed before another window is opened.
THEOREM LostTmuxStays == WindowsSpec => LostTmuxClosesNothing
  <1> DEFINE Step == \A d \in deactivated' \ deactivated : lost[d] # "lost"
  <1>1. WindowsTypeOK /\ LostInv /\ [WindowsNext]_windowsVars => LostInv'
    BY LostNext
  <1>2. WindowsTypeOK /\ LostInv /\ [WindowsNext]_windowsVars => [Step]_windowsVars
    <2> SUFFICES ASSUME WindowsTypeOK, LostInv, [WindowsNext]_windowsVars,
                        NEW d \in deactivated' \ deactivated, lost[d] = "lost"
                 PROVE  FALSE
      OBVIOUS
    <2>1. Observe /\ d \in Gone(look) /\ d \in prev.found
      BY MarkedByObserve
    <2>2. look # NoLook /\ look.names # {} /\ d \notin look.names /\ d \in prev.names
      BY <2>1 DEF Observe, Gone
    <2>3. d \in Dir
      BY WindowsTypeNext DEF WindowsTypeOK
    <2> QED
      BY <2>2, <2>3 DEF LostInv
  <1> QED
    BY <1>1, <1>2, WindowsTypeInit, WindowsTypeNext, LostInit, PTL
    DEF WindowsSpec, LostTmuxClosesNothing

-----------------------------------------------------------------------------
(* Install *)

LEMMA InstallBounds ==
    /\ FirstText \in Nat /\ MaxRuns \in Nat /\ MaxHand \in Nat /\ MaxFaults \in Nat
    /\ MaxTime \in Nat /\ MaxTime > 0
  BY InstallAssumption

LEMMA SetupSteps ==
    SetupStep = {"binary", "path", "env", "config", "node", "service", "boot", "caddy"}
  BY DEF SetupStep, Steps, Order

\* Where a step of setup comes; what is not a step of it comes after.
Place(s) ==
    CASE s = "begin" -> 0 [] s = "binary" -> 1 [] s = "path" -> 2 [] s = "env" -> 3
      [] s = "config" -> 4 [] s = "node" -> 5 [] s = "service" -> 6 [] s = "boot" -> 7
      [] s = "caddy" -> 8 [] OTHER -> 9

LEMMA PlaceOfStep ==
    /\ \A i \in Steps : Place(Order[i]) = i
    /\ \A s \in SetupStep : Place(s) \in Steps /\ Order[Place(s)] = s
  BY DEF Place, Steps, Order, SetupStep

LEMMA LeastStep ==
    ASSUME NEW S \in SUBSET Steps, S # {}
    PROVE  \E i \in S : \A k \in S : i <= k
  <1>1. CASE 1 \in S
    BY <1>1 DEF Steps
  <1>2. CASE 1 \notin S /\ 2 \in S
    BY <1>2 DEF Steps
  <1>3. CASE 1 \notin S /\ 2 \notin S /\ 3 \in S
    BY <1>3 DEF Steps
  <1>4. CASE 1 \notin S /\ 2 \notin S /\ 3 \notin S /\ 4 \in S
    BY <1>4 DEF Steps
  <1>5. CASE S \subseteq 5..8 /\ 5 \in S
    BY <1>5
  <1>6. CASE S \subseteq 6..8 /\ 6 \in S
    BY <1>6
  <1>7. CASE S \subseteq 7..8 /\ 7 \in S
    BY <1>7
  <1>8. CASE S \subseteq 8..8
    <2>1. PICK i \in S : TRUE
      OBVIOUS
    <2>2. i = 8 /\ \A k \in S : k = 8
      BY <1>8
    <2> QED
      BY <2>1, <2>2
  <1>9. S \subseteq 1..8
    BY DEF Steps
  <1> QED
    BY <1>1, <1>2, <1>3, <1>4, <1>5, <1>6, <1>7, <1>8, <1>9

\* Setup goes on with the next of the steps that were asked for.
LEMMA AfterGoesOn ==
    ASSUME NEW plan, NEW s \in SetupStep \cup {"begin"}
    PROVE  /\ After(plan, s) \in (SetupStep \cap plan.steps) \cup {"done"}
           /\ Place(s) < Place(After(plan, s))
           /\ \A u \in SetupStep \cap plan.steps :
                 Place(s) < Place(u) => Place(After(plan, s)) <= Place(u)
  <1> DEFINE later == {i \in Steps : Order[i] \in plan.steps
                                     /\ \A k \in Steps : Order[k] = s => k < i}
  <1>1. After(plan, s) = IF later = {} THEN "done"
                         ELSE Order[CHOOSE i \in later : \A k \in later : i <= k]
    BY DEF After
  <1>2. \A i \in Steps : i \in later <=> Order[i] \in plan.steps /\ Place(s) < i
    <2>1. CASE s = "begin"
      <3>1. Place(s) = 0 /\ \A k \in Steps : Order[k] # s
        BY <2>1 DEF Place, Steps, Order
      <3> QED
        BY <3>1 DEF Steps
    <2>2. CASE s \in SetupStep
      <3>1. \A k \in Steps : Order[k] = s <=> k = Place(s)
        BY <2>2, PlaceOfStep
      <3> QED
        BY <2>2, <3>1, PlaceOfStep
    <2> QED
      BY <2>1, <2>2
  <1>3. \A u \in SetupStep \cap plan.steps : Place(s) < Place(u) => Place(u) \in later
    BY <1>2, PlaceOfStep
  <1>4. CASE later = {}
    <2>1. After(plan, s) = "done" /\ Place("done") = 9 /\ Place(s) < 9
      BY <1>1, <1>4, SetupSteps DEF Place
    <2> QED
      BY <2>1, <1>3, <1>4
  <1>5. CASE later # {}
    <2> DEFINE i == CHOOSE j \in later : \A k \in later : j <= k
    <2>1. i \in later /\ \A k \in later : i <= k
      <3>1. \E j \in later : \A k \in later : j <= k
        BY <1>5, LeastStep
      <3> QED
        BY <3>1
    <2>2. After(plan, s) = Order[i] /\ i \in Steps
      BY <1>1, <1>5, <2>1
    <2> HIDE DEF i
    <2>3. Place(After(plan, s)) = i /\ After(plan, s) \in SetupStep
      BY <2>2, PlaceOfStep DEF SetupStep
    <2>4. Place(s) < i /\ Order[i] \in plan.steps
      BY <2>1, <2>2, <1>2
    <2>5. \A u \in SetupStep \cap plan.steps : Place(s) < Place(u) => i <= Place(u)
      BY <1>3, <2>1
    <2> QED
      BY <2>2, <2>3, <2>4, <2>5
  <1> QED
    BY <1>4, <1>5

\* What a build installs, and of which texts.
LEMMA TreesOf ==
    ASSUME NEW b \in Build
    PROVE  /\ Merged(b) \in [File -> Texts]
           /\ Trees(b)[1] = Merged(b)
           /\ Items(b) = {x \in Item : x[1] = 1 /\ Merged(b)[x[2]] # 0}
  <1>1. Merged(b) \in [File -> Texts]
    BY InstallAssumption, InstallBounds DEF Merged, Texts
  <1>2. Trees(b) = <<Merged(b)>> /\ DOMAIN Trees(b) = {1}
    BY DEF Trees
  <1> QED
    BY <1>1, <1>2 DEF Items

-----------------------------------------------------------------------------
(* The types, and what they rest on: where the operator's command and each *)
(* installer may be.                                                       *)

CommandKept ==
    /\ cmd.kind = "none" => cmd.step = "done"
    /\ cmd.kind = "setup" => /\ cmd.plan \in Plan /\ cmd.build \in Build
                             /\ cmd.step \in SetupStep \cup {"done"}
    /\ cmd.kind = "uninstall" => cmd.step \in {"units", "state", "done"}

Placed(i) ==
    /\ i.build = 0 => i = Idle
    /\ i.build # 0 => i.at # "idle" /\ i.left \subseteq Items(i.build)
    /\ i.at \in {"look", "backup", "write"} => i.item \in Items(i.build)

InstallersKept ==
    /\ \A p \in Installer : Placed(inst[p])
    /\ inst["setup"].build # 0 => /\ cmd.kind = "setup" /\ cmd.step = "config"
                                  /\ cmd.at = "files" /\ inst["setup"].build = cmd.build

UnitsKept ==
    cmd.kind = "setup" =>
       /\ cmd.procs \subseteq cmd.files
       /\ cmd.files # {} => \/ cmd.step = "service" /\ cmd.at = "units"
                            \/ cmd.step \in {"boot", "done"}
       /\ cmd.step # "done" => \A r \in cmd.files : unit[r] # 0
       /\ cmd.step = "service" /\ cmd.at = "units" => bin # 0

InstallTyped == TypeOK /\ CommandKept /\ InstallersKept /\ UnitsKept

LEMMA InstallTypedInit == Init => InstallTyped
  <1> SUFFICES ASSUME Init
               PROVE  InstallTyped
    OBVIOUS
  <1>1. NoCmd \in Command /\ NoCmd.kind = "none" /\ NoCmd.step = "done"
    BY InstallBounds DEF NoCmd, Command, Caddyfile
  <1>2. Idle \in Installation /\ Idle.build = 0 /\ Idle.at = "idle"
    BY InstallBounds DEF Idle, Installation, Texts, NoItem
  <1>3. TypeOK
    <2>1. /\ disk \in [File -> Texts] /\ time \in [File -> 0..MaxTime]
          /\ backup \in [File -> [1..MaxTime -> Texts]]
      BY InstallBounds DEF Init, Texts
    <2>2. caddy \in Caddyfile /\ clock \in 1..MaxTime
      BY InstallBounds DEF Init, Caddyfile
    <2>3. unit \in [Role -> Conf \cup {0}] /\ running \in [Role -> {Down}]
      BY DEF Init
    <2>4. runs \in 0..MaxRuns /\ hand \in 0..MaxHand /\ faults \in 0..MaxFaults
      BY InstallBounds DEF Init
    <2>5. {disturbed, churned, unheard} \subseteq BOOLEAN
      BY DEF Init
    <2>6. inst \in [Installer -> Installation] /\ inst["setup"] = Idle
      BY <1>2 DEF Init, Installer
    <2> QED
      BY <1>1, <2>1, <2>2, <2>3, <2>4, <2>5, <2>6 DEF Init, TypeOK
  <1>4. CommandKept /\ UnitsKept
    BY <1>1 DEF Init, CommandKept, UnitsKept
  <1>5. InstallersKept
    BY <1>2 DEF Init, InstallersKept, Installer, Placed
  <1> QED
    BY <1>3, <1>4, <1>5 DEF InstallTyped

\* The text an installer is to write.
LEMMA WantIsText ==
    ASSUME InstallTyped, NEW p \in Installer, inst[p].at \in {"look", "backup", "write"}
    PROVE  /\ inst[p].build \in Build /\ inst[p].item[2] \in File
           /\ Want(p) \in Texts /\ Want(p) = Merged(inst[p].build)[inst[p].item[2]]
  <1>1. inst[p] \in Installation /\ inst[p].item \in Items(inst[p].build)
    BY DEF InstallTyped, TypeOK, InstallersKept, Placed
  <1>2. inst[p].build \in Build
    <2>1. inst[p].build = 0 => inst[p].at = "idle"
      BY DEF InstallTyped, InstallersKept, Placed, Idle
    <2> QED
      BY <1>1, <2>1 DEF Installation
  <1>3. inst[p].item \in Item /\ inst[p].item[1] = 1
    BY <1>1, <1>2, TreesOf
  <1>4. inst[p].item[2] \in File
    BY <1>3 DEF Item
  <1> QED
    BY <1>2, <1>3, <1>4, TreesOf DEF Want

\* Which operations change what.
LEMMA ServicesChange ==
    ASSUME [Next]_vars
    PROVE  \/ UNCHANGED svcVars
           \/ \E r \in Role : WriteUnit(r) \/ LoadUnit(r) \/ LoadFails(r)
                             \/ StopUnit(r) \/ RemoveUnit(r)
           \/ AgentSwaps
           \/ \E r \in Role : Exits(r) \/ Returns(r)
  BY DEF Next, vars, Setup, Files, Uninstall, Others, RunSetup, StepFails, Interrupt,
         CheckBinary, CopyBinary, StepPath, StepEnv, StepNodeProject, Adds, StepConfig,
         NothingToBoot, CaddyStep, CaddyRead, CaddyAppend, CaddyValidate, CaddyRollback,
         NextFile, Look, Backup, Write, FilesDone, FileFails, RunUninstall, RemoveBinary,
         RemoveState, Edit, EditCaddyfile, Rename, AgentStages, Tick

LEMMA FilesChange ==
    ASSUME [Next]_vars
    PROVE  \/ UNCHANGED fileVars
           \/ \E p \in Installer : Backup(p) \/ Write(p)
           \/ \E f \in File : Edit(f)
  BY DEF Next, vars, Setup, Files, Uninstall, Others, RunSetup, StepFails, Interrupt,
         CheckBinary, CopyBinary, StepPath, StepEnv, StepNodeProject, Adds, StepConfig,
         WriteUnit, LoadUnit, LoadFails,
         NothingToBoot, CaddyStep, CaddyRead, CaddyAppend, CaddyValidate, CaddyRollback,
         NextFile, Look, FilesDone, FileFails, RunUninstall, StopUnit, RemoveUnit, RemoveBinary,
         RemoveState, EditCaddyfile, Rename, AgentStages, AgentSwaps, Exits, Returns, Tick

LEMMA BinariesChange ==
    ASSUME [Next]_vars
    PROVE  \/ UNCHANGED binVars
           \/ CopyBinary \/ RemoveBinary
           \/ \E r \in Role : LoadUnit(r) \/ LoadFails(r) \/ StopUnit(r)
           \/ \E b \in Build : AgentStages(b)
           \/ AgentSwaps
           \/ \E r \in Role : Exits(r) \/ Returns(r)
  BY DEF Next, vars, Setup, Files, Uninstall, Others, RunSetup, StepFails, Interrupt,
         CheckBinary, StepPath, StepEnv, StepNodeProject, Adds, StepConfig, WriteUnit,
         NothingToBoot, CaddyStep, CaddyRead, CaddyAppend, CaddyValidate, CaddyRollback,
         NextFile, Look, Backup, Write, FilesDone, FileFails, RunUninstall, RemoveUnit,
         RemoveState, Edit, EditCaddyfile, Rename, Tick

LEMMA InstallersChange ==
    ASSUME [Next]_vars
    PROVE  \/ UNCHANGED inst
           \/ StepFails \/ Interrupt \/ StepConfig \/ FileFails
           \/ \E p \in Installer : NextFile(p) \/ Look(p) \/ Backup(p) \/ Write(p)
                                  \/ FilesDone(p)
           \/ \E r \in Role : LoadUnit(r) \/ LoadFails(r) \/ StopUnit(r)
           \/ AgentSwaps
           \/ \E r \in Role : Exits(r) \/ Returns(r)
  BY DEF Next, vars, Setup, Files, Uninstall, Others, RunSetup,
         CheckBinary, CopyBinary, StepPath, StepEnv, StepNodeProject, Adds, WriteUnit,
         NothingToBoot, CaddyStep, CaddyRead, CaddyAppend, CaddyValidate, CaddyRollback,
         RunUninstall, RemoveUnit, RemoveBinary,
         RemoveState, Edit, EditCaddyfile, Rename, AgentStages, Tick

LEMMA CommandChanges ==
    ASSUME [Next]_vars
    PROVE  \/ UNCHANGED cmd
           \/ \E plan \in Plan, b \in Build : RunSetup(plan, b)
           \/ StepFails \/ Interrupt \/ CheckBinary \/ CopyBinary
           \/ StepPath \/ StepEnv \/ StepNodeProject \/ StepConfig
           \/ \E r \in Role : WriteUnit(r) \/ LoadUnit(r) \/ LoadFails(r)
                             \/ StopUnit(r) \/ RemoveUnit(r)
           \/ NothingToBoot \/ CaddyRead \/ CaddyAppend \/ CaddyValidate \/ CaddyRollback
           \/ FilesDone("setup")
           \/ \E what \in Removal : RunUninstall(what)
           \/ RemoveBinary \/ RemoveState
  BY DEF Next, vars, Setup, Files, Uninstall, Others, Installer, NextFile, Look, Backup, Write,
         FilesDone, FileFails, Edit, EditCaddyfile, Rename, AgentStages, AgentSwaps,
         Exits, Returns, Tick

LEMMA TypeOfHost ==
    ASSUME InstallTyped, [Next]_vars
    PROVE  /\ os' \in {"linux", "darwin"} /\ clock' \in 1..MaxTime /\ label' \in Label
           /\ own' \subseteq {"path", "env", "decided"} /\ project' \subseteq Label
           /\ caddy' \in Caddyfile
           /\ runs' \in 0..MaxRuns /\ hand' \in 0..MaxHand /\ faults' \in 0..MaxFaults
           /\ {disturbed, churned, unheard}' \subseteq BOOLEAN
  <1>1. os' \in {"linux", "darwin"} /\ clock' \in 1..MaxTime /\ label' \in Label
    <2>1. UNCHANGED hostVars \/ (\E l \in Label : Rename(l)) \/ Tick
      BY DEF Next, vars, Setup, Files, Uninstall, Others, RunSetup, StepFails, Interrupt,
         CheckBinary, CopyBinary, StepPath, StepEnv, StepNodeProject, Adds, StepConfig,
         WriteUnit, LoadUnit, LoadFails,
         NothingToBoot, CaddyStep, CaddyRead, CaddyAppend, CaddyValidate, CaddyRollback,
         NextFile, Look, Backup, Write, FilesDone, FileFails, RunUninstall, StopUnit, RemoveUnit,
         RemoveBinary, RemoveState, Edit, EditCaddyfile, AgentStages, AgentSwaps, Exits, Returns
    <2> QED
      BY <2>1, InstallBounds DEF InstallTyped, TypeOK, hostVars, Rename, Tick
  <1>2. own' \subseteq {"path", "env", "decided"} /\ project' \subseteq Label
    <2>1. \/ UNCHANGED ownVars \/ StepPath \/ StepEnv \/ StepNodeProject \/ RemoveState
          \/ \E l \in Label : Rename(l)
      BY DEF Next, vars, Setup, Files, Uninstall, Others, RunSetup, StepFails, Interrupt,
         CheckBinary, CopyBinary, StepConfig, WriteUnit, LoadUnit, LoadFails,
         NothingToBoot, CaddyStep, CaddyRead, CaddyAppend, CaddyValidate, CaddyRollback,
         NextFile, Look, Backup, Write, FilesDone, FileFails, RunUninstall, StopUnit, RemoveUnit,
         RemoveBinary, Edit, EditCaddyfile, AgentStages, AgentSwaps, Exits, Returns, Tick
    <2> QED
      BY <2>1 DEF InstallTyped, TypeOK, ownVars, StepPath, StepEnv, StepNodeProject, RemoveState,
         Rename
  <1>3. caddy' \in Caddyfile
    <2>1. UNCHANGED caddy \/ CaddyAppend \/ CaddyRollback \/ EditCaddyfile
      BY DEF Next, vars, Setup, Files, Uninstall, Others, RunSetup, StepFails, Interrupt,
         CheckBinary, CopyBinary, StepPath, StepEnv, StepNodeProject, Adds, StepConfig,
         WriteUnit, LoadUnit, LoadFails, NothingToBoot, CaddyRead, CaddyValidate,
         NextFile, Look, Backup, Write, FilesDone, FileFails, RunUninstall, StopUnit, RemoveUnit,
         RemoveBinary, RemoveState, Edit, Rename, AgentStages, AgentSwaps, Exits, Returns, Tick
    <2>2. cmd.read \in Caddyfile /\ caddy \in Caddyfile
      BY DEF InstallTyped, TypeOK, Command
    <2>3. CASE EditCaddyfile
      <3>1. hand < MaxHand /\ hand' = hand + 1 /\ hand \in 0..MaxHand
        BY <2>3 DEF EditCaddyfile, ByHand, InstallTyped, TypeOK
      <3>2. FirstText + hand' \in FirstText..(FirstText + MaxHand)
        BY <3>1, InstallBounds
      <3> QED
        BY <2>2, <2>3, <3>2 DEF EditCaddyfile, Caddyfile
    <2> QED
      BY <2>1, <2>2, <2>3 DEF CaddyAppend, CaddyRollback, Caddyfile
  <1>4. runs' \in 0..MaxRuns /\ hand' \in 0..MaxHand /\ faults' \in 0..MaxFaults
    <2>1. UNCHANGED hand \/ (hand < MaxHand /\ hand' = hand + 1)
      BY DEF Next, vars, boundVars, Setup, Files, Uninstall, Others, RunSetup, StepFails, Interrupt,
         CheckBinary, CopyBinary, StepPath, StepEnv, StepNodeProject, Adds, StepConfig,
         WriteUnit, LoadUnit, LoadFails,
         NothingToBoot, CaddyStep, CaddyRead, CaddyAppend, CaddyValidate, CaddyRollback,
         NextFile, Look, Backup, Write, FilesDone, FileFails, RunUninstall, StopUnit, RemoveUnit,
         RemoveBinary, RemoveState, Edit, EditCaddyfile, Rename, AgentStages, AgentSwaps,
         Exits, Returns, Tick, ByHand
    <2>2. UNCHANGED faults \/ Fault
      BY DEF Next, vars, boundVars, Setup, Files, Uninstall, Others, RunSetup, StepFails, Interrupt,
         CheckBinary, CopyBinary, StepPath, StepEnv, StepNodeProject, Adds, StepConfig,
         WriteUnit, LoadUnit, LoadFails,
         NothingToBoot, CaddyStep, CaddyRead, CaddyAppend, CaddyValidate, CaddyRollback,
         NextFile, Look, Backup, Write, FilesDone, FileFails, RunUninstall, StopUnit, RemoveUnit,
         RemoveBinary, RemoveState, Edit, EditCaddyfile, Rename, AgentStages, AgentSwaps,
         Exits, Returns, Tick
    <2>3. \/ UNCHANGED runs
          \/ \E plan \in Plan, b \in Build : RunSetup(plan, b)
          \/ \E what \in Removal : RunUninstall(what)
      BY DEF Next, vars, boundVars, Setup, Files, Uninstall, Others, StepFails, Interrupt,
         CheckBinary, CopyBinary, StepPath, StepEnv, StepNodeProject, Adds, StepConfig,
         WriteUnit, LoadUnit, LoadFails,
         NothingToBoot, CaddyStep, CaddyRead, CaddyAppend, CaddyValidate, CaddyRollback,
         NextFile, Look, Backup, Write, FilesDone, FileFails, StopUnit, RemoveUnit,
         RemoveBinary, RemoveState, Edit, EditCaddyfile, Rename, AgentStages, AgentSwaps,
         Exits, Returns, Tick
    <2>4. UNCHANGED runs \/ (runs < MaxRuns /\ runs' = runs + 1)
      <3>1. ASSUME NEW plan \in Plan, NEW b \in Build, RunSetup(plan, b)
            PROVE  runs < MaxRuns /\ runs' = runs + 1
        BY <3>1 DEF RunSetup
      <3>2. ASSUME NEW what \in Removal, RunUninstall(what)
            PROVE  runs < MaxRuns /\ runs' = runs + 1
        BY <3>2 DEF RunUninstall
      <3> QED
        BY <2>3, <3>1, <3>2
    <2> QED
      BY <2>1, <2>2, <2>4, InstallBounds DEF ByHand, Fault, InstallTyped, TypeOK
  <1>5. disturbed' \in BOOLEAN /\ churned' \in BOOLEAN /\ unheard' \in BOOLEAN
    <2>1. /\ disturbed' = disturbed \/ disturbed' = TRUE \/ disturbed' = FALSE
          /\ churned' = churned \/ churned' = (churned \/ (cmd.again /\ ~disturbed))
          /\ unheard' = unheard \/ unheard' = TRUE
      BY DEF Next, vars, Setup, Files, Uninstall, Others, RunSetup, StepFails, Interrupt,
         CheckBinary, CopyBinary, StepPath, StepEnv, StepNodeProject, Adds, StepConfig,
         WriteUnit, LoadUnit, LoadFails,
         NothingToBoot, CaddyStep, CaddyRead, CaddyAppend, CaddyValidate, CaddyRollback,
         NextFile, Look, Backup, Write, FilesDone, FileFails, RunUninstall, StopUnit, RemoveUnit,
         RemoveBinary, RemoveState, Edit, EditCaddyfile, Rename, AgentStages, AgentSwaps,
         Exits, Returns, Tick, Keeps, Changes, Disturbs, ByHand
    <2>2. disturbed \in BOOLEAN /\ churned \in BOOLEAN /\ unheard \in BOOLEAN
      BY DEF InstallTyped, TypeOK
    <2> QED
      BY <2>1, <2>2
  <1> QED
    BY <1>1, <1>2, <1>3, <1>4, <1>5

LEMMA TypeOfFiles ==
    ASSUME InstallTyped, [Next]_vars
    PROVE  /\ disk' \in [File -> Texts] /\ time' \in [File -> 0..MaxTime]
           /\ links' \subseteq File /\ backup' \in [File -> [1..MaxTime -> Texts]]
           /\ replaced' \subseteq File \X Texts /\ reused' \subseteq File
  <1>1. /\ disk \in [File -> Texts] /\ time \in [File -> 0..MaxTime]
        /\ links \subseteq File /\ backup \in [File -> [1..MaxTime -> Texts]]
        /\ replaced \subseteq File \X Texts /\ reused \subseteq File
        /\ clock \in 0..MaxTime /\ clock \in 1..MaxTime
    BY InstallBounds DEF InstallTyped, TypeOK
  <1>2. CASE UNCHANGED fileVars
    BY <1>1, <1>2 DEF fileVars
  <1>3. ASSUME NEW p \in Installer, Backup(p) \/ Write(p)
        PROVE  inst[p].item[2] \in File /\ Want(p) \in Texts /\ inst[p].old \in Texts
    <2>1. inst[p].at \in {"look", "backup", "write"}
      BY <1>3 DEF Backup, Write
    <2> QED
      BY <2>1, WantIsText DEF InstallTyped, TypeOK, Installation
  <1>4. ASSUME NEW p \in Installer, Backup(p)
        PROVE  /\ UNCHANGED <<disk, time, links, replaced>>
               /\ backup' \in [File -> [1..MaxTime -> Texts]] /\ reused' \subseteq File
    BY <1>1, <1>3, <1>4 DEF Backup, BackupTime
  <1>5. ASSUME NEW p \in Installer, Write(p)
        PROVE  /\ UNCHANGED <<backup, reused>>
               /\ disk' \in [File -> Texts] /\ time' \in [File -> 0..MaxTime]
               /\ links' \subseteq File /\ replaced' \subseteq File \X Texts
    <2>1. UNCHANGED <<backup, reused>> /\ disk' \in [File -> Texts]
      BY <1>1, <1>3, <1>5 DEF Write
    <2>2. time' \in [File -> 0..MaxTime] /\ links' \subseteq File
      BY <1>1, <1>3, <1>5 DEF Write
    <2>3. replaced' \subseteq File \X Texts
      <3>1. <<inst[p].item[2], inst[p].old>> \in File \X Texts
        BY <1>3, <1>5
      <3>2. replaced' \subseteq replaced \cup {<<inst[p].item[2], inst[p].old>>}
        BY <1>5 DEF Write
      <3> QED
        BY <1>1, <3>1, <3>2
    <2> QED
      BY <2>1, <2>2, <2>3
  <1>6. ASSUME NEW f \in File, Edit(f)
        PROVE  /\ UNCHANGED <<backup, replaced, reused>>
               /\ disk' \in [File -> Texts] /\ time' \in [File -> 0..MaxTime]
               /\ links' \subseteq File
    <2>1. hand < MaxHand /\ hand' = hand + 1 /\ hand \in 0..MaxHand
      BY <1>6 DEF Edit, ByHand, InstallTyped, TypeOK
    <2>2. FirstText + hand' \in Texts
      BY <2>1, InstallBounds DEF Texts
    <2> QED
      BY <1>1, <1>6, <2>2 DEF Edit
  <1> QED
    BY <1>1, <1>2, <1>4, <1>5, <1>6, FilesChange

\* A step of setup that ends, and one that goes on.
LEMMA StepDoneMakes ==
    ASSUME InstallTyped, NEW ok \in BOOLEAN, StepDone(ok),
           cmd.kind = "setup", cmd.step # "done"
    PROVE  /\ cmd' \in Command
           /\ cmd'.kind = "setup" /\ cmd'.plan = cmd.plan /\ cmd'.build = cmd.build
           /\ cmd'.again = cmd.again /\ cmd'.read = cmd.read
           /\ cmd'.step = After(cmd.plan, cmd.step) /\ cmd'.at = "start"
           /\ cmd'.failed = (cmd.failed \/ ~ok) /\ cmd'.files = {} /\ cmd'.procs = {}
           /\ cmd'.step \in (SetupStep \cap cmd.plan.steps) \cup {"done"}
           /\ cmd.step \in SetupStep /\ cmd.plan \in Plan /\ cmd.build \in Build
  <1>1. cmd \in Command /\ cmd.step \in SetupStep /\ cmd.plan \in Plan /\ cmd.build \in Build
    BY DEF InstallTyped, TypeOK, CommandKept
  <1>2. After(cmd.plan, cmd.step) \in (SetupStep \cap cmd.plan.steps) \cup {"done"}
    BY <1>1, AfterGoesOn
  <1> DEFINE done == After(cmd.plan, cmd.step)
             c == [cmd EXCEPT !.step = done, !.at = "start",
                              !.failed = @ \/ ~ok, !.files = {}, !.procs = {}]
  <1>3. cmd' = c
    BY DEF StepDone
  <1> HIDE DEF done
  <1>4. c \in Command
    BY <1>1, <1>2 DEF Command, done
  <1>5. /\ c.kind = cmd.kind /\ c.plan = cmd.plan /\ c.build = cmd.build
        /\ c.again = cmd.again /\ c.read = cmd.read /\ c.step = done /\ c.at = "start"
        /\ c.failed = (cmd.failed \/ ~ok) /\ c.files = {} /\ c.procs = {}
    BY <1>1 DEF Command
  <1> QED
    BY <1>1, <1>2, <1>3, <1>4, <1>5 DEF done

LEMMA GoesToMakes ==
    ASSUME InstallTyped, NEW at, GoesTo(at),
           at \in {"start", "copy", "files", "units", "append", "validate", "rollback"}
    PROVE  /\ cmd' \in Command
           /\ cmd'.kind = cmd.kind /\ cmd'.plan = cmd.plan /\ cmd'.build = cmd.build
           /\ cmd'.again = cmd.again /\ cmd'.read = cmd.read /\ cmd'.step = cmd.step
           /\ cmd'.at = at /\ cmd'.failed = cmd.failed
           /\ cmd'.files = cmd.files /\ cmd'.procs = cmd.procs
  BY DEF InstallTyped, TypeOK, Command, GoesTo

LEMMA RunSetupMakes ==
    ASSUME InstallTyped, NEW plan \in Plan, NEW b \in Build, RunSetup(plan, b)
    PROVE  /\ cmd' \in Command
           /\ cmd'.kind = "setup" /\ cmd'.plan = plan /\ cmd'.build = b
           /\ cmd'.again = (/\ cmd.kind = "setup" /\ ~cmd.failed /\ ~disturbed
                            /\ <<cmd.plan, cmd.build>> = <<plan, b>>)
           /\ cmd'.step = After(plan, "begin") /\ cmd'.at = "start"
           /\ ~cmd'.failed /\ cmd'.files = {} /\ cmd'.procs = {}
           /\ cmd'.step \in (SetupStep \cap plan.steps) \cup {"done"}
           /\ cmd.step = "done" /\ ~disturbed'
  <1> DEFINE again == /\ cmd.kind = "setup" /\ ~cmd.failed /\ ~disturbed
                      /\ <<cmd.plan, cmd.build>> = <<plan, b>>
             first == After(plan, "begin")
             c == [NoCmd EXCEPT !.kind = "setup", !.plan = plan, !.build = b,
                                !.step = first, !.again = again]
  <1>1. cmd' = c
    BY DEF RunSetup
  <1>2. first \in (SetupStep \cap plan.steps) \cup {"done"}
    BY AfterGoesOn
  <1>3. again \in BOOLEAN
    OBVIOUS
  <1> HIDE DEF first, again
  <1>4. /\ plan.steps \in SUBSET (SetupStep \cup {"all", "purge"}) /\ plan.roles \in SUBSET Role
        /\ plan.force \in BOOLEAN /\ plan.conf \in Conf \cup {0}
        /\ plan \in [steps : SUBSET (SetupStep \cup {"all", "purge"}), roles : SUBSET Role,
                     force : BOOLEAN, conf : Conf \cup {0}]
    BY InstallAssumption DEF Role
  <1>5. NoCmd \in Command
    BY InstallBounds DEF NoCmd, Command, Caddyfile
  <1>6. c \in Command
    BY <1>2, <1>3, <1>4, <1>5 DEF Command
  <1>7. /\ c.kind = "setup" /\ c.plan = plan /\ c.build = b /\ c.step = first /\ c.at = "start"
        /\ c.again = again /\ ~c.failed /\ c.files = {} /\ c.procs = {}
    BY DEF NoCmd
  <1> QED
    BY <1>1, <1>2, <1>6, <1>7 DEF RunSetup, first, again

LEMMA RunUninstallMakes ==
    ASSUME InstallTyped, NEW what \in Removal, RunUninstall(what)
    PROVE  /\ cmd' \in Command
           /\ cmd'.kind = "uninstall" /\ cmd'.plan.steps = what /\ cmd'.step = "units"
           /\ ~cmd'.failed /\ cmd'.files = {} /\ cmd'.procs = {} /\ ~cmd'.again
           /\ cmd.step = "done" /\ ~disturbed'
  <1>1. NoCmd.plan \in [steps : SUBSET (SetupStep \cup {"all", "purge"}), roles : SUBSET Role,
                        force : BOOLEAN, conf : Conf \cup {0}]
    BY DEF NoCmd
  <1> DEFINE c == [NoCmd EXCEPT !.kind = "uninstall", !.plan.steps = what, !.step = "units"]
             plan == [NoCmd.plan EXCEPT !.steps = what]
  <1>2. plan \in [steps : SUBSET (SetupStep \cup {"all", "purge"}), roles : SUBSET Role,
                  force : BOOLEAN, conf : Conf \cup {0}]
    BY <1>1, InstallAssumption
  <1>3. plan.steps = what
    BY <1>1
  <1>4. NoCmd \in Command
    BY InstallBounds DEF NoCmd, Command, Caddyfile
  <1>5. c = [NoCmd EXCEPT !.kind = "uninstall", !.plan = plan, !.step = "units"]
    BY DEF NoCmd
  <1> HIDE DEF plan
  <1>6. c \in Command /\ c.plan = plan
    BY <1>2, <1>4, <1>5 DEF Command
  <1>7. /\ c.kind = "uninstall" /\ c.step = "units" /\ ~c.failed
        /\ c.files = {} /\ c.procs = {} /\ ~c.again
    BY <1>5 DEF NoCmd
  <1> QED
    BY <1>3, <1>6, <1>7 DEF RunUninstall

-----------------------------------------------------------------------------
(* A step keeps the types.                                                 *)

LEMMA AgentEndsMakes ==
    ASSUME InstallTyped, AgentEnds
    PROVE  /\ inst' \in [Installer -> Installation] /\ inst'["setup"] = inst["setup"]
           /\ inst'["start"] = Idle /\ staged' = 0 /\ shaba' = shaba
  <1>1. Idle \in Installation
    BY InstallBounds DEF Idle, Installation, Texts, NoItem
  <1> QED
    BY <1>1 DEF AgentEnds, InstallTyped, TypeOK, Installer

LEMMA InstallsMakes ==
    ASSUME NEW b \in Build
    PROVE  /\ Installs(b) \in Installation /\ Installs(b).build = b /\ b # 0
           /\ Installs(b).at = "next" /\ Installs(b).left = Items(b)
           /\ Installs(b).item = NoItem /\ Installs(b).old = 0
  <1>1. Items(b) \subseteq Item
    BY TreesOf
  <1>2. Idle \in Installation /\ Idle.item = NoItem /\ Idle.old = 0
    BY InstallBounds DEF Idle, Installation, Texts, NoItem
  <1>3. b # 0
    BY InstallAssumption
  <1>4. Installs(b) \in Installation
    BY <1>1, <1>2 DEF Installs, Installation
  <1> QED
    BY <1>2, <1>3, <1>4 DEF Installs, Idle

LEMMA AgentStartsMakes ==
    ASSUME InstallTyped, NEW b \in Build, AgentStarts(b)
    PROVE  /\ inst' \in [Installer -> Installation] /\ inst'["setup"] = inst["setup"]
           /\ inst'["start"] = Installs(b) /\ staged' = 0 /\ shaba' \in {"link", "theirs"}
           /\ shaba \in {"link", "theirs"} => shaba' = shaba
  BY InstallsMakes DEF AgentStarts, InstallTyped, TypeOK, Installer, Linked

LEMMA LoadsWhat ==
    ASSUME InstallTyped, NEW r \in Role, LoadUnit(r)
    PROVE  /\ cmd.kind = "setup" /\ cmd.step \in {"service", "boot"}
           /\ bin \in Build /\ unit[r] \in Conf /\ r \in cmd.files
           /\ Restarted(r) \in [build : Build, conf : Conf]
           /\ Restarted(r) = running[r] \/ Restarted(r) = [build |-> bin, conf |-> unit[r]]
           /\ r # "boot" => Restarted(r) = [build |-> bin, conf |-> unit[r]]
           /\ (cmd.step = "service" /\ cmd.at = "units") \/ cmd.step = "boot"
  <1>1. /\ cmd.kind = "setup" /\ cmd.step \in {"service", "boot"} /\ r \in cmd.files
        /\ (cmd.step = "service" /\ cmd.at = "units") \/ cmd.step = "boot"
    BY DEF LoadUnit, AtUnits, AtStep
  <1>2. bin # 0
    BY DEF LoadUnit, AtUnits, AtStep, InstallTyped, UnitsKept
  <1>3. unit[r] # 0
    BY <1>1 DEF InstallTyped, UnitsKept
  <1>4. bin \in Build /\ unit[r] \in Conf
    BY <1>2, <1>3 DEF InstallTyped, TypeOK
  <1>5. running[r] # Down => running[r] \in [build : Build, conf : Conf]
    BY DEF InstallTyped, TypeOK
  <1> QED
    BY <1>1, <1>4, <1>5 DEF Restarted

LEMMA TypeOfServices ==
    ASSUME InstallTyped, [Next]_vars
    PROVE  /\ unit' \in [Role -> Conf \cup {0}]
           /\ running' \in [Role -> [build : Build, conf : Conf] \cup {Down}]
           /\ exited' \in [Role -> Conf \cup {0}]
  <1> DEFINE Ok == /\ unit' \in [Role -> Conf \cup {0}]
                   /\ running' \in [Role -> [build : Build, conf : Conf] \cup {Down}]
                   /\ exited' \in [Role -> Conf \cup {0}]
  <1>1. /\ unit \in [Role -> Conf \cup {0}] /\ exited \in [Role -> Conf \cup {0}]
        /\ running \in [Role -> [build : Build, conf : Conf] \cup {Down}]
        /\ running["node"] # Down => running["node"] \in [build : Build, conf : Conf]
        /\ staged # 0 => running["node"] # Down /\ staged \in Build
        /\ bin # 0 => bin \in Build
    BY DEF InstallTyped, TypeOK, Role
  <1>2. CASE UNCHANGED svcVars
    BY <1>1, <1>2 DEF svcVars
  <1>3. ASSUME NEW r \in Role, WriteUnit(r)
        PROVE  Ok
    <2>1. cmd.plan \in Plan
      BY <1>3 DEF WriteUnit, AtUnits, AtStep, InstallTyped, CommandKept
    <2>2. cmd.plan.conf \in Conf
      BY <2>1, InstallAssumption
    <2> QED
      BY <1>1, <1>3, <2>2 DEF WriteUnit, UnitText
  <1>4. ASSUME NEW r \in Role, LoadUnit(r)
        PROVE  Ok
    BY <1>1, <1>4, LoadsWhat DEF LoadUnit
  <1>5. ASSUME NEW r \in Role, LoadFails(r) \/ StopUnit(r)
        PROVE  Ok
    BY <1>1, <1>5 DEF LoadFails, StopUnit
  <1>6. ASSUME NEW r \in Role, RemoveUnit(r)
        PROVE  Ok
    BY <1>1, <1>6 DEF RemoveUnit
  <1>7. CASE AgentSwaps
    <2>1. UNCHANGED <<unit, exited>> /\ running["node"] # Down
      BY <1>1, <1>7 DEF AgentSwaps
    <2>2. running' = [running EXCEPT !["node"].build = staged] /\ staged \in Build
      BY <1>1, <1>7 DEF AgentSwaps
    <2> QED
      BY <1>1, <2>1, <2>2 DEF Role
  <1>8. ASSUME NEW r \in Role, Exits(r)
        PROVE  Ok
    <2>1. running[r].conf \in Conf
      BY <1>1, <1>8 DEF Exits
    <2> QED
      BY <1>1, <1>8, <2>1 DEF Exits
  <1>9. ASSUME NEW r \in Role, Returns(r)
        PROVE  Ok
    <2>1. bin \in Build /\ exited[r] \in Conf
      BY <1>1, <1>9 DEF Returns
    <2> QED
      BY <1>1, <1>9, <2>1 DEF Returns
  <1> QED
    BY <1>2, <1>3, <1>4, <1>5, <1>6, <1>7, <1>8, <1>9, ServicesChange

LEMMA TypeOfBinaries ==
    ASSUME InstallTyped, [Next]_vars
    PROVE  /\ {bin, staged}' \subseteq Build \cup {0} /\ shaba' \in {"none", "link", "theirs"}
           /\ staged' # 0 => running'["node"] # Down
  <1> DEFINE Ok == /\ {bin', staged'} \subseteq Build \cup {0}
                   /\ shaba' \in {"none", "link", "theirs"}
                   /\ staged' # 0 => running'["node"] # Down
  <1>1. /\ {bin, staged} \subseteq Build \cup {0} /\ shaba \in {"none", "link", "theirs"}
        /\ staged # 0 => running["node"] # Down
        /\ running \in [Role -> [build : Build, conf : Conf] \cup {Down}]
    BY DEF InstallTyped, TypeOK
  <1>2. CASE UNCHANGED binVars
    <2>1. CASE UNCHANGED svcVars
      BY <1>1, <1>2, <2>1 DEF binVars, svcVars
    <2>2. ASSUME NEW r \in Role, WriteUnit(r) \/ RemoveUnit(r)
          PROVE  Ok
      BY <1>1, <1>2, <2>2 DEF WriteUnit, RemoveUnit, binVars
    <2>3. ASSUME NEW r \in Role, LoadUnit(r) \/ LoadFails(r) \/ StopUnit(r)
          PROVE  Ok
      <3>1. \/ running' = running \/ staged' = 0
            \/ running' = [running EXCEPT ![r] = Down] /\ r # "node"
            \/ running' = [running EXCEPT ![r] = Restarted(r)] /\ r # "node"
        BY <2>3 DEF LoadUnit, LoadFails, StopUnit, AgentStarts, AgentEnds
      <3> QED
        BY <1>1, <1>2, <3>1 DEF binVars, Role
    <2>4. CASE AgentSwaps
      BY <1>1, <1>2, <2>4 DEF AgentSwaps, AgentStarts, binVars
    <2>5. ASSUME NEW r \in Role, Exits(r) \/ Returns(r)
          PROVE  Ok
      <3>1. \/ staged' = 0
            \/ /\ r # "node"
               /\ \E x : running' = [running EXCEPT ![r] = x]
        BY <2>5 DEF Exits, Returns, AgentStarts, AgentEnds
      <3> QED
        BY <1>1, <1>2, <3>1 DEF binVars, Role
    <2> QED
      BY <2>1, <2>2, <2>3, <2>4, <2>5, ServicesChange
  <1>3. CASE CopyBinary
    <2>1. cmd.build \in Build
      BY <1>3 DEF CopyBinary, AtStep, InstallTyped, CommandKept
    <2> QED
      BY <1>1, <1>3, <2>1 DEF CopyBinary, Linked, svcVars
  <1>4. CASE RemoveBinary
    BY <1>1, <1>4 DEF RemoveBinary, svcVars
  <1>5. ASSUME NEW r \in Role, LoadUnit(r)
        PROVE  Ok
    <2>1. UNCHANGED bin
      BY <1>5 DEF LoadUnit
    <2>2. CASE r = "node"
      <3>1. staged' = 0 /\ shaba' \in {"link", "theirs"}
        BY <1>5, <2>2, LoadsWhat, AgentStartsMakes DEF LoadUnit
      <3> QED
        BY <1>1, <2>1, <3>1
    <2>3. CASE r # "node"
      <3>1. UNCHANGED <<staged, shaba>> /\ running'["node"] = running["node"]
        BY <1>1, <1>5, <2>3 DEF LoadUnit, Role
      <3> QED
        BY <1>1, <2>1, <3>1
    <2> QED
      BY <2>2, <2>3
  <1>6. ASSUME NEW r \in Role, LoadFails(r) \/ StopUnit(r)
        PROVE  Ok
    <2>1. UNCHANGED bin /\ UNCHANGED shaba
      BY <1>6 DEF LoadFails, StopUnit, AgentEnds
    <2>2. CASE UNCHANGED <<running, staged>>
      BY <1>1, <2>1, <2>2
    <2>3. CASE r = "node" /\ staged' = 0
      BY <1>1, <2>1, <2>3
    <2>4. CASE r # "node" /\ UNCHANGED staged /\ running' = [running EXCEPT ![r] = Down]
      BY <1>1, <2>1, <2>4 DEF Role
    <2> QED
      BY <1>6, <2>2, <2>3, <2>4 DEF LoadFails, StopUnit, AgentEnds
  <1>7. ASSUME NEW b \in Build, AgentStages(b)
        PROVE  Ok
    BY <1>1, <1>7 DEF AgentStages, svcVars
  <1>8. CASE AgentSwaps
    <2>1. staged \in Build
      BY <1>1, <1>8 DEF AgentSwaps
    <2> QED
      BY <1>1, <1>8, <2>1, AgentStartsMakes DEF AgentSwaps
  <1>9. ASSUME NEW r \in Role, Exits(r)
        PROVE  Ok
    <2>1. UNCHANGED <<bin, shaba>>
      BY <1>9 DEF Exits, AgentEnds
    <2>2. CASE r = "node"
      BY <1>1, <1>9, <2>1, <2>2 DEF Exits, AgentEnds
    <2>3. CASE r # "node"
      <3>1. UNCHANGED staged /\ running'["node"] = running["node"]
        BY <1>1, <1>9, <2>3 DEF Exits, Role
      <3> QED
        BY <1>1, <2>1, <3>1
    <2> QED
      BY <2>2, <2>3
  <1>10. ASSUME NEW r \in Role, Returns(r)
         PROVE  Ok
    <2>1. UNCHANGED bin /\ bin \in Build
      BY <1>1, <1>10 DEF Returns
    <2>2. CASE r = "node"
      <3>1. staged' = 0 /\ shaba' \in {"link", "theirs"}
        BY <1>10, <2>1, <2>2, AgentStartsMakes DEF Returns
      <3> QED
        BY <1>1, <2>1, <3>1
    <2>3. CASE r # "node"
      <3>1. UNCHANGED <<staged, shaba>> /\ running'["node"] = running["node"]
        BY <1>1, <1>10, <2>3 DEF Returns, Role
      <3> QED
        BY <1>1, <2>1, <3>1
    <2> QED
      BY <2>2, <2>3
  <1> QED
    BY <1>2, <1>3, <1>4, <1>5, <1>6, <1>7, <1>8, <1>9, <1>10, BinariesChange

LEMMA NextFileMakes ==
    ASSUME InstallTyped, NEW p \in Installer, NextFile(p)
    PROVE  \E x \in inst[p].left, kept \in BOOLEAN :
              /\ inst'[p].left = inst[p].left \ {x}
              /\ inst'[p].item = IF kept THEN NoItem ELSE x
              /\ inst'[p].at = IF kept THEN "next" ELSE "look"
              /\ p = "setup" => ~kept
  <1>1. PICK x \in inst[p].left, kept \in BOOLEAN :
           /\ inst' = [inst EXCEPT ![p].left = @ \ {x},
                                   ![p].item = IF kept THEN NoItem ELSE x,
                                   ![p].at = IF kept THEN "next" ELSE "look"]
           /\ p = "setup" => ~kept
    BY DEF NextFile
  <1>2. /\ inst'[p].left = inst[p].left \ {x}
        /\ inst'[p].item = IF kept THEN NoItem ELSE x
        /\ inst'[p].at = IF kept THEN "next" ELSE "look"
    BY <1>1 DEF InstallTyped, TypeOK, Installation
  <1> QED
    BY <1>1, <1>2

LEMMA LookMakes ==
    ASSUME InstallTyped, NEW p \in Installer, Look(p)
    PROVE  /\ inst'[p].old = disk[inst[p].item[2]] /\ inst'[p].item = inst[p].item
           /\ inst'[p].left = inst[p].left
           /\ inst'[p].at = IF inst[p].item[2] \in links \/ disk[inst[p].item[2]] = Want(p)
                            THEN "next"
                            ELSE IF disk[inst[p].item[2]] = 0 THEN "write" ELSE "backup"
  <1> DEFINE f == inst[p].item[2]
             at == IF f \in links \/ disk[f] = Want(p) THEN "next"
                   ELSE IF disk[f] = 0 THEN "write" ELSE "backup"
  <1>1. inst' = [inst EXCEPT ![p].old = disk[f], ![p].at = at]
    BY DEF Look
  <1> HIDE DEF at
  <1>2. /\ inst'[p].old = disk[f] /\ inst'[p].item = inst[p].item
        /\ inst'[p].left = inst[p].left /\ inst'[p].at = at
    BY <1>1 DEF InstallTyped, TypeOK, Installation
  <1> QED
    BY <1>2 DEF at

\* A step of an installer leaves it where it can go on from.
LEMMA InstallerMoves ==
    ASSUME InstallTyped, NEW p \in Installer,
           NextFile(p) \/ Look(p) \/ Backup(p) \/ Write(p)
    PROVE  /\ inst' \in [Installer -> Installation] /\ inst'[p].build = inst[p].build
           /\ Placed(inst'[p]) /\ \A q \in Installer \ {p} : inst'[q] = inst[q]
           /\ inst[p].build \in Build
  <1>1. inst \in [Installer -> Installation] /\ inst[p] \in Installation /\ Placed(inst[p])
    BY DEF InstallTyped, TypeOK, InstallersKept
  <1>2. inst[p].at # "idle"
    BY DEF NextFile, Look, Backup, Write
  <1>3. inst[p].build # 0 /\ inst[p].build \in Build
    BY <1>1, <1>2 DEF Placed, Idle, Installation
  <1>4. inst[p].left \subseteq Items(inst[p].build) /\ Items(inst[p].build) \subseteq Item
    BY <1>1, <1>3, TreesOf DEF Placed
  <1>5. CASE NextFile(p)
    <2>1. PICK x \in inst[p].left, item \in Item \cup {NoItem}, at \in {"next", "look"} :
             /\ inst' = [inst EXCEPT ![p].left = @ \ {x}, ![p].item = item, ![p].at = at]
             /\ at = "look" => item = x
      <3>1. PICK x \in inst[p].left, kept \in BOOLEAN :
               inst' = [inst EXCEPT ![p].left = @ \ {x},
                                    ![p].item = IF kept THEN NoItem ELSE x,
                                    ![p].at = IF kept THEN "next" ELSE "look"]
        BY <1>5 DEF NextFile
      <3>2. x \in Item
        BY <1>4
      <3>3. CASE kept
        BY <3>1, <3>3
      <3>4. CASE ~kept
        BY <3>1, <3>2, <3>4
      <3> QED
        BY <3>3, <3>4
    <2>2. x \in Item /\ x \in Items(inst[p].build)
      BY <1>4
    <2>3. inst' \in [Installer -> Installation] /\ \A q \in Installer \ {p} : inst'[q] = inst[q]
      BY <1>1, <2>1, <2>2 DEF Installation
    <2>4. /\ inst'[p].build = inst[p].build /\ inst'[p].left \subseteq inst[p].left
          /\ inst'[p].at \in {"next", "look"} /\ (inst'[p].at = "look" => inst'[p].item = x)
      BY <1>1, <2>1 DEF Installation
    <2> QED
      BY <1>3, <1>4, <2>2, <2>3, <2>4 DEF Placed
  <1>6. CASE Look(p)
    <2>1. inst[p].item[2] \in File /\ inst[p].item \in Items(inst[p].build)
      BY <1>1, <1>6, WantIsText DEF Look, Placed
    <2>2. disk[inst[p].item[2]] \in Texts
      BY <2>1 DEF InstallTyped, TypeOK
    <2>3. PICK at \in {"next", "write", "backup"} :
             inst' = [inst EXCEPT ![p].old = disk[inst[p].item[2]], ![p].at = at]
      BY <1>6 DEF Look
    <2>4. inst' \in [Installer -> Installation] /\ \A q \in Installer \ {p} : inst'[q] = inst[q]
      BY <1>1, <2>2, <2>3 DEF Installation
    <2>5. /\ inst'[p].build = inst[p].build /\ inst'[p].left = inst[p].left
          /\ inst'[p].item = inst[p].item /\ inst'[p].at = at
      BY <1>1, <2>3 DEF Installation
    <2> QED
      BY <1>3, <1>4, <2>1, <2>4, <2>5 DEF Placed
  <1>7. CASE Backup(p) \/ Write(p)
    <2>1. inst[p].item \in Items(inst[p].build)
      BY <1>1, <1>7 DEF Backup, Write, Placed
    <2>2. PICK at \in {"next", "write"} : inst' = [inst EXCEPT ![p].at = at]
      BY <1>7 DEF Backup, Write
    <2>3. inst' \in [Installer -> Installation] /\ \A q \in Installer \ {p} : inst'[q] = inst[q]
      BY <1>1, <2>2 DEF Installation
    <2>4. /\ inst'[p].build = inst[p].build /\ inst'[p].left = inst[p].left
          /\ inst'[p].item = inst[p].item /\ inst'[p].at = at
      BY <1>1, <2>2 DEF Installation
    <2> QED
      BY <1>3, <1>4, <2>1, <2>3, <2>4 DEF Placed
  <1> QED
    BY <1>5, <1>6, <1>7

LEMMA PlacedOnes ==
    /\ Idle \in Installation /\ Placed(Idle) /\ Idle.build = 0
    /\ \A b \in Build : Installs(b) \in Installation /\ Placed(Installs(b)) /\ Installs(b).build = b
  <1>1. Idle \in Installation /\ Placed(Idle) /\ Idle.build = 0
    BY InstallBounds DEF Idle, Installation, Texts, NoItem, Placed
  <1>2. ASSUME NEW b \in Build
        PROVE  Installs(b) \in Installation /\ Placed(Installs(b)) /\ Installs(b).build = b
    BY InstallsMakes DEF Placed
  <1> QED
    BY <1>1, <1>2

LEMMA InstallersGoOn ==
    ASSUME InstallTyped, [Next]_vars
    PROVE  /\ inst' \in [Installer -> Installation] /\ \A p \in Installer : Placed(inst'[p])
           /\ inst'["setup"].build \in {0, inst["setup"].build} \/ StepConfig
  <1> DEFINE Ok == /\ inst' \in [Installer -> Installation]
                   /\ \A p \in Installer : Placed(inst'[p])
                   /\ inst'["setup"].build \in {0, inst["setup"].build} \/ StepConfig
  <1>1. inst \in [Installer -> Installation] /\ \A p \in Installer : Placed(inst[p])
    BY DEF InstallTyped, TypeOK, InstallersKept
  <1>2. CASE UNCHANGED inst
    BY <1>1, <1>2
  <1>3. ASSUME NEW p \in Installer, inst' = [inst EXCEPT ![p] = Idle]
        PROVE  Ok
    BY <1>1, <1>3, PlacedOnes DEF Installer
  <1>4. ASSUME NEW b \in Build, inst' = [inst EXCEPT !["start"] = Installs(b)]
        PROVE  Ok
    BY <1>1, <1>4, PlacedOnes DEF Installer
  <1>5. CASE StepFails \/ Interrupt
    BY <1>3, <1>5 DEF StepFails, Interrupt, Installer
  <1>6. CASE StepConfig
    <2>1. cmd.build \in Build
      BY <1>6 DEF StepConfig, AtStep, InstallTyped, CommandKept
    <2> QED
      BY <1>1, <1>6, <2>1, PlacedOnes DEF StepConfig, Installer
  <1>7. CASE FileFails
    <2>1. Placed(inst["start"]) /\ inst["start"] \in Installation
      BY <1>1 DEF Installer
    <2>2. inst' \in [Installer -> Installation] /\ inst'["setup"] = inst["setup"]
      BY <1>1, <1>7 DEF FileFails, Installer, Installation
    <2>3. /\ inst'["start"].at = "next" /\ inst'["start"].build = inst["start"].build
          /\ inst'["start"].left = inst["start"].left
      BY <1>1, <1>7, <2>1 DEF FileFails, Installer, Installation
    <2>4. inst["start"].build # 0
      BY <1>7, <2>1 DEF FileFails, Placed, Idle
    <2>5. Placed(inst'["start"])
      BY <2>1, <2>3, <2>4 DEF Placed
    <2> QED
      BY <1>1, <2>2, <2>5 DEF Installer
  <1>8. ASSUME NEW p \in Installer, NextFile(p) \/ Look(p) \/ Backup(p) \/ Write(p)
        PROVE  Ok
    <2>1. /\ inst' \in [Installer -> Installation] /\ inst'[p].build = inst[p].build
          /\ Placed(inst'[p]) /\ \A q \in Installer \ {p} : inst'[q] = inst[q]
      BY <1>8, InstallerMoves
    <2>2. inst'["setup"].build = inst["setup"].build
      BY <2>1 DEF Installer
    <2>3. \A q \in Installer : Placed(inst'[q])
      BY <1>1, <2>1
    <2> QED
      BY <2>1, <2>2, <2>3
  <1>9. ASSUME NEW p \in Installer, FilesDone(p)
        PROVE  Ok
    BY <1>3, <1>9 DEF FilesDone
  <1>10. ASSUME NEW r \in Role, LoadUnit(r)
         PROVE  Ok
    BY <1>2, <1>4, <1>10, LoadsWhat DEF LoadUnit, AgentStarts
  <1>11. ASSUME NEW r \in Role, LoadFails(r) \/ StopUnit(r)
         PROVE  Ok
    BY <1>2, <1>3, <1>11 DEF LoadFails, StopUnit, AgentEnds, Installer
  <1>12. CASE AgentSwaps
    <2>1. staged \in Build
      BY <1>12 DEF AgentSwaps, InstallTyped, TypeOK
    <2> QED
      BY <1>4, <1>12, <2>1 DEF AgentSwaps, AgentStarts
  <1>13. ASSUME NEW r \in Role, Exits(r) \/ Returns(r)
         PROVE  Ok
    <2>1. bin = 0 \/ bin \in Build
      BY DEF InstallTyped, TypeOK
    <2> QED
      BY <1>2, <1>3, <1>4, <1>13, <2>1 DEF Exits, Returns, AgentStarts, AgentEnds, Installer
  <1> QED
    BY <1>2, <1>5, <1>6, <1>7, <1>8, <1>9, <1>10, <1>11, <1>12, <1>13, InstallersChange

\* While setup installs files its command stays where it is.
LEMMA FilesHoldCommand ==
    ASSUME InstallTyped, [Next]_vars, inst["setup"].build # 0
    PROVE  UNCHANGED cmd \/ inst'["setup"] = Idle
  <1>1. /\ cmd.kind = "setup" /\ cmd.step = "config" /\ cmd.at = "files"
        /\ inst \in [Installer -> Installation] /\ "setup" \in Installer
    BY DEF InstallTyped, InstallersKept, TypeOK, Installer
  <1>2. CASE StepFails \/ Interrupt \/ FilesDone("setup")
    BY <1>1, <1>2 DEF StepFails, Interrupt, FilesDone
  <1>3. ASSUME NEW plan \in Plan, NEW b \in Build
        PROVE  ~RunSetup(plan, b)
    BY <1>1 DEF RunSetup
  <1>4. ASSUME NEW what \in Removal
        PROVE  ~RunUninstall(what)
    BY <1>1 DEF RunUninstall
  <1>5. ~CheckBinary /\ ~CopyBinary /\ ~StepPath /\ ~StepEnv /\ ~StepNodeProject /\ ~StepConfig
    BY <1>1 DEF CheckBinary, CopyBinary, StepPath, StepEnv, StepNodeProject, StepConfig, Adds,
                AtStep
  <1>6. ASSUME NEW r \in Role
        PROVE  ~WriteUnit(r) /\ ~LoadUnit(r) /\ ~LoadFails(r) /\ ~StopUnit(r) /\ ~RemoveUnit(r)
    BY <1>1 DEF WriteUnit, LoadUnit, LoadFails, StopUnit, RemoveUnit, AtUnits, AtStep
  <1>7. ~NothingToBoot /\ ~CaddyRead /\ ~CaddyAppend /\ ~CaddyValidate /\ ~CaddyRollback
    BY <1>1 DEF NothingToBoot, CaddyRead, CaddyAppend, CaddyValidate, CaddyRollback, CaddyStep,
                AtStep
  <1>8. ~RemoveBinary /\ ~RemoveState
    BY <1>1 DEF RemoveBinary, RemoveState
  <1> QED
    BY <1>2, <1>3, <1>4, <1>5, <1>6, <1>7, <1>8, CommandChanges

LEMMA UnitsStay ==
    ASSUME InstallTyped, [Next]_vars, cmd.kind = "setup"
    PROVE  /\ \A r \in Role : ~StopUnit(r) /\ ~RemoveUnit(r)
           /\ ~RemoveBinary /\ ~RemoveState
           /\ UNCHANGED unit \/ \E r \in Role : WriteUnit(r)
           /\ bin # 0 => bin' # 0
  <1>1. cmd.step \in SetupStep \cup {"done"} /\ cmd.step # "units" /\ cmd.step # "state"
    BY SetupSteps DEF InstallTyped, CommandKept
  <1>2. (\A r \in Role : ~StopUnit(r) /\ ~RemoveUnit(r)) /\ ~RemoveBinary /\ ~RemoveState
    BY <1>1 DEF StopUnit, RemoveUnit, RemoveBinary, RemoveState
  <1>3. UNCHANGED unit \/ \E r \in Role : WriteUnit(r)
    BY <1>2, ServicesChange DEF svcVars, LoadUnit, LoadFails, AgentSwaps, Exits, Returns
  <1>4. ASSUME CopyBinary
        PROVE  bin' # 0
    BY <1>4, InstallAssumption DEF CopyBinary, InstallTyped, CommandKept
  <1>5. bin # 0 => bin' # 0
    BY <1>2, <1>4, BinariesChange DEF binVars, LoadUnit, LoadFails, AgentStages, AgentSwaps,
       Exits, Returns
  <1> QED
    BY <1>2, <1>3, <1>5

LEMMA CommandGoesOn ==
    ASSUME InstallTyped, [Next]_vars
    PROVE  cmd' \in Command /\ CommandKept' /\ UnitsKept'
  <1> DEFINE Ok == cmd' \in Command /\ CommandKept' /\ UnitsKept'
  <1>1. cmd \in Command /\ CommandKept /\ UnitsKept /\ unit \in [Role -> Conf \cup {0}]
    BY DEF InstallTyped, TypeOK
  <1>2. ASSUME NEW ok \in BOOLEAN, StepDone(ok), cmd.kind = "setup", cmd.step # "done"
        PROVE  Ok
    BY <1>2, StepDoneMakes DEF CommandKept, UnitsKept
  <1>3. ASSUME NEW at \in {"copy", "files", "append", "validate", "rollback"}, GoesTo(at),
               cmd.kind = "setup", cmd.files = {} \/ cmd.step # "service"
        PROVE  Ok
    <2>1. /\ cmd' \in Command /\ cmd'.kind = cmd.kind /\ cmd'.plan = cmd.plan
          /\ cmd'.build = cmd.build /\ cmd'.step = cmd.step /\ cmd'.at = at
          /\ cmd'.files = cmd.files /\ cmd'.procs = cmd.procs
      BY <1>3, GoesToMakes
    <2>2. CommandKept'
      BY <1>1, <2>1 DEF CommandKept
    <2>3. cmd.step # "done" => \A r \in cmd.files : unit'[r] # 0
      <3>1. CASE UNCHANGED unit
        BY <1>1, <1>3, <3>1 DEF UnitsKept
      <3>2. ASSUME NEW r \in Role, WriteUnit(r)
            PROVE  FALSE
        <4>1. cmd' = [cmd EXCEPT !.files = @ \cup {r}] /\ r \notin cmd.files
          BY <3>2 DEF WriteUnit, Turn
        <4>2. cmd'.files = cmd.files \cup {r}
          BY <1>1, <4>1 DEF Command
        <4> QED
          BY <2>1, <4>1, <4>2
      <3> QED
        BY <1>3, <3>1, <3>2, UnitsStay
    <2>4. UnitsKept'
      BY <1>1, <1>3, <2>1, <2>3 DEF UnitsKept
    <2> QED
      BY <2>1, <2>2, <2>4
  <1>4. CASE UNCHANGED cmd
    <2>1. CommandKept'
      BY <1>1, <1>4 DEF CommandKept
    <2>2. UnitsKept'
      <3> SUFFICES ASSUME cmd.kind = "setup"
                   PROVE  UnitsKept'
        BY <1>4 DEF UnitsKept
      <3>1. ASSUME NEW r \in Role, WriteUnit(r)
            PROVE  \A s \in Role : unit[s] # 0 => unit'[s] # 0
        <4>1. cmd.plan.conf # 0
          BY <1>1, InstallAssumption DEF CommandKept
        <4> QED
          BY <1>1, <3>1, <4>1 DEF WriteUnit, UnitText
      <3>2. \A s \in Role : unit[s] # 0 => unit'[s] # 0
        BY <3>1, UnitsStay
      <3>3. cmd.files \subseteq Role
        BY <1>1 DEF Command
      <3> QED
        BY <1>1, <1>4, <3>2, <3>3, UnitsStay DEF UnitsKept
    <2> QED
      BY <1>1, <1>4, <2>1, <2>2
  <1>5. ASSUME NEW plan \in Plan, NEW b \in Build, RunSetup(plan, b)
        PROVE  Ok
    BY <1>5, RunSetupMakes DEF CommandKept, UnitsKept
  <1>6. CASE StepFails
    BY <1>2, <1>6 DEF StepFails
  <1>7. CASE Interrupt
    <2>1. /\ cmd' \in Command /\ cmd'.kind = cmd.kind /\ cmd'.step = "done"
          /\ cmd'.plan = cmd.plan /\ cmd'.build = cmd.build
          /\ cmd'.files = cmd.files /\ cmd'.procs = cmd.procs
      BY <1>1, <1>7 DEF Interrupt, Command
    <2> QED
      BY <1>1, <2>1 DEF CommandKept, UnitsKept
  <1>8. CASE CheckBinary
    <2>1. cmd.kind = "setup" /\ cmd.step \in {"binary", "service"} /\ cmd.at = "start"
      BY <1>8 DEF CheckBinary, AtStep
    <2>2. cmd.files = {}
      BY <1>1, <2>1 DEF UnitsKept
    <2> QED
      BY <1>2, <1>3, <1>8, <2>1, <2>2 DEF CheckBinary
  <1>9. CASE CopyBinary
    <2>1. cmd.kind = "setup" /\ cmd.step \in {"binary", "service"} /\ cmd.at = "copy"
      BY <1>9 DEF CopyBinary, AtStep
    <2>2. cmd.files = {} /\ cmd.procs = {}
      BY <1>1, <2>1 DEF UnitsKept
    <2>3. CASE cmd.step = "binary"
      BY <1>2, <1>9, <2>1, <2>3 DEF CopyBinary
    <2>4. CASE cmd.step = "service"
      <3>1. /\ cmd' \in Command /\ cmd'.kind = cmd.kind /\ cmd'.plan = cmd.plan
            /\ cmd'.build = cmd.build /\ cmd'.step = cmd.step
            /\ cmd'.files = {} /\ cmd'.procs = {}
        BY <1>9, <2>2, <2>4, GoesToMakes DEF CopyBinary
      <3>2. bin' # 0
        BY <1>1, <1>9, <2>1, InstallAssumption DEF CopyBinary, CommandKept
      <3> QED
        BY <1>1, <3>1, <3>2 DEF CommandKept, UnitsKept
    <2> QED
      BY <2>1, <2>3, <2>4
  <1>10. CASE StepPath \/ StepEnv \/ StepNodeProject
    <2>1. cmd.kind = "setup" /\ cmd.step # "done" /\ StepDone(TRUE)
      BY <1>10 DEF StepPath, StepEnv, StepNodeProject, Adds, AtStep
    <2> QED
      BY <1>2, <2>1
  <1>11. CASE StepConfig
    BY <1>3, <1>11 DEF StepConfig, AtStep
  <1>12. ASSUME NEW r \in Role, WriteUnit(r)
         PROVE  Ok
    <2>1. /\ cmd.kind = "setup" /\ cmd.step \in {"service", "boot"}
          /\ (cmd.step = "service" /\ cmd.at = "units") \/ cmd.step = "boot"
      BY <1>12 DEF WriteUnit, AtUnits, AtStep
    <2>2. /\ cmd' \in Command /\ cmd'.kind = cmd.kind /\ cmd'.plan = cmd.plan
          /\ cmd'.build = cmd.build /\ cmd'.step = cmd.step /\ cmd'.at = cmd.at
          /\ cmd'.files = cmd.files \cup {r} /\ cmd'.procs = cmd.procs
      BY <1>1, <1>12 DEF WriteUnit, Command
    <2>3. cmd.plan.conf # 0 /\ unit' = [unit EXCEPT ![r] = cmd.plan.conf]
      BY <1>1, <1>12, <2>1, InstallAssumption DEF CommandKept, WriteUnit, UnitText
    <2>4. \A s \in cmd'.files : unit'[s] # 0
      <3>1. cmd.files \subseteq Role /\ \A s \in cmd.files : unit[s] # 0
        BY <1>1, <2>1 DEF UnitsKept, Command
      <3> QED
        BY <1>1, <2>2, <2>3, <3>1
    <2>5. bin # 0 => bin' # 0
      BY <2>1, UnitsStay
    <2>6. CommandKept'
      BY <1>1, <2>1, <2>2 DEF CommandKept
    <2>7. UnitsKept'
      BY <1>1, <2>1, <2>2, <2>4, <2>5 DEF UnitsKept
    <2> QED
      BY <2>2, <2>6, <2>7
  <1>13. ASSUME NEW r \in Role, LoadUnit(r)
         PROVE  Ok
    <2>1. /\ cmd.kind = "setup" /\ cmd.step \in {"service", "boot"} /\ r \in cmd.files
          /\ UNCHANGED <<unit, bin>>
      BY <1>13, LoadsWhat DEF LoadUnit
    <2>2. CASE StepDone(TRUE)
      BY <1>2, <2>1, <2>2
    <2>3. CASE cmd' = [cmd EXCEPT !.procs = @ \cup {r}]
      <3>1. /\ cmd' \in Command /\ cmd'.kind = cmd.kind /\ cmd'.plan = cmd.plan
            /\ cmd'.build = cmd.build /\ cmd'.step = cmd.step /\ cmd'.at = cmd.at
            /\ cmd'.files = cmd.files /\ cmd'.procs = cmd.procs \cup {r}
        BY <1>1, <2>3 DEF Command
      <3> QED
        BY <1>1, <2>1, <3>1 DEF CommandKept, UnitsKept
    <2> QED
      BY <1>13, <2>2, <2>3 DEF LoadUnit
  <1>14. ASSUME NEW r \in Role, LoadFails(r)
         PROVE  Ok
    BY <1>2, <1>14 DEF LoadFails, AtUnits, AtStep
  <1>15. ASSUME NEW r \in Role, StopUnit(r) \/ RemoveUnit(r)
         PROVE  Ok
    <2>1. cmd.step = "units" /\ cmd.kind = "uninstall"
      BY <1>1, <1>15, SetupSteps DEF StopUnit, RemoveUnit, CommandKept, Command
    <2>2. /\ cmd' \in Command /\ cmd'.kind = cmd.kind /\ cmd'.step = cmd.step
      <3>1. \/ UNCHANGED cmd
            \/ cmd' = [cmd EXCEPT !.procs = @ \cup {r}]
            \/ cmd' = [cmd EXCEPT !.files = @ \cup {r}, !.failed = TRUE]
        BY <1>15 DEF StopUnit, RemoveUnit
      <3>2. CASE UNCHANGED cmd
        BY <1>1, <3>2
      <3>3. CASE cmd' = [cmd EXCEPT !.procs = @ \cup {r}]
        BY <1>1, <3>3 DEF Command
      <3>4. CASE cmd' = [cmd EXCEPT !.files = @ \cup {r}, !.failed = TRUE]
        BY <1>1, <3>4 DEF Command
      <3> QED
        BY <3>1, <3>2, <3>3, <3>4
    <2> QED
      BY <2>1, <2>2 DEF CommandKept, UnitsKept
  <1>16. CASE NothingToBoot
    BY <1>2, <1>16 DEF NothingToBoot, AtStep
  <1>17. CASE CaddyRead
    <2>1. cmd.kind = "setup" /\ cmd.step = "caddy"
      BY <1>17 DEF CaddyRead, CaddyStep, AtStep
    <2>2. CASE StepDone(os # "darwin")
      BY <1>2, <2>1, <2>2
    <2>3. CASE cmd' = [cmd EXCEPT !.at = "append", !.read = caddy]
      <3>1. caddy \in Caddyfile
        BY DEF InstallTyped, TypeOK
      <3>2. /\ cmd' \in Command /\ cmd'.kind = cmd.kind /\ cmd'.plan = cmd.plan
            /\ cmd'.build = cmd.build /\ cmd'.step = cmd.step
            /\ cmd'.files = cmd.files /\ cmd'.procs = cmd.procs
        BY <1>1, <2>3, <3>1 DEF Command
      <3> QED
        BY <1>1, <2>1, <3>2 DEF CommandKept, UnitsKept
    <2> QED
      BY <1>17, <2>2, <2>3 DEF CaddyRead
  <1>18. CASE CaddyAppend
    BY <1>3, <1>18 DEF CaddyAppend, CaddyStep, AtStep
  <1>19. CASE CaddyValidate
    BY <1>2, <1>3, <1>19 DEF CaddyValidate, CaddyStep, AtStep, Rejected
  <1>20. CASE CaddyRollback
    BY <1>2, <1>20 DEF CaddyRollback, CaddyStep, AtStep
  <1>21. CASE FilesDone("setup")
    <2>1. inst["setup"].build # 0
      BY <1>21 DEF FilesDone, InstallTyped, InstallersKept, Placed, Installer, Idle
    <2>2. cmd.kind = "setup" /\ cmd.step = "config"
      BY <2>1 DEF InstallTyped, InstallersKept
    <2> QED
      BY <1>2, <1>21, <2>2 DEF FilesDone
  <1>22. ASSUME NEW what \in Removal, RunUninstall(what)
         PROVE  Ok
    BY <1>22, RunUninstallMakes DEF CommandKept, UnitsKept
  <1>23. CASE RemoveBinary \/ RemoveState
    <2>1. cmd.kind = "uninstall"
      BY <1>1, <1>23, SetupSteps DEF RemoveBinary, RemoveState, CommandKept, Command
    <2>2. cmd' \in Command /\ cmd'.kind = cmd.kind /\ cmd'.step \in {"state", "done"}
      BY <1>1, <1>23 DEF RemoveBinary, RemoveState, Command
    <2> QED
      BY <2>1, <2>2 DEF CommandKept, UnitsKept
  <1> QED
    BY <1>4, <1>5, <1>6, <1>7, <1>8, <1>9, <1>10, <1>11, <1>12, <1>13, <1>14, <1>15, <1>16,
       <1>17, <1>18, <1>19, <1>20, <1>21, <1>22, <1>23, CommandChanges

LEMMA InstallTypedNext ==
    ASSUME InstallTyped, [Next]_vars
    PROVE  InstallTyped'
  <1>1. inst["setup"].build # 0 /\ inst'["setup"].build # 0 =>
            UNCHANGED cmd \/ inst'["setup"].build = 0
    BY FilesHoldCommand, PlacedOnes
  <1>2. /\ inst' \in [Installer -> Installation] /\ \A p \in Installer : Placed(inst'[p])
        /\ inst'["setup"].build \in {0, inst["setup"].build} \/ StepConfig
    BY InstallersGoOn
  <1>3. inst'["setup"].build # 0 =>
            /\ cmd'.kind = "setup" /\ cmd'.step = "config" /\ cmd'.at = "files"
            /\ inst'["setup"].build = cmd'.build
    <2>1. CASE StepConfig
      <3>1. cmd'.kind = "setup" /\ cmd'.step = "config" /\ cmd'.at = "files" /\ cmd'.build = cmd.build
        BY <2>1, GoesToMakes DEF StepConfig, AtStep
      <3>2. cmd.build \in Build
        BY <2>1 DEF StepConfig, AtStep, InstallTyped, CommandKept
      <3>3. inst'["setup"] = Installs(cmd.build)
        BY <2>1 DEF StepConfig, InstallTyped, TypeOK, Installer
      <3> QED
        BY <3>1, <3>2, <3>3, PlacedOnes
    <2>2. CASE ~StepConfig
      BY <1>1, <1>2, <2>2 DEF InstallTyped, InstallersKept
    <2> QED
      BY <2>1, <2>2
  <1>4. InstallersKept'
    BY <1>2, <1>3 DEF InstallersKept
  <1>5. inst'["setup"] # Idle => cmd'.step = "config"
    BY <1>2, <1>3 DEF Placed, Installer
  <1>6. TypeOK'
    BY <1>2, <1>5, CommandGoesOn, TypeOfHost, TypeOfFiles, TypeOfServices, TypeOfBinaries
       DEF TypeOK
  <1> QED
    BY <1>4, <1>6, CommandGoesOn DEF InstallTyped

-----------------------------------------------------------------------------
(* What was replaced is in a backup, and so is what is about to be.        *)

Backed(f, text) == f \in reused \/ \E t \in 1..MaxTime : backup[f][t] = text

BackedInv ==
    /\ \A x \in replaced : x[2] # 0 /\ Backed(x[1], x[2])
    /\ \A p \in Installer : inst[p].at = "write" /\ inst[p].old # 0 =>
                              Backed(inst[p].item[2], inst[p].old)
    /\ \A p \in Installer : inst[p].at = "backup" => inst[p].old # 0

LEMMA BackedInit == Init => BackedInv
  BY DEF Init, BackedInv, Idle, Installer

\* A backup is only lost to another of the same second.
LEMMA BackedStays ==
    ASSUME InstallTyped, [Next]_vars
    PROVE  \A f \in File, text \in Texts \ {0} : Backed(f, text) => Backed(f, text)'
  <1>1. CASE UNCHANGED <<backup, reused>>
    BY <1>1 DEF Backed
  <1>2. ASSUME NEW p \in Installer, Backup(p)
        PROVE  \A f \in File, text \in Texts \ {0} : Backed(f, text) => Backed(f, text)'
    <2> DEFINE g == inst[p].item[2]
    <2>1. g \in File /\ clock \in 1..MaxTime /\ backup \in [File -> [1..MaxTime -> Texts]]
      BY <1>2, WantIsText DEF Backup, InstallTyped, TypeOK
    <2>2. /\ backup' = [backup EXCEPT ![g][clock] = inst[p].old]
          /\ reused' = IF backup[g][clock] \in {0, inst[p].old} THEN reused ELSE reused \cup {g}
      BY <1>2 DEF Backup, BackupTime
    <2> HIDE DEF g
    <2>3. SUFFICES ASSUME NEW f \in File, NEW text \in Texts \ {0}, Backed(f, text)
                   PROVE  Backed(f, text)'
      OBVIOUS
    <2>4. CASE f \in reused
      BY <2>2, <2>4 DEF Backed
    <2>5. ASSUME NEW t \in 1..MaxTime, backup[f][t] = text
          PROVE  Backed(f, text)'
      <3>1. CASE f = g /\ t = clock /\ text # inst[p].old
        BY <2>2, <2>5, <3>1 DEF Backed
      <3>2. CASE ~(f = g /\ t = clock /\ text # inst[p].old)
        <4>1. backup'[f][t] = text
          BY <2>1, <2>2, <2>5, <3>2
        <4> QED
          BY <4>1 DEF Backed
      <3> QED
        BY <3>1, <3>2
    <2> QED
      BY <2>3, <2>4, <2>5 DEF Backed
  <1>3. UNCHANGED <<backup, reused>> \/ \E p \in Installer : Backup(p)
    BY FilesChange DEF fileVars, Write, Edit
  <1> QED
    BY <1>1, <1>2, <1>3

LEMMA BackedNext ==
    ASSUME InstallTyped, BackedInv, [Next]_vars
    PROVE  BackedInv'
  <1> DEFINE Kept(f, text) == f \in reused' \/ \E t \in 1..MaxTime : backup'[f][t] = text
             Fits(p) == /\ inst'[p].at = "write" /\ inst'[p].old # 0 =>
                              Kept(inst'[p].item[2], inst'[p].old)
                        /\ inst'[p].at = "backup" => inst'[p].old # 0
  <1>1. /\ inst \in [Installer -> Installation] /\ inst' \in [Installer -> Installation]
        /\ replaced \subseteq File \X Texts
    BY InstallTypedNext DEF InstallTyped, TypeOK
  <1>2. \A f \in File, text \in Texts \ {0} : Backed(f, text) => Kept(f, text)
    BY BackedStays DEF Backed
  <1> HIDE DEF Kept
  <1>3. \A x \in replaced : x[2] # 0 /\ Kept(x[1], x[2])
    BY <1>1, <1>2 DEF BackedInv
  <1>4. ASSUME NEW p \in Installer, inst[p].at = "write", inst[p].old # 0
        PROVE  Kept(inst[p].item[2], inst[p].old)
    <2>1. inst[p].item[2] \in File /\ inst[p].old \in Texts \ {0}
      BY <1>1, <1>4, WantIsText DEF Installation
    <2> QED
      BY <1>2, <1>4, <2>1 DEF BackedInv
  <1>5. ASSUME NEW p \in Installer, inst'[p] = inst[p]
        PROVE  Fits(p)
    BY <1>4, <1>5 DEF BackedInv
  <1>6. ASSUME NEW p \in Installer, inst'[p] = Idle
        PROVE  Fits(p)
    BY <1>6 DEF Idle
  <1>7. ASSUME NEW p \in Installer, NEW b \in Build, inst'[p] = Installs(b)
        PROVE  Fits(p)
    BY <1>7, InstallsMakes
  <1>8. \A p \in Installer : Fits(p)
    <2>1. CASE UNCHANGED inst
      BY <1>5, <2>1
    <2>2. ASSUME NEW q \in Installer, inst' = [inst EXCEPT ![q] = Idle]
          PROVE  \A p \in Installer : Fits(p)
      BY <1>1, <1>5, <1>6, <2>2
    <2>3. ASSUME NEW q \in Installer, NEW b \in Build, inst' = [inst EXCEPT ![q] = Installs(b)]
          PROVE  \A p \in Installer : Fits(p)
      BY <1>1, <1>5, <1>7, <2>3
    <2>4. ASSUME NEW q \in Installer, NextFile(q) \/ Look(q) \/ Backup(q) \/ Write(q)
          PROVE  \A p \in Installer : Fits(p)
      <3>1. \A p \in Installer \ {q} : inst'[p] = inst[p]
        BY <2>4, InstallerMoves
      <3>2. Fits(q)
        <4>1. CASE NextFile(q)
          <5>1. PICK x \in inst[q].left, kept \in BOOLEAN :
                   inst' = [inst EXCEPT ![q].left = @ \ {x},
                                        ![q].item = IF kept THEN NoItem ELSE x,
                                        ![q].at = IF kept THEN "next" ELSE "look"]
            BY <4>1 DEF NextFile
          <5>2. inst'[q].at = IF kept THEN "next" ELSE "look"
            BY <1>1, <5>1 DEF Installation
          <5> QED
            BY <5>2
        <4>2. CASE Look(q)
          <5> DEFINE f == inst[q].item[2]
                     at == IF f \in links \/ disk[f] = Want(q) THEN "next"
                           ELSE IF disk[f] = 0 THEN "write" ELSE "backup"
          <5>1. inst' = [inst EXCEPT ![q].old = disk[f], ![q].at = at]
            BY <4>2 DEF Look
          <5>2. (at = "write" => disk[f] = 0) /\ (at = "backup" => disk[f] # 0)
            OBVIOUS
          <5> HIDE DEF at, f
          <5>3. inst'[q].old = disk[f] /\ inst'[q].at = at
            BY <1>1, <5>1 DEF Installation
          <5> QED
            BY <5>2, <5>3
        <4>3. CASE Backup(q)
          <5>1. /\ inst'[q].at = "write" /\ inst'[q].old = inst[q].old
                /\ inst'[q].item = inst[q].item
            BY <1>1, <4>3 DEF Backup, Installation
          <5>2. /\ inst[q].item[2] \in File /\ clock \in 1..MaxTime
                /\ backup \in [File -> [1..MaxTime -> Texts]]
            BY <4>3, WantIsText DEF Backup, InstallTyped, TypeOK
          <5>3. backup'[inst[q].item[2]][clock] = inst[q].old
            BY <4>3, <5>2 DEF Backup, BackupTime
          <5> QED
            BY <5>1, <5>2, <5>3 DEF Kept
        <4>4. CASE Write(q)
          <5>1. inst'[q].at = "next"
            BY <1>1, <4>4 DEF Write, Installation
          <5> QED
            BY <5>1
        <4> QED
          BY <2>4, <4>1, <4>2, <4>3, <4>4
      <3> QED
        BY <1>5, <3>1, <3>2
    <2>5. CASE StepFails \/ Interrupt
      BY <2>2, <2>5 DEF StepFails, Interrupt, Installer
    <2>6. CASE StepConfig
      BY <2>3, <2>6 DEF StepConfig, AtStep, InstallTyped, CommandKept, Installer
    <2>7. CASE FileFails
      <3>1. inst'["start"].at = "next" /\ inst'["setup"] = inst["setup"]
        BY <1>1, <2>7 DEF FileFails, Installer, Installation
      <3>2. Fits("start")
        BY <3>1
      <3> QED
        BY <1>5, <3>1, <3>2 DEF Installer
    <2>8. ASSUME NEW q \in Installer, FilesDone(q)
          PROVE  \A p \in Installer : Fits(p)
      BY <2>2, <2>8 DEF FilesDone
    <2>9. ASSUME NEW r \in Role, LoadUnit(r)
          PROVE  \A p \in Installer : Fits(p)
      BY <2>1, <2>3, <2>9, LoadsWhat DEF LoadUnit, AgentStarts, Installer
    <2>10. ASSUME NEW r \in Role, LoadFails(r) \/ StopUnit(r)
           PROVE  \A p \in Installer : Fits(p)
      BY <2>1, <2>2, <2>10 DEF LoadFails, StopUnit, AgentEnds, Installer
    <2>11. CASE AgentSwaps
      <3>1. staged \in Build
        BY <2>11 DEF AgentSwaps, InstallTyped, TypeOK
      <3> QED
        BY <2>3, <2>11, <3>1 DEF AgentSwaps, AgentStarts, Installer
    <2>12. ASSUME NEW r \in Role, Exits(r) \/ Returns(r)
           PROVE  \A p \in Installer : Fits(p)
      <3>1. bin = 0 \/ bin \in Build
        BY DEF InstallTyped, TypeOK
      <3> QED
        BY <2>1, <2>2, <2>3, <2>12, <3>1 DEF Exits, Returns, AgentStarts, AgentEnds, Installer
    <2> QED
      BY <2>1, <2>4, <2>5, <2>6, <2>7, <2>8, <2>9, <2>10, <2>11, <2>12, InstallersChange
  <1>9. \A x \in replaced' : x[2] # 0 /\ Kept(x[1], x[2])
    <2>1. ASSUME NEW p \in Installer, Write(p)
          PROVE  \A x \in replaced' : x[2] # 0 /\ Kept(x[1], x[2])
      BY <1>3, <1>4, <2>1 DEF Write
    <2>2. UNCHANGED replaced \/ \E p \in Installer : Write(p)
      BY FilesChange DEF fileVars, Backup, Edit
    <2> QED
      BY <1>3, <2>1, <2>2
  <1> QED
    BY <1>8, <1>9 DEF BackedInv, Backed, Kept

-----------------------------------------------------------------------------
(* What uninstall has come to, while it has heard of no failure.           *)

\* No process without its unit, and none brought back once it is stopped.
StoppedStays ==
    /\ \A r \in Role : running[r] # Down \/ exited[r] # 0 => unit[r] # 0
    /\ cmd.kind = "uninstall" /\ cmd.step = "units" =>
          \A r \in cmd.procs : running[r] = Down /\ exited[r] = 0

RemovedStays ==
    cmd.kind = "uninstall" /\ ~cmd.failed =>
       IF cmd.step = "units" THEN cmd.files = {}
       ELSE /\ \A r \in Role : unit[r] = 0
            /\ "all" \in cmd.plan.steps => bin = 0

UninstallInv == ~unheard => StoppedStays /\ RemovedStays

LEMMA UninstallInit == Init => UninstallInv
  BY DEF Init, UninstallInv, StoppedStays, RemovedStays, NoCmd, Down

\* Only the operator's next command is another one.
LEMMA OneCommand ==
    ASSUME InstallTyped, [Next]_vars
    PROVE  \/ /\ cmd'.kind = cmd.kind /\ cmd'.plan = cmd.plan /\ cmd'.build = cmd.build
              /\ cmd'.again = cmd.again /\ (cmd.failed => cmd'.failed)
           \/ \E plan \in Plan, b \in Build : RunSetup(plan, b)
           \/ \E what \in Removal : RunUninstall(what)
  <1> DEFINE Same == /\ cmd'.kind = cmd.kind /\ cmd'.plan = cmd.plan /\ cmd'.build = cmd.build
                     /\ cmd'.again = cmd.again /\ (cmd.failed => cmd'.failed)
  <1>1. cmd \in Command
    BY DEF InstallTyped, TypeOK
  <1>2. ASSUME NEW ok \in BOOLEAN, StepDone(ok)
        PROVE  Same
    BY <1>1, <1>2 DEF StepDone, Command
  <1>3. ASSUME NEW at, GoesTo(at)
        PROVE  Same
    BY <1>1, <1>3 DEF GoesTo, Command
  <1>4. CASE UNCHANGED cmd
    BY <1>4
  <1>5. CASE StepFails \/ CheckBinary \/ CopyBinary \/ StepPath \/ StepEnv \/ StepNodeProject
             \/ StepConfig \/ NothingToBoot \/ FilesDone("setup")
    BY <1>2, <1>3, <1>5 DEF StepFails, CheckBinary, CopyBinary, StepPath, StepEnv,
       StepNodeProject, Adds, StepConfig, NothingToBoot, FilesDone
  <1>6. CASE CaddyRead \/ CaddyAppend \/ CaddyValidate \/ CaddyRollback
    <2>1. CASE cmd' = [cmd EXCEPT !.at = "append", !.read = caddy]
      BY <1>1, <2>1 DEF Command
    <2> QED
      BY <1>2, <1>3, <1>6, <2>1 DEF CaddyRead, CaddyAppend, CaddyValidate, CaddyRollback, Rejected
  <1>7. ASSUME NEW r \in Role, WriteUnit(r) \/ LoadUnit(r) \/ LoadFails(r)
        PROVE  Same
    <2>1. CASE cmd' = [cmd EXCEPT !.files = @ \cup {r}]
      BY <1>1, <2>1 DEF Command
    <2>2. CASE cmd' = [cmd EXCEPT !.procs = @ \cup {r}]
      BY <1>1, <2>2 DEF Command
    <2> QED
      BY <1>2, <1>7, <2>1, <2>2 DEF WriteUnit, LoadUnit, LoadFails
  <1>8. ASSUME NEW r \in Role, StopUnit(r) \/ RemoveUnit(r)
        PROVE  Same
    <2>1. CASE cmd' = [cmd EXCEPT !.procs = @ \cup {r}]
      BY <1>1, <2>1 DEF Command
    <2>2. CASE cmd' = [cmd EXCEPT !.files = @ \cup {r}, !.failed = TRUE]
      BY <1>1, <2>2 DEF Command
    <2> QED
      BY <1>4, <1>8, <2>1, <2>2 DEF StopUnit, RemoveUnit
  <1>9. CASE Interrupt \/ RemoveBinary \/ RemoveState
    <2>1. CASE cmd' = [cmd EXCEPT !.step = "done", !.failed = TRUE]
      BY <1>1, <2>1 DEF Command
    <2>2. CASE cmd' = [cmd EXCEPT !.step = "state", !.failed = TRUE]
      BY <1>1, <2>2 DEF Command
    <2>3. CASE cmd' = [cmd EXCEPT !.step = "state"] \/ cmd' = [cmd EXCEPT !.step = "done"]
      BY <1>1, <2>3 DEF Command
    <2> QED
      BY <1>9, <2>1, <2>2, <2>3 DEF Interrupt, RemoveBinary, RemoveState
  <1> QED
    BY <1>4, <1>5, <1>6, <1>7, <1>8, <1>9, CommandChanges

LEMMA UnheardStays ==
    ASSUME [Next]_vars, unheard
    PROVE  unheard'
  BY DEF Next, vars, Setup, Files, Uninstall, Others, RunSetup, StepFails, Interrupt,
         CheckBinary, CopyBinary, StepPath, StepEnv, StepNodeProject, Adds, StepConfig,
         WriteUnit, LoadUnit, LoadFails,
         NothingToBoot, CaddyStep, CaddyRead, CaddyAppend, CaddyValidate, CaddyRollback,
         NextFile, Look, Backup, Write, FilesDone, FileFails, RunUninstall, StopUnit, RemoveUnit,
         RemoveBinary, RemoveState, Edit, EditCaddyfile, Rename, AgentStages, AgentSwaps,
         Exits, Returns, Tick

\* What may happen while an operator's uninstall is under way or has ended.
LEMMA UninstallMoves ==
    ASSUME InstallTyped, [Next]_vars, cmd.kind = "uninstall", cmd'.kind = "uninstall"
    PROVE  \/ UNCHANGED <<cmd, svcVars, bin>>
           \/ UNCHANGED cmd /\ (AgentSwaps \/ \E r \in Role : Exits(r) \/ Returns(r))
           \/ \E what \in Removal : RunUninstall(what)
           \/ Interrupt
           \/ \E r \in Role : StopUnit(r) \/ RemoveUnit(r)
           \/ RemoveBinary \/ RemoveState
  <1>1. cmd.kind # "setup" /\ cmd.step \in {"units", "state", "done"} /\ cmd'.kind # "setup"
    BY DEF InstallTyped, CommandKept
  <1>2. ~CheckBinary /\ ~CopyBinary /\ ~StepPath /\ ~StepEnv /\ ~StepNodeProject /\ ~StepConfig
    BY <1>1 DEF CheckBinary, CopyBinary, StepPath, StepEnv, StepNodeProject, StepConfig, Adds,
                AtStep
  <1>3. ASSUME NEW r \in Role
        PROVE  ~WriteUnit(r) /\ ~LoadUnit(r) /\ ~LoadFails(r)
    BY <1>1 DEF WriteUnit, LoadUnit, LoadFails, AtUnits, AtStep
  <1>4. ~NothingToBoot /\ ~CaddyRead /\ ~CaddyAppend /\ ~CaddyValidate /\ ~CaddyRollback
        /\ ~StepFails
    BY <1>1 DEF NothingToBoot, CaddyRead, CaddyAppend, CaddyValidate, CaddyRollback, CaddyStep,
                AtStep, StepFails
  <1>5. ASSUME NEW plan \in Plan, NEW b \in Build
        PROVE  ~RunSetup(plan, b)
    BY <1>1, RunSetupMakes
  <1>6. ~FilesDone("setup")
    <2>1. FilesDone("setup") => inst["setup"].build # 0
      BY DEF FilesDone, InstallTyped, InstallersKept, Placed, Installer, Idle
    <2> QED
      BY <1>1, <2>1 DEF InstallTyped, InstallersKept
  <1>7. CASE UNCHANGED cmd
    <2>1. UNCHANGED bin \/ RemoveBinary \/ AgentSwaps
      BY <1>2, <1>3, BinariesChange
         DEF binVars, StopUnit, AgentStages, Exits, Returns, LoadFails
    <2> QED
      BY <1>3, <1>7, <2>1, ServicesChange
  <1> QED
    BY <1>2, <1>3, <1>4, <1>5, <1>6, <1>7, CommandChanges

LEMMA StoppedNext ==
    ASSUME InstallTyped, StoppedStays, ~unheard', [Next]_vars
    PROVE  StoppedStays'
  <1>1. /\ unit \in [Role -> Conf \cup {0}] /\ cmd \in Command
        /\ running \in [Role -> [build : Build, conf : Conf] \cup {Down}]
        /\ exited \in [Role -> Conf \cup {0}]
        /\ staged # 0 => running["node"] # Down
    BY DEF InstallTyped, TypeOK
  <1>2. cmd.step = "units" => cmd.kind = "uninstall"
    BY SetupSteps DEF InstallTyped, TypeOK, Command, CommandKept
  <1>3. \A r \in Role : running'[r] # Down \/ exited'[r] # 0 => unit'[r] # 0
    <2>1. CASE UNCHANGED svcVars
      BY <2>1 DEF svcVars, StoppedStays
    <2>2. ASSUME NEW r \in Role, WriteUnit(r)
          PROVE  \A s \in Role : running'[s] # Down \/ exited'[s] # 0 => unit'[s] # 0
      <3>1. cmd.plan.conf # 0
        BY <2>2, InstallAssumption DEF WriteUnit, AtUnits, AtStep, InstallTyped, CommandKept
      <3> QED
        BY <1>1, <2>2, <3>1 DEF WriteUnit, UnitText, StoppedStays
    <2>3. ASSUME NEW r \in Role, LoadUnit(r)
          PROVE  \A s \in Role : running'[s] # Down \/ exited'[s] # 0 => unit'[s] # 0
      <3>1. UNCHANGED unit /\ \A s \in Role \ {r} : /\ running'[s] = running[s]
                                                    /\ exited'[s] = exited[s]
        BY <1>1, <2>3 DEF LoadUnit
      <3>2. unit[r] # 0
        BY <2>3, LoadsWhat, InstallAssumption
      <3> QED
        BY <3>1, <3>2 DEF StoppedStays
    <2>4. ASSUME NEW r \in Role, LoadFails(r) \/ StopUnit(r)
          PROVE  \A s \in Role : running'[s] # Down \/ exited'[s] # 0 => unit'[s] # 0
      BY <1>1, <2>4 DEF LoadFails, StopUnit, StoppedStays
    <2>5. ASSUME NEW r \in Role, RemoveUnit(r)
          PROVE  \A s \in Role : running'[s] # Down \/ exited'[s] # 0 => unit'[s] # 0
      BY <1>1, <1>2, <2>5 DEF RemoveUnit, StoppedStays
    <2>6. CASE AgentSwaps
      <3>1. UNCHANGED <<unit, exited>> /\ \A r \in Role : running'[r] # Down => running[r] # Down
        BY <1>1, <2>6 DEF AgentSwaps, Role
      <3> QED
        BY <3>1 DEF StoppedStays
    <2>7. ASSUME NEW r \in Role, Exits(r) \/ Returns(r)
          PROVE  \A s \in Role : running'[s] # Down \/ exited'[s] # 0 => unit'[s] # 0
      BY <1>1, <2>7 DEF Exits, Returns, StoppedStays
    <2> QED
      BY <2>1, <2>2, <2>3, <2>4, <2>5, <2>6, <2>7, ServicesChange
  <1>4. ASSUME cmd'.kind = "uninstall", cmd'.step = "units"
        PROVE  \A r \in cmd'.procs : running'[r] = Down /\ exited'[r] = 0
    <2>1. ASSUME NEW what \in Removal, RunUninstall(what)
          PROVE  cmd'.procs = {}
      BY <2>1, RunUninstallMakes
    <2>2. cmd.kind = "uninstall" \/ \E what \in Removal : RunUninstall(what)
      BY <1>4, OneCommand, RunSetupMakes
    <2> SUFFICES ASSUME cmd.kind = "uninstall"
                 PROVE  \A r \in cmd'.procs : running'[r] = Down /\ exited'[r] = 0
      BY <2>1, <2>2
    <2>3. CASE UNCHANGED <<cmd, svcVars, bin>>
      BY <1>4, <2>3 DEF StoppedStays, svcVars
    <2>4. CASE UNCHANGED cmd /\ (AgentSwaps \/ \E r \in Role : Exits(r) \/ Returns(r))
      <3>1. \A r \in Role : running[r] = Down /\ exited[r] = 0 =>
                             running'[r] = Down /\ exited'[r] = 0
        BY <1>1, <2>4 DEF AgentSwaps, Exits, Returns, Role
      <3>2. cmd.procs \subseteq Role
        BY <1>1 DEF Command
      <3> QED
        BY <1>4, <2>4, <3>1, <3>2 DEF StoppedStays
    <2>5. CASE Interrupt \/ RemoveBinary \/ RemoveState
      <3>1. cmd'.step \in {"done", "state"}
        BY <1>1, <2>5 DEF Interrupt, RemoveBinary, RemoveState, Command
      <3> QED
        BY <1>4, <3>1
    <2>6. ASSUME NEW r \in Role, StopUnit(r)
          PROVE  \A s \in cmd'.procs : running'[s] = Down /\ exited'[s] = 0
      <3>1. cmd.step = "units" /\ cmd'.procs = cmd.procs \cup {r} /\ cmd.procs \subseteq Role
        BY <1>1, <2>6 DEF StopUnit, Command
      <3>2. running' = [running EXCEPT ![r] = Down] /\ exited' = [exited EXCEPT ![r] = 0]
        BY <2>6 DEF StopUnit
      <3> QED
        BY <1>1, <3>1, <3>2 DEF StoppedStays
    <2>7. ASSUME NEW r \in Role, RemoveUnit(r)
          PROVE  \A s \in cmd'.procs : running'[s] = Down /\ exited'[s] = 0
      <3>1. cmd.step = "units" /\ UNCHANGED <<running, exited>>
        BY <2>7 DEF RemoveUnit
      <3>2. UNCHANGED cmd \/ cmd' = [cmd EXCEPT !.files = @ \cup {r}, !.failed = TRUE]
        BY <2>7 DEF RemoveUnit
      <3>3. cmd'.procs = cmd.procs
        BY <1>1, <3>2 DEF Command
      <3> QED
        BY <3>1, <3>3 DEF StoppedStays
    <2> QED
      BY <1>4, <2>1, <2>3, <2>4, <2>5, <2>6, <2>7, UninstallMoves
  <1> QED
    BY <1>3, <1>4 DEF StoppedStays

LEMMA RemovedNext ==
    ASSUME InstallTyped, StoppedStays, RemovedStays, ~unheard', [Next]_vars
    PROVE  RemovedStays'
  <1>1. /\ unit \in [Role -> Conf \cup {0}] /\ cmd \in Command
        /\ running \in [Role -> [build : Build, conf : Conf] \cup {Down}]
        /\ exited \in [Role -> Conf \cup {0}]
        /\ staged # 0 => running["node"] # Down
    BY DEF InstallTyped, TypeOK
  <1> SUFFICES ASSUME cmd'.kind = "uninstall", ~cmd'.failed
               PROVE  IF cmd'.step = "units" THEN cmd'.files = {}
                      ELSE /\ \A r \in Role : unit'[r] = 0
                           /\ "all" \in cmd'.plan.steps => bin' = 0
    BY DEF RemovedStays
  <1>2. ASSUME NEW what \in Removal, RunUninstall(what)
        PROVE  cmd'.step = "units" /\ cmd'.files = {}
    BY <1>2, RunUninstallMakes
  <1>3. \/ cmd.kind = "uninstall" /\ ~cmd.failed /\ cmd'.plan = cmd.plan
        \/ \E what \in Removal : RunUninstall(what)
    BY OneCommand, RunSetupMakes
  <1> SUFFICES ASSUME cmd.kind = "uninstall", ~cmd.failed, cmd'.plan = cmd.plan
               PROVE  IF cmd'.step = "units" THEN cmd'.files = {}
                      ELSE /\ \A r \in Role : unit'[r] = 0
                           /\ "all" \in cmd'.plan.steps => bin' = 0
    BY <1>2, <1>3
  <1>4. CASE UNCHANGED <<cmd, svcVars, bin>>
    BY <1>4 DEF RemovedStays, svcVars
  <1>5. CASE UNCHANGED cmd /\ (AgentSwaps \/ \E r \in Role : Exits(r) \/ Returns(r))
    <2>1. UNCHANGED unit /\ \E r \in Role : running[r] # Down \/ exited[r] # 0
      BY <1>1, <1>5 DEF AgentSwaps, Exits, Returns, Role
    <2>2. \E r \in Role : unit[r] # 0
      BY <2>1 DEF StoppedStays
    <2>3. cmd.step = "units"
      BY <2>2 DEF RemovedStays, Role
    <2> QED
      BY <1>5, <2>3 DEF RemovedStays
  <1>6. CASE Interrupt
    <2>1. cmd'.failed
      BY <1>1, <1>6 DEF Interrupt, Command
    <2> QED
      BY <2>1
  <1>7. ASSUME NEW r \in Role, StopUnit(r)
        PROVE  cmd'.step = "units" /\ cmd'.files = {}
    <2>1. cmd.step = "units" /\ cmd'.step = cmd.step /\ cmd'.files = cmd.files
      BY <1>1, <1>7 DEF StopUnit, Command
    <2> QED
      BY <2>1 DEF RemovedStays
  <1>8. ASSUME NEW r \in Role, RemoveUnit(r)
        PROVE  cmd'.step = "units" /\ cmd'.files = {}
    <2>1. cmd.step = "units"
      BY <1>8 DEF RemoveUnit
    <2>2. CASE UNCHANGED cmd
      BY <2>1, <2>2 DEF RemovedStays
    <2>3. CASE cmd' = [cmd EXCEPT !.files = @ \cup {r}, !.failed = TRUE]
      <3>1. cmd'.failed
        BY <1>1, <2>3 DEF Command
      <3> QED
        BY <3>1
    <2> QED
      BY <1>8, <2>2, <2>3 DEF RemoveUnit
  <1>9. CASE RemoveBinary
    <2>1. cmd.step = "units" /\ Present \subseteq cmd.files /\ UNCHANGED unit
      BY <1>9 DEF RemoveBinary, ServicesDone, svcVars
    <2>2. \A r \in Role : unit'[r] = 0
      BY <2>1 DEF RemovedStays, Present
    <2>3. cmd'.step = "state"
      BY <1>1, <1>9 DEF RemoveBinary, Command
    <2>4. cmd' # [cmd EXCEPT !.step = "state", !.failed = TRUE]
      BY <1>1 DEF Command
    <2>5. \/ "all" \in cmd.plan.steps /\ bin' = 0
          \/ cmd' = [cmd EXCEPT !.step = "state", !.failed = TRUE]
          \/ "all" \notin cmd.plan.steps
      BY <1>9 DEF RemoveBinary
    <2> QED
      BY <2>2, <2>3, <2>4, <2>5
  <1>10. CASE RemoveState
    <2>1. cmd.step = "state" /\ UNCHANGED <<unit, bin>>
      BY <1>10 DEF RemoveState, svcVars, binVars
    <2>2. cmd'.step = "done"
      BY <1>1, <1>10 DEF RemoveState, Command
    <2> QED
      BY <2>1, <2>2 DEF RemovedStays
  <1> QED
    BY <1>2, <1>4, <1>5, <1>6, <1>7, <1>8, <1>9, <1>10, UninstallMoves

-----------------------------------------------------------------------------
(* A setup that nobody disturbs.                                           *)

\* Nobody else's doing, and what only goes on from what was so before.
LEMMA QuietMoves ==
    ASSUME [Next]_vars, ~disturbed'
    PROVE  /\ ~AgentSwaps /\ ~EditCaddyfile
           /\ \A f \in File : ~Edit(f)
           /\ \A l \in Label : ~Rename(l)
           /\ ~Backup("start") /\ ~Write("start")
           /\ \/ ~disturbed
              \/ \E plan \in Plan, b \in Build : RunSetup(plan, b)
              \/ \E what \in Removal : RunUninstall(what)
  <1>1. /\ ~AgentSwaps /\ ~EditCaddyfile
        /\ \A f \in File : ~Edit(f)
        /\ \A l \in Label : ~Rename(l)
        /\ ~Backup("start") /\ ~Write("start")
    BY DEF AgentSwaps, EditCaddyfile, Edit, Rename, Backup, Write, ByHand, Disturbs
  <1>2. \/ ~disturbed
        \/ \E plan \in Plan, b \in Build : RunSetup(plan, b)
        \/ \E what \in Removal : RunUninstall(what)
    BY DEF Next, vars, Setup, Files, Uninstall, Others, StepFails, Interrupt,
         CheckBinary, CopyBinary, StepPath, StepEnv, StepNodeProject, Adds, StepConfig,
         WriteUnit, LoadUnit, LoadFails,
         NothingToBoot, CaddyStep, CaddyRead, CaddyAppend, CaddyValidate, CaddyRollback,
         NextFile, Look, Backup, Write, FilesDone, FileFails, StopUnit, RemoveUnit,
         RemoveBinary, RemoveState, Edit, EditCaddyfile, Rename, AgentStages, AgentSwaps,
         Exits, Returns, Tick, Keeps, Changes, Disturbs, ByHand
  <1> QED
    BY <1>1, <1>2

\* What is there stays, while setup goes on.
LEMMA QuietHost ==
    ASSUME InstallTyped, [Next]_vars, ~disturbed', cmd.kind = "setup"
    PROVE  /\ UNCHANGED label /\ project \subseteq project'
           /\ own \cap {"path", "env"} \subseteq own'
           /\ "decided" \in own' => "decided" \in own
           /\ UNCHANGED <<disk, links>> \/ Write("setup")
           /\ UNCHANGED caddy \/ CaddyAppend \/ CaddyRollback
           /\ UNCHANGED bin \/ CopyBinary
           /\ shaba' = shaba \/ shaba' \in {"link", "theirs"}
           /\ UNCHANGED unit \/ \E r \in Role : WriteUnit(r)
           /\ \/ UNCHANGED <<running, exited>>
              \/ \E r \in Role : LoadUnit(r) \/ LoadFails(r) \/ Exits(r) \/ Returns(r)
  <1>1. UNCHANGED label
    BY QuietMoves DEF Next, vars, hostVars, Setup, Files, Uninstall, Others, RunSetup, StepFails,
         Interrupt, CheckBinary, CopyBinary, StepPath, StepEnv, StepNodeProject, Adds, StepConfig,
         WriteUnit, LoadUnit, LoadFails,
         NothingToBoot, CaddyStep, CaddyRead, CaddyAppend, CaddyValidate, CaddyRollback,
         NextFile, Look, Backup, Write, FilesDone, FileFails, RunUninstall, StopUnit, RemoveUnit,
         RemoveBinary, RemoveState, Edit, EditCaddyfile, AgentStages, AgentSwaps, Exits, Returns,
         Tick
  <1>2. /\ project \subseteq project' /\ own \cap {"path", "env"} \subseteq own'
        /\ "decided" \in own' => "decided" \in own
    BY QuietMoves, UnitsStay DEF Next, vars, ownVars, Setup, Files, Uninstall, Others, RunSetup, StepFails,
         Interrupt, CheckBinary, CopyBinary, StepPath, StepEnv, StepNodeProject, Adds, StepConfig,
         WriteUnit, LoadUnit, LoadFails,
         NothingToBoot, CaddyStep, CaddyRead, CaddyAppend, CaddyValidate, CaddyRollback,
         NextFile, Look, Backup, Write, FilesDone, FileFails, RunUninstall,
         Edit, EditCaddyfile, AgentStages, AgentSwaps, Exits, Returns, Tick
  <1>3. UNCHANGED <<disk, links>> \/ Write("setup")
    BY QuietMoves, FilesChange DEF fileVars, Backup, Installer
  <1>4. UNCHANGED caddy \/ CaddyAppend \/ CaddyRollback
    BY QuietMoves DEF Next, vars, Setup, Files, Uninstall, Others, RunSetup, StepFails, Interrupt,
         CheckBinary, CopyBinary, StepPath, StepEnv, StepNodeProject, Adds, StepConfig,
         WriteUnit, LoadUnit, LoadFails, NothingToBoot, CaddyRead, CaddyValidate,
         NextFile, Look, Backup, Write, FilesDone, FileFails, RunUninstall, StopUnit, RemoveUnit,
         RemoveBinary, RemoveState, Edit, Rename, AgentStages, AgentSwaps, Exits, Returns, Tick
  <1>5. UNCHANGED bin \/ CopyBinary
    BY QuietMoves, BinariesChange, UnitsStay
       DEF binVars, LoadUnit, LoadFails, StopUnit, AgentStages, Exits, Returns
  <1>6. shaba' = shaba \/ shaba' \in {"link", "theirs"}
    <2>1. ASSUME NEW r \in Role, LoadUnit(r)
          PROVE  shaba' = shaba \/ shaba' \in {"link", "theirs"}
      BY <2>1 DEF LoadUnit, AgentStarts, Linked
    <2> QED
      BY <2>1, QuietMoves, BinariesChange, UnitsStay
         DEF binVars, CopyBinary, Linked, LoadFails, AgentEnds, AgentStages, Exits, Returns,
             AgentStarts
  <1>7. UNCHANGED unit \/ \E r \in Role : WriteUnit(r)
    BY UnitsStay
  <1>8. \/ UNCHANGED <<running, exited>>
        \/ \E r \in Role : LoadUnit(r) \/ LoadFails(r) \/ Exits(r) \/ Returns(r)
    BY QuietMoves, UnitsStay, ServicesChange DEF svcVars, WriteUnit
  <1> QED
    BY <1>1, <1>2, <1>3, <1>4, <1>5, <1>6, <1>7, <1>8

-----------------------------------------------------------------------------
(* The services of a setup that has not failed.                            *)

Sound == cmd.kind = "setup" /\ ~cmd.failed /\ ~disturbed

\* Service r runs as its unit says, or has ended of itself when it had.
UpTo(r) == \/ running[r] = [build |-> bin, conf |-> unit[r]]
           \/ running[r] = Down /\ exited[r] = unit[r]

Current(r) == unit[r] = cmd.plan.conf /\ UpTo(r)

ServicesSound ==
    /\ Sound /\ cmd.step = "service" /\ cmd.at = "units" =>
          /\ bin = cmd.build
          /\ \A r \in cmd.files : unit[r] = cmd.plan.conf
          /\ \A r \in cmd.procs : UpTo(r)
    /\ Sound /\ "service" \in cmd.plan.steps /\ Place(cmd.step) > 6 =>
          bin = cmd.build /\ \A r \in cmd.plan.roles : Current(r)

LEMMA ServicesInit == Init => ServicesSound
  BY DEF Init, ServicesSound, Sound, NoCmd

\* A command of setup goes on, ends a step, or is the first of another one.
LEMMA SetupMoves ==
    ASSUME InstallTyped, [Next]_vars, cmd'.kind = "setup", ~disturbed'
    PROVE  \/ \E plan \in Plan, b \in Build : RunSetup(plan, b)
           \/ /\ cmd.kind = "setup" /\ ~disturbed /\ (cmd.failed => cmd'.failed)
              /\ cmd'.plan = cmd.plan /\ cmd'.build = cmd.build /\ cmd'.again = cmd.again
              /\ cmd.plan \in Plan /\ cmd.build \in Build
              /\ \/ UNCHANGED cmd
                 \/ StepFails \/ Interrupt \/ CheckBinary \/ CopyBinary
                 \/ StepPath \/ StepEnv \/ StepNodeProject \/ StepConfig
                 \/ \E r \in Role : WriteUnit(r) \/ LoadUnit(r) \/ LoadFails(r)
                 \/ NothingToBoot \/ CaddyRead \/ CaddyAppend \/ CaddyValidate \/ CaddyRollback
                 \/ FilesDone("setup")
  <1>1. ASSUME NEW what \in Removal
        PROVE  ~RunUninstall(what)
    BY RunUninstallMakes
  <1>2. ASSUME ~\E plan \in Plan, b \in Build : RunSetup(plan, b)
        PROVE  /\ cmd.kind = "setup" /\ ~disturbed /\ (cmd.failed => cmd'.failed)
               /\ cmd'.plan = cmd.plan /\ cmd'.build = cmd.build /\ cmd'.again = cmd.again
               /\ cmd.plan \in Plan /\ cmd.build \in Build
    BY <1>1, <1>2, OneCommand, QuietMoves DEF InstallTyped, CommandKept
  <1> QED
    BY <1>1, <1>2, CommandChanges, UnitsStay

\* What makes a setup fail.
LEMMA FailedOnes ==
    ASSUME InstallTyped, cmd.kind = "setup", ~cmd'.failed
    PROVE  /\ ~StepFails /\ ~Interrupt /\ ~NothingToBoot /\ ~CaddyRollback
           /\ \A r \in Role : ~LoadFails(r)
  <1>1. cmd.step # "done" => ~StepDone(FALSE)
    BY StepDoneMakes
  <1>2. ~Interrupt
    BY DEF Interrupt, InstallTyped, TypeOK, Command
  <1> QED
    BY <1>1, <1>2 DEF StepFails, NothingToBoot, CaddyRollback, CaddyStep, LoadFails, AtUnits, AtStep

LEMMA ServicesNext ==
    ASSUME InstallTyped, ServicesSound, [Next]_vars
    PROVE  ServicesSound'
  <1> DEFINE Ok == /\ cmd'.step = "service" /\ cmd'.at = "units" =>
                         /\ bin' = cmd'.build
                         /\ \A r \in cmd'.files : unit'[r] = cmd'.plan.conf
                         /\ \A r \in cmd'.procs : UpTo(r)'
                   /\ "service" \in cmd'.plan.steps /\ Place(cmd'.step) > 6 =>
                         /\ bin' = cmd'.build
                         /\ \A r \in cmd'.plan.roles :
                               /\ unit'[r] = cmd'.plan.conf
                               /\ UpTo(r)'
  <1> SUFFICES ASSUME cmd'.kind = "setup", ~cmd'.failed, ~disturbed'
               PROVE  Ok
    BY DEF ServicesSound, Sound, Current
  <1>1. "service" \in SetupStep /\ Place("service") = 6 /\ Place("begin") = 0
    BY SetupSteps DEF Place
  <1>2. ASSUME NEW plan \in Plan, NEW b \in Build, RunSetup(plan, b)
        PROVE  Ok
    <2>1. cmd'.plan = plan /\ cmd'.at = "start" /\ cmd'.step = After(plan, "begin")
      BY <1>2, RunSetupMakes
    <2>2. "service" \in plan.steps => Place(cmd'.step) \in Nat /\ Place(cmd'.step) <= 6
      BY <1>1, <2>1, AfterGoesOn DEF Place
    <2> QED
      BY <2>1, <2>2
  <1> SUFFICES ASSUME cmd.kind = "setup", ~disturbed, ~cmd.failed, cmd'.plan = cmd.plan,
                      cmd'.build = cmd.build, cmd.plan \in Plan, cmd.build \in Build
               PROVE  Ok
    BY <1>2, SetupMoves
  <1>3. /\ cmd \in Command /\ unit \in [Role -> Conf \cup {0}]
        /\ running \in [Role -> [build : Build, conf : Conf] \cup {Down}]
        /\ cmd.plan.roles \subseteq {"hub", "node"} /\ cmd.plan.steps \subseteq SetupStep
        /\ cmd.files \subseteq Role /\ cmd.procs \subseteq cmd.files
        /\ cmd.files # {} => \/ cmd.step = "service" /\ cmd.at = "units"
                             \/ cmd.step \in {"boot", "done"}
    BY InstallAssumption DEF InstallTyped, TypeOK, UnitsKept, Command
  <1>17. ASSUME UNCHANGED <<bin, unit>>, cmd'.step = cmd.step, cmd'.files = cmd.files,
                cmd'.procs = cmd.procs, cmd'.at = cmd.at \/ cmd'.at # "units",
                \A r \in Role : UpTo(r) => UpTo(r)'
         PROVE  Ok
    <2>1. cmd.procs \subseteq Role /\ cmd.plan.roles \subseteq Role
      BY <1>3 DEF Role
    <2> QED
      BY <1>17, <2>1 DEF ServicesSound, Sound, Current
  <1>18. UNCHANGED <<bin, unit, running, exited>> => \A r \in Role : UpTo(r) => UpTo(r)'
    BY DEF UpTo
  <1>4. ASSUME UNCHANGED <<bin, unit, running, exited>>, cmd'.step = cmd.step,
               cmd'.files = cmd.files, cmd'.procs = cmd.procs,
               cmd'.at = cmd.at \/ cmd'.at # "units"
        PROVE  Ok
    BY <1>4, <1>17, <1>18
  <1>5. ASSUME NEW ok \in BOOLEAN, StepDone(ok), cmd.step # "done", cmd.step # "service",
               cmd.step = "binary" \/ UNCHANGED <<bin, unit, running, exited>>
        PROVE  Ok
    <2>1. /\ cmd'.step = After(cmd.plan, cmd.step) /\ cmd'.at = "start"
          /\ cmd.step \in SetupStep
      BY <1>5, StepDoneMakes
    <2>2. Place(cmd.step) \in Nat /\ Place(cmd'.step) \in Nat /\ Place(cmd.step) # 6
      BY <1>5, <2>1, SetupSteps DEF Place
    <2>3. CASE Place(cmd.step) < 6
      <3>1. "service" \in cmd.plan.steps => Place(cmd'.step) <= 6
        BY <1>1, <2>1, <2>3, AfterGoesOn
      <3> QED
        BY <2>1, <2>2, <3>1
    <2>4. CASE Place(cmd.step) > 6
      <3>1. UNCHANGED <<bin, unit>> /\ \A r \in cmd.plan.roles : UpTo(r) => UpTo(r)'
        BY <1>3, <1>5, <1>18, <2>4 DEF Place, Role
      <3> QED
        BY <2>1, <2>4, <3>1 DEF ServicesSound, Sound, Current
    <2> QED
      BY <2>2, <2>3, <2>4
  <1>6. ASSUME NEW at \in {"copy", "files", "append", "validate", "rollback"}, GoesTo(at),
               UNCHANGED <<bin, unit, running, exited>>
        PROVE  Ok
    BY <1>4, <1>6, GoesToMakes
  <1>7. ASSUME UNCHANGED <<cmd, bin, unit>>,
               \/ UNCHANGED <<running, exited>>
               \/ \E r \in Role : Exits(r) \/ Returns(r)
        PROVE  Ok
    <2>1. CASE UNCHANGED <<running, exited>>
      BY <1>4, <1>7, <2>1
    <2>2. ASSUME NEW r \in Role, Exits(r) \/ Returns(r)
          PROVE  \A s \in Role : UpTo(s) => UpTo(s)'
      <3>1. exited \in [Role -> Conf \cup {0}]
        BY DEF InstallTyped, TypeOK
      <3>2. UNCHANGED <<bin, unit>> /\ \A s \in Role \ {r} : /\ running'[s] = running[s]
                                                           /\ exited'[s] = exited[s]
        BY <1>3, <1>7, <2>2, <3>1 DEF Exits, Returns
      <3>3. \A s \in Role \ {r} : UpTo(s) => UpTo(s)'
        BY <3>2 DEF UpTo
      <3>4. CASE Exits(r)
        <4>1. running[r] # Down /\ running'[r] = Down /\ exited'[r] = running[r].conf
          BY <1>3, <3>1, <3>4 DEF Exits
        <4> QED
          BY <3>2, <3>3, <4>1 DEF UpTo
      <3>5. CASE Returns(r)
        <4>1. running'[r] = [build |-> bin, conf |-> exited[r]] /\ running[r] = Down
              /\ bin # 0
          BY <1>3, <3>1, <3>5 DEF Returns
        <4> QED
          BY <3>2, <3>3, <4>1 DEF UpTo, Down
      <3> QED
        BY <2>2, <3>4, <3>5
    <2> QED
      BY <1>7, <1>17, <2>1, <2>2
  <1>8. ~StepFails /\ ~Interrupt /\ ~NothingToBoot /\ ~CaddyRollback
        /\ \A r \in Role : ~LoadFails(r)
    BY FailedOnes
  <1>9. CASE CheckBinary
    <2>1. ~StepDone(FALSE)
      BY <1>9, StepDoneMakes DEF CheckBinary, AtStep
    <2> QED
      BY <1>6, <1>9, <2>1 DEF CheckBinary, svcVars, binVars
  <1>10. CASE CopyBinary
    <2>1. cmd.at = "copy" /\ cmd.step \in {"binary", "service"} /\ bin' = cmd.build
      BY <1>10 DEF CopyBinary, AtStep
    <2>2. CASE cmd.step = "binary"
      BY <1>5, <1>10, <2>2 DEF CopyBinary
    <2>3. CASE cmd.step = "service"
      <3>1. cmd.files = {} /\ cmd.procs = {}
        BY <1>3, <2>1, <2>3
      <3>2. cmd'.step = cmd.step /\ cmd'.files = {} /\ cmd'.procs = {}
        BY <1>10, <2>3, <3>1, GoesToMakes DEF CopyBinary
      <3> QED
        BY <1>1, <2>1, <2>3, <3>2
    <2> QED
      BY <2>1, <2>2, <2>3
  <1>11. CASE StepPath \/ StepEnv \/ StepNodeProject
    BY <1>5, <1>11 DEF StepPath, StepEnv, StepNodeProject, Adds, AtStep, svcVars, binVars
  <1>12. CASE StepConfig
    BY <1>6, <1>12 DEF StepConfig, svcVars, binVars
  <1>13. ASSUME NEW r \in Role, WriteUnit(r)
         PROVE  Ok
    <2>1. /\ (cmd.step = "service" /\ cmd.at = "units") \/ cmd.step = "boot"
          /\ r \in Asked /\ r \notin cmd.files
          /\ UNCHANGED <<bin, running, exited>> /\ unit' = [unit EXCEPT ![r] = cmd.plan.conf]
          /\ cmd' = [cmd EXCEPT !.files = @ \cup {r}]
      BY <1>13 DEF WriteUnit, AtUnits, AtStep, Turn, UnitText, binVars
    <2>2. /\ cmd'.step = cmd.step /\ cmd'.at = cmd.at /\ cmd'.procs = cmd.procs
          /\ cmd'.files = cmd.files \cup {r}
      BY <1>3, <2>1 DEF Command
    <2>3. unit'[r] = cmd.plan.conf /\ \A s \in Role \ {r} : unit'[s] = unit[s]
      BY <1>3, <2>1
    <2>6. \A s \in Role \ {r} : UpTo(s) => UpTo(s)'
      BY <2>1, <2>3 DEF UpTo
    <2>4. CASE cmd.step = "service"
      BY <1>1, <1>3, <2>1, <2>2, <2>3, <2>4, <2>6 DEF ServicesSound, Sound
    <2>5. CASE cmd.step = "boot"
      <3>1. r = "boot"
        BY <2>1, <2>5 DEF Asked
      <3>2. \A s \in cmd.plan.roles : unit'[s] = unit[s] /\ (UpTo(s) => UpTo(s)')
        BY <1>3, <2>3, <2>6, <3>1 DEF Role
      <3> QED
        BY <1>3, <2>1, <2>2, <2>5, <3>2 DEF ServicesSound, Sound, Current
    <2> QED
      BY <2>1, <2>4, <2>5
  <1>14. ASSUME NEW r \in Role, LoadUnit(r)
         PROVE  Ok
    <2>1. /\ (cmd.step = "service" /\ cmd.at = "units") \/ cmd.step = "boot"
          /\ r \in Asked /\ r \in cmd.files
          /\ UNCHANGED <<bin, unit>> /\ running' = [running EXCEPT ![r] = Restarted(r)]
          /\ exited' = [exited EXCEPT ![r] = 0]
          /\ IF cmd.procs \cup {r} = Asked THEN StepDone(TRUE)
                                           ELSE cmd' = [cmd EXCEPT !.procs = @ \cup {r}]
      BY <1>14 DEF LoadUnit, AtUnits, AtStep, Turn
    <2>2. \A s \in Role \ {r} : UpTo(s) => UpTo(s)'
      <3>1. exited \in [Role -> Conf \cup {0}]
        BY DEF InstallTyped, TypeOK
      <3>2. \A s \in Role \ {r} : running'[s] = running[s] /\ exited'[s] = exited[s]
        BY <1>3, <2>1, <3>1
      <3> QED
        BY <2>1, <3>2 DEF UpTo
    <2>3. CASE cmd.step = "service"
      <3>1. Asked = cmd.plan.roles /\ r # "boot"
        BY <1>3, <2>1, <2>3 DEF Asked
      <3>2. running'[r] = [build |-> bin, conf |-> unit[r]]
        BY <1>3, <1>14, <2>1, <3>1, LoadsWhat
      <3>3. /\ bin = cmd.build /\ \A s \in cmd.files : unit[s] = cmd.plan.conf
            /\ \A s \in cmd.procs \cup {r} : UpTo(s)'
        <4>1. UpTo(r)'
          BY <2>1, <3>2 DEF UpTo
        <4> QED
          BY <1>3, <2>1, <2>2, <2>3, <4>1 DEF ServicesSound, Sound
      <3>4. CASE cmd.procs \cup {r} = Asked
        <4>1. cmd'.at = "start"
          BY <2>1, <2>3, <3>4, StepDoneMakes
        <4>2. \A s \in cmd.plan.roles : s \in cmd.files /\ s \in cmd.procs \cup {r}
          BY <1>3, <2>1, <3>1, <3>4
        <4> QED
          BY <2>1, <3>3, <4>1, <4>2
      <3>5. CASE cmd.procs \cup {r} # Asked
        <4>1. /\ cmd'.step = cmd.step /\ cmd'.at = cmd.at /\ cmd'.files = cmd.files
              /\ cmd'.procs = cmd.procs \cup {r}
          BY <1>3, <2>1, <3>5 DEF Command
        <4> QED
          BY <1>1, <2>1, <2>3, <3>3, <4>1
      <3> QED
        BY <3>4, <3>5
    <2>4. CASE cmd.step = "boot"
      <3>1. r = "boot"
        BY <2>1, <2>4 DEF Asked
      <3>2. \A s \in cmd.plan.roles : (UpTo(s) => UpTo(s)') /\ unit'[s] = unit[s]
        BY <1>3, <2>1, <2>2, <3>1 DEF Role
      <3>3. Place("boot") = 7
        BY DEF Place
      <3>4. cmd'.step # "service" \/ cmd'.at # "units"
        <4>1. CASE StepDone(TRUE)
          BY <2>4, <4>1, StepDoneMakes
        <4>2. CASE cmd' = [cmd EXCEPT !.procs = @ \cup {r}]
          BY <1>3, <2>4, <4>2 DEF Command
        <4> QED
          BY <2>1, <4>1, <4>2
      <3> QED
        BY <2>1, <2>4, <3>2, <3>3, <3>4 DEF ServicesSound, Sound, Current
    <2> QED
      BY <2>1, <2>3, <2>4
  <1>15. CASE CaddyRead \/ CaddyAppend \/ CaddyValidate
    <2>1. /\ cmd.step = "caddy" /\ UNCHANGED <<bin, unit, running, exited>>
          /\ \/ \E ok \in BOOLEAN : StepDone(ok)
             \/ GoesTo("validate") \/ GoesTo("rollback")
             \/ cmd' = [cmd EXCEPT !.at = "append", !.read = caddy]
      BY <1>15 DEF CaddyRead, CaddyAppend, CaddyValidate, CaddyStep, AtStep, Rejected, binVars,
         svcVars
    <2>2. CASE cmd' = [cmd EXCEPT !.at = "append", !.read = caddy]
      <3>1. /\ cmd'.step = cmd.step /\ cmd'.at = "append" /\ cmd'.files = cmd.files
            /\ cmd'.procs = cmd.procs
        BY <1>3, <2>2 DEF Command
      <3> QED
        BY <1>4, <2>1, <3>1
    <2> QED
      BY <1>5, <1>6, <2>1, <2>2
  <1>16. CASE FilesDone("setup")
    <2>1. cmd.step = "config"
      BY <1>16 DEF FilesDone, InstallTyped, InstallersKept, Placed, Installer, Idle
    <2> QED
      BY <1>5, <1>16, <2>1 DEF FilesDone, binVars, svcVars
  <1> QED
    BY <1>2, <1>7, <1>8, <1>9, <1>10, <1>11, <1>12, <1>13, <1>14, <1>15, <1>16, SetupMoves,
       QuietHost

-----------------------------------------------------------------------------
(* What a setup leaves, and finds when it is run again.                    *)

There(f, b) == f \in links \/ disk[f] = Merged(b)[f]

\* What step s of the command is for is there already.
Has(s) ==
    /\ s = "binary" => bin = cmd.build /\ shaba # "none"
    /\ s = "path" => s \in own
    /\ s = "env" => Scaffolded
    /\ s = "config" => \A x \in Items(cmd.build) : There(x[2], cmd.build)
    /\ s = "node" => label \in project
    /\ s = "service" => bin = cmd.build /\ \A r \in cmd.plan.roles : unit[r] = cmd.plan.conf
    /\ s = "boot" => unit["boot"] = cmd.plan.conf
    /\ s = "caddy" => caddy.block # "none"

Quiet == cmd.kind = "setup" /\ ~disturbed

\* A command run again has all it is for; another has what its steps so far are
\* for, unless one of them failed.
HasDone ==
    /\ Quiet /\ cmd.again => \A s \in cmd.plan.steps : Has(s)
    /\ Quiet /\ ~cmd.failed =>
          \A s \in cmd.plan.steps : Place(s) < Place(cmd.step) => Has(s)

\* Inside a step.
StepHolds ==
    /\ Quiet /\ cmd.step # "done" => cmd.step \in cmd.plan.steps
    /\ Quiet /\ cmd.step = "caddy" /\ cmd.at = "validate" => caddy.block # "none"
    /\ Quiet /\ cmd.again => /\ cmd.step = "caddy" => cmd.at = "start"
                             /\ inst["setup"].at \notin {"backup", "write"}
    /\ Quiet /\ cmd.step = "config" /\ cmd.at = "files" =>
          \A x \in Items(cmd.build) \ inst["setup"].left :
             \/ There(x[2], cmd.build)
             \/ inst["setup"].at # "next" /\ x = inst["setup"].item
    /\ Quiet /\ ~cmd.failed /\ cmd.step = "boot" =>
          \A r \in cmd.files : unit[r] = cmd.plan.conf

RerunInv == ~churned /\ HasDone /\ StepHolds

LEMMA RerunInit == Init => RerunInv
  BY DEF Init, RerunInv, HasDone, StepHolds, Quiet, NoCmd

\* What is there stays there.
LEMMA HasStays ==
    ASSUME InstallTyped, [Next]_vars, cmd.kind = "setup", ~disturbed', NEW s, Has(s),
           cmd'.plan = cmd.plan, cmd'.build = cmd.build,
           s = "config" => ~Write("setup"), s = "caddy" => ~CaddyRollback
    PROVE  Has(s)'
  <1>1. (s = "binary" => bin = cmd.build /\ shaba # "none")'
    BY QuietHost DEF Has, CopyBinary
  <1>2. (s = "path" => s \in own)' /\ (s = "env" => Scaffolded)'
    BY QuietHost DEF Has, Scaffolded
  <1>3. (s = "config" => \A x \in Items(cmd.build) : There(x[2], cmd.build))'
    <2> SUFFICES ASSUME s = "config"
                 PROVE  (\A x \in Items(cmd.build) : There(x[2], cmd.build))'
      OBVIOUS
    <2>1. UNCHANGED <<disk, links>>
      BY QuietHost
    <2> QED
      BY <2>1 DEF Has, There, Items, Trees, Merged
  <1>4. (s = "node" => label \in project)'
    BY QuietHost DEF Has
  <1>5. \A r \in Role : unit[r] = cmd.plan.conf => unit'[r] = cmd.plan.conf
    BY QuietHost DEF WriteUnit, UnitText, InstallTyped, TypeOK
  <1>6. (s = "service" => bin = cmd.build /\ \A r \in cmd.plan.roles : unit[r] = cmd.plan.conf)'
    <2>1. cmd.plan.roles \subseteq Role
      BY DEF InstallTyped, TypeOK, Command
    <2> QED
      BY <1>5, <2>1, QuietHost DEF Has, CopyBinary
  <1>7. (s = "boot" => unit["boot"] = cmd.plan.conf)'
    BY <1>5 DEF Has, Role
  <1>8. (s = "caddy" => caddy.block # "none")'
    <2> SUFFICES ASSUME s = "caddy"
                 PROVE  caddy'.block # "none"
      OBVIOUS
    <2>1. CASE CaddyAppend
      <3>1. cmd.read \in Caddyfile
        BY DEF InstallTyped, TypeOK, Command
      <3>2. PICK block \in {"good", "bad"} : caddy' = [cmd.read EXCEPT !.block = block]
        BY <2>1 DEF CaddyAppend
      <3>3. caddy'.block = block
        BY <3>1, <3>2 DEF Caddyfile
      <3> QED
        BY <3>3
    <2>2. CASE UNCHANGED caddy
      BY <2>2 DEF Has
    <2> QED
      BY <2>1, <2>2, QuietHost
  <1> QED
    BY <1>1, <1>2, <1>3, <1>4, <1>6, <1>7, <1>8 DEF Has

LEMMA WhatChurns ==
    ASSUME [Next]_vars
    PROVE  \/ UNCHANGED churned
           \/ /\ Changes
              /\ \/ CopyBinary /\ <<bin', shaba'>> # <<bin, shaba>>
                 \/ StepPath /\ "path" \notin own
                 \/ StepEnv /\ ~Scaffolded
                 \/ StepNodeProject /\ label \notin project
                 \/ Backup("setup") \/ Write("setup")
                 \/ \E r \in Role : WriteUnit(r) /\ unit[r] # UnitText
                 \/ CaddyAppend
  <1>1. CASE CopyBinary \/ StepPath \/ StepEnv \/ StepNodeProject \/ CaddyAppend
    BY <1>1 DEF CopyBinary, StepPath, StepEnv, StepNodeProject, Adds, CaddyAppend, Keeps
  <1>2. ASSUME NEW r \in Role, WriteUnit(r)
        PROVE  UNCHANGED churned \/ (Changes /\ unit[r] # UnitText)
    BY <1>2 DEF WriteUnit, Keeps
  <1>3. ASSUME NEW p \in Installer, Backup(p) \/ Write(p)
        PROVE  UNCHANGED churned \/ (Changes /\ p = "setup")
    BY <1>3 DEF Backup, Write, Disturbs
  <1>4. \/ UNCHANGED churned
        \/ CopyBinary \/ StepPath \/ StepEnv \/ StepNodeProject \/ CaddyAppend
        \/ \E r \in Role : WriteUnit(r)
        \/ \E p \in Installer : Backup(p) \/ Write(p)
    BY DEF Next, vars, Setup, Files, Uninstall, Others, RunSetup, StepFails, Interrupt,
         CheckBinary, StepConfig, LoadUnit, LoadFails,
         NothingToBoot, CaddyRead, CaddyValidate, CaddyRollback,
         NextFile, Look, FilesDone, FileFails, RunUninstall, StopUnit, RemoveUnit, RemoveBinary,
         RemoveState, Edit, EditCaddyfile, Rename, AgentStages, AgentSwaps, Exits, Returns, Tick,
         Keeps, Disturbs, ByHand
  <1> QED
    BY <1>1, <1>2, <1>3, <1>4

LEMMA AgainChangesNothing ==
    ASSUME InstallTyped, RerunInv, [Next]_vars
    PROVE  ~churned'
  <1> SUFFICES ASSUME Changes, cmd.again, ~disturbed,
                      \/ CopyBinary /\ <<bin', shaba'>> # <<bin, shaba>>
                      \/ StepPath /\ "path" \notin own
                      \/ StepEnv /\ ~Scaffolded
                      \/ StepNodeProject /\ label \notin project
                      \/ Backup("setup") \/ Write("setup")
                      \/ \E r \in Role : WriteUnit(r) /\ unit[r] # UnitText
                      \/ CaddyAppend
               PROVE  FALSE
    <2>1. ~churned
      BY DEF RerunInv
    <2> QED
      BY <2>1, WhatChurns DEF Changes
  <1>1. ASSUME Backup("setup") \/ Write("setup")
        PROVE  FALSE
    <2>1. inst["setup"].at \in {"backup", "write"}
      BY <1>1 DEF Backup, Write
    <2>2. inst["setup"].build # 0
      BY <2>1 DEF InstallTyped, InstallersKept, Placed, Installer, Idle
    <2>3. cmd.kind = "setup"
      BY <2>2 DEF InstallTyped, InstallersKept
    <2> QED
      BY <2>1, <2>3 DEF RerunInv, StepHolds, Quiet
  <1> SUFFICES ASSUME cmd.kind = "setup", cmd.step # "done"
               PROVE  FALSE
    BY <1>1 DEF CopyBinary, StepPath, StepEnv, StepNodeProject, Adds, WriteUnit, CaddyAppend,
                CaddyStep, AtUnits, AtStep
  <1>2. Has(cmd.step)
    BY DEF RerunInv, HasDone, StepHolds, Quiet
  <1>3. ASSUME CopyBinary
        PROVE  <<bin', shaba'>> = <<bin, shaba>>
    BY <1>2, <1>3 DEF CopyBinary, AtStep, Has, Linked, InstallTyped, TypeOK
  <1>4. ASSUME StepPath
        PROVE  "path" \in own
    BY <1>2, <1>4 DEF StepPath, Adds, AtStep, Has
  <1>5. ASSUME StepEnv
        PROVE  Scaffolded
    BY <1>2, <1>5 DEF StepEnv, Adds, AtStep, Has
  <1>6. ASSUME StepNodeProject
        PROVE  label \in project
    BY <1>2, <1>6 DEF StepNodeProject, Adds, AtStep, Has
  <1>7. ASSUME NEW r \in Role, WriteUnit(r)
        PROVE  unit[r] = UnitText
    BY <1>2, <1>7 DEF WriteUnit, AtUnits, AtStep, Turn, Asked, UnitText, Has
  <1>8. ~CaddyAppend
    BY DEF CaddyAppend, CaddyStep, AtStep, RerunInv, StepHolds, Quiet
  <1> QED
    BY <1>1, <1>3, <1>4, <1>5, <1>6, <1>7, <1>8

\* What a step is for is there when it ends without a failure.
LEMMA StepLeaves ==
    ASSUME InstallTyped, ServicesSound, StepHolds, [Next]_vars, Quiet, ~disturbed',
           ~cmd.failed, ~cmd'.failed, cmd'.step # cmd.step,
           cmd'.plan = cmd.plan, cmd'.build = cmd.build,
           cmd.plan \in Plan, cmd.build \in Build,
           \/ UNCHANGED cmd
           \/ StepFails \/ Interrupt \/ CheckBinary \/ CopyBinary
           \/ StepPath \/ StepEnv \/ StepNodeProject \/ StepConfig
           \/ \E r \in Role : WriteUnit(r) \/ LoadUnit(r) \/ LoadFails(r)
           \/ NothingToBoot \/ CaddyRead \/ CaddyAppend \/ CaddyValidate \/ CaddyRollback
           \/ FilesDone("setup"),
           NEW s, s = cmd.step
    PROVE  Has(s)' /\ cmd'.step = After(cmd.plan, cmd.step) /\ cmd.step \in SetupStep
  <1>1. cmd \in Command /\ cmd.kind = "setup"
    BY DEF InstallTyped, TypeOK, Quiet
  <1>2. ~StepFails /\ ~Interrupt /\ ~NothingToBoot /\ ~CaddyRollback
        /\ \A r \in Role : ~LoadFails(r)
    BY <1>1, FailedOnes
  <1>3. ASSUME NEW ok \in BOOLEAN, StepDone(ok), cmd.step # "done"
        PROVE  ok /\ cmd'.step = After(cmd.plan, cmd.step) /\ cmd.step \in SetupStep
    BY <1>1, <1>3, StepDoneMakes
  <1>4. ASSUME NEW at, GoesTo(at)
        PROVE  FALSE
    BY <1>1, <1>4 DEF GoesTo, Command
  <1>5. ~CheckBinary /\ ~StepConfig /\ ~CaddyAppend
    BY <1>1, <1>3, <1>4 DEF CheckBinary, StepConfig, CaddyAppend, CaddyStep, AtStep
  <1>6. ASSUME NEW r \in Role
        PROVE  ~WriteUnit(r)
    BY <1>1 DEF WriteUnit, Command
  <1>7. CASE CopyBinary
    <2>1. cmd.step = "binary" /\ StepDone(TRUE) /\ bin' = cmd.build /\ shaba' # "none"
      BY <1>4, <1>7 DEF CopyBinary, AtStep, Linked
    <2> QED
      BY <1>3, <2>1 DEF Has
  <1>8. CASE StepPath \/ StepEnv \/ StepNodeProject
    <2>1. cmd.step \in {"path", "env", "node"} /\ StepDone(TRUE)
      BY <1>8 DEF StepPath, StepEnv, StepNodeProject, Adds, AtStep
    <2>2. StepPath => Has(s)'
      BY DEF StepPath, Adds, AtStep, Has
    <2>3. ASSUME StepEnv
          PROVE  Has(s)'
      <3>1. own' = IF Scaffolded THEN own ELSE (own \cup {"env"}) \ {"decided"}
        BY <2>3 DEF StepEnv
      <3>2. Scaffolded'
        BY <3>1 DEF Scaffolded
      <3> QED
        BY <2>3, <3>2 DEF StepEnv, Adds, AtStep, Has
    <2>4. StepNodeProject => Has(s)'
      BY DEF StepNodeProject, Adds, AtStep, Has, hostVars
    <2> QED
      BY <1>3, <1>8, <2>1, <2>2, <2>3, <2>4
  <1>9. ASSUME NEW r \in Role, LoadUnit(r)
        PROVE  Has(s)' /\ cmd'.step = After(cmd.plan, cmd.step) /\ cmd.step \in SetupStep
    <2>1. /\ (cmd.step = "service" /\ cmd.at = "units") \/ cmd.step = "boot"
          /\ r \in Asked /\ r \in cmd.files /\ UNCHANGED <<bin, unit>>
          /\ IF cmd.procs \cup {r} = Asked THEN StepDone(TRUE)
                                           ELSE cmd' = [cmd EXCEPT !.procs = @ \cup {r}]
      BY <1>9 DEF LoadUnit, AtUnits, AtStep, Turn
    <2>2. cmd' # [cmd EXCEPT !.procs = @ \cup {r}]
      BY <1>1 DEF Command
    <2>3. StepDone(TRUE) /\ cmd.procs \cup {r} = Asked
      BY <2>1, <2>2
    <2>4. CASE cmd.step = "service"
      <3>1. cmd.procs \subseteq cmd.files /\ Asked = cmd.plan.roles
        BY <1>1, <2>4 DEF InstallTyped, UnitsKept, Asked
      <3>2. bin = cmd.build /\ \A x \in cmd.plan.roles : unit[x] = cmd.plan.conf
        BY <2>1, <2>3, <2>4, <3>1 DEF ServicesSound, Sound, Quiet
      <3> QED
        BY <1>3, <2>1, <2>3, <2>4, <3>2 DEF Has
    <2>5. CASE cmd.step = "boot"
      <3>1. unit["boot"] = cmd.plan.conf
        BY <2>1, <2>5 DEF Asked, StepHolds
      <3> QED
        BY <1>3, <2>1, <2>3, <2>5, <3>1 DEF Has
    <2> QED
      BY <2>1, <2>4, <2>5
  <1>10. CASE CaddyRead \/ CaddyValidate
    <2>1. cmd.step = "caddy" /\ UNCHANGED caddy
      BY <1>10 DEF CaddyRead, CaddyValidate, CaddyStep, AtStep
    <2>2. CASE CaddyRead
      <3>1. cmd' # [cmd EXCEPT !.at = "append", !.read = caddy]
        BY <1>1 DEF Command
      <3>2. StepDone(os # "darwin") /\ (os = "darwin" \/ caddy.block # "none")
        BY <2>2, <3>1 DEF CaddyRead
      <3> QED
        BY <1>3, <2>1, <3>2 DEF Has
    <2>3. CASE CaddyValidate
      <3>1. StepDone(TRUE) /\ cmd.at = "validate"
        BY <1>4, <2>3 DEF CaddyValidate, CaddyStep, AtStep, Rejected
      <3> QED
        BY <1>3, <2>1, <3>1 DEF Has, StepHolds
    <2> QED
      BY <1>10, <2>2, <2>3
  <1>11. CASE FilesDone("setup")
    <2>1. StepDone(TRUE) /\ inst["setup"].at = "next" /\ inst["setup"].left = {}
          /\ UNCHANGED <<disk, links>>
      BY <1>11 DEF FilesDone, fileVars
    <2>2. cmd.step = "config" /\ cmd.at = "files"
      BY <2>1 DEF InstallTyped, InstallersKept, Placed, Installer, Idle
    <2>3. \A x \in Items(cmd.build) : There(x[2], cmd.build)
      BY <2>1, <2>2 DEF StepHolds
    <2>4. (\A x \in Items(cmd.build) : There(x[2], cmd.build))'
      BY <2>1, <2>3 DEF There, Items, Trees, Merged
    <2>5. Has(s)'
      BY <2>2, <2>4 DEF Has
    <2> QED
      BY <1>3, <2>1, <2>2, <2>5
  <1> QED
    BY <1>2, <1>5, <1>6, <1>7, <1>8, <1>9, <1>10, <1>11

LEMMA HasDoneNext ==
    ASSUME InstallTyped, ServicesSound, RerunInv, [Next]_vars
    PROVE  HasDone'
  <1> SUFFICES ASSUME cmd'.kind = "setup", ~disturbed'
               PROVE  /\ cmd'.again => \A s \in cmd'.plan.steps : Has(s)'
                      /\ ~cmd'.failed => \A s \in cmd'.plan.steps :
                                           Place(s) < Place(cmd'.step) => Has(s)'
    BY DEF HasDone, Quiet
  <1>1. \A s \in SetupStep : Place(s) \in 1..8
    BY SetupSteps DEF Place
  <1>2. ASSUME NEW plan \in Plan, NEW b \in Build, RunSetup(plan, b)
        PROVE  /\ cmd'.again => \A s \in cmd'.plan.steps : Has(s)'
               /\ \A s \in cmd'.plan.steps : ~(Place(s) < Place(cmd'.step))
    <2>1. /\ cmd'.plan = plan /\ cmd'.build = b /\ cmd'.step = After(plan, "begin")
          /\ cmd'.again = (/\ cmd.kind = "setup" /\ ~cmd.failed /\ ~disturbed
                           /\ <<cmd.plan, cmd.build>> = <<plan, b>>)
          /\ cmd.step = "done"
      BY <1>2, RunSetupMakes
    <2>2. plan.steps \subseteq SetupStep
      BY InstallAssumption
    <2>3. ASSUME NEW s \in plan.steps
          PROVE  ~(Place(s) < Place(cmd'.step))
      <3>1. Place("begin") = 0 /\ Place(s) \in 1..8 /\ Place(cmd'.step) \in Nat
        BY <1>1, <2>2 DEF Place
      <3> QED
        BY <2>1, <2>2, <3>1, AfterGoesOn
    <2>4. ASSUME cmd'.again, NEW s \in plan.steps
          PROVE  Has(s)'
      <3>1. /\ cmd.kind = "setup" /\ ~cmd.failed /\ ~disturbed /\ cmd.plan = plan /\ cmd.build = b
        BY <2>1, <2>4
      <3>2. Place(s) < Place("done")
        BY <1>1, <2>2 DEF Place
      <3>3. Has(s)
        BY <2>1, <3>1, <3>2 DEF RerunInv, HasDone, Quiet
      <3>4. ~Write("setup")
        BY <2>1 DEF Write, InstallTyped, InstallersKept, Placed, Installer, Idle
      <3>5. ~CaddyRollback
        BY <2>1 DEF CaddyRollback, CaddyStep, AtStep
      <3> QED
        BY <2>1, <3>1, <3>3, <3>4, <3>5, HasStays
    <2> QED
      BY <2>1, <2>3, <2>4
  <1> SUFFICES ASSUME cmd.kind = "setup", ~disturbed, cmd.failed => cmd'.failed,
                      cmd'.plan = cmd.plan, cmd'.build = cmd.build, cmd'.again = cmd.again,
                      cmd.plan \in Plan, cmd.build \in Build,
                      \/ UNCHANGED cmd
                      \/ StepFails \/ Interrupt \/ CheckBinary \/ CopyBinary
                      \/ StepPath \/ StepEnv \/ StepNodeProject \/ StepConfig
                      \/ \E r \in Role : WriteUnit(r) \/ LoadUnit(r) \/ LoadFails(r)
                      \/ NothingToBoot \/ CaddyRead \/ CaddyAppend \/ CaddyValidate
                      \/ CaddyRollback
                      \/ FilesDone("setup")
               PROVE  /\ cmd'.again => \A s \in cmd'.plan.steps : Has(s)'
                      /\ ~cmd'.failed => \A s \in cmd'.plan.steps :
                                           Place(s) < Place(cmd'.step) => Has(s)'
    BY <1>2, SetupMoves
  <1>3. cmd.plan.steps \subseteq SetupStep /\ Quiet
    BY InstallAssumption DEF Quiet
  <1>4. Write("setup") => cmd.step = "config" /\ inst["setup"].at = "write"
    BY DEF Write, InstallTyped, InstallersKept, Placed, Installer, Idle
  <1>5. CaddyRollback => cmd.step = "caddy" /\ cmd.at = "rollback"
    BY DEF CaddyRollback, CaddyStep, AtStep
  <1>6. ASSUME cmd'.again, NEW s \in cmd'.plan.steps
        PROVE  Has(s)'
    <2>1. Has(s)
      BY <1>3, <1>6 DEF RerunInv, HasDone
    <2>2. ~Write("setup") /\ ~CaddyRollback
      BY <1>3, <1>4, <1>5, <1>6 DEF RerunInv, StepHolds
    <2> QED
      BY <2>1, <2>2, HasStays
  <1>7. ASSUME ~cmd'.failed, NEW s \in cmd'.plan.steps, Place(s) < Place(cmd'.step)
        PROVE  Has(s)'
    <2>1. CASE Place(s) < Place(cmd.step)
      <3>1. Has(s)
        BY <1>3, <1>7, <2>1 DEF RerunInv, HasDone
      <3>2. (s = "config" => ~Write("setup")) /\ (s = "caddy" => ~CaddyRollback)
        BY <1>4, <1>5, <2>1 DEF Place
      <3> QED
        BY <3>1, <3>2, HasStays
    <2>2. CASE ~(Place(s) < Place(cmd.step))
      <3>1. cmd'.step # cmd.step
        BY <1>7, <2>2
      <3>2. PICK t : t = cmd.step
        OBVIOUS
      <3>3. Has(t)' /\ cmd'.step = After(cmd.plan, cmd.step) /\ cmd.step \in SetupStep
        BY <1>3, <1>7, <3>1, <3>2, StepLeaves DEF RerunInv
      <3>4. s \in SetupStep \cap cmd.plan.steps
        BY <1>3
      <3>5. ~(Place(cmd.step) < Place(s))
        <4>1. Place(cmd'.step) \in Nat /\ Place(s) \in Nat
          BY <1>1, <3>4 DEF Place
        <4> QED
          BY <1>7, <3>3, <3>4, <4>1, AfterGoesOn
      <3>6. Place(s) = Place(cmd.step)
        BY <1>1, <2>2, <3>3, <3>4, <3>5
      <3>7. s = t
        BY <3>2, <3>3, <3>4, <3>6, PlaceOfStep
      <3> QED
        BY <3>3, <3>7
    <2> QED
      BY <2>1, <2>2
  <1> QED
    BY <1>6, <1>7

\* What becomes of the files that setup installs.
LEMMA SetupInstallerMoves ==
    ASSUME InstallTyped, [Next]_vars
    PROVE  \/ inst'["setup"] = inst["setup"]
           \/ inst'["setup"] = Idle /\ (StepFails \/ Interrupt \/ FilesDone("setup"))
           \/ StepConfig \/ NextFile("setup") \/ Look("setup")
           \/ Backup("setup") \/ Write("setup")
  <1>1. inst \in [Installer -> Installation] /\ "setup" \in Installer
    BY DEF InstallTyped, TypeOK, Installer
  <1>2. ASSUME NEW i, inst' = [inst EXCEPT !["start"] = i]
        PROVE  inst'["setup"] = inst["setup"]
    BY <1>1, <1>2
  <1>3. CASE StepFails \/ Interrupt \/ FilesDone("setup")
    BY <1>1, <1>3 DEF StepFails, Interrupt, FilesDone
  <1>4. CASE FileFails
    BY <1>1, <1>4 DEF FileFails
  <1>5. CASE NextFile("start") \/ Look("start") \/ Backup("start") \/ Write("start")
    BY <1>5, InstallerMoves DEF Installer
  <1>6. CASE FilesDone("start")
    BY <1>2, <1>6 DEF FilesDone
  <1>7. ASSUME NEW r \in Role, LoadUnit(r) \/ LoadFails(r) \/ StopUnit(r)
        PROVE  inst'["setup"] = inst["setup"]
    BY <1>2, <1>7 DEF LoadUnit, LoadFails, StopUnit, AgentStarts, AgentEnds
  <1>8. ASSUME AgentSwaps \/ \E r \in Role : Exits(r) \/ Returns(r)
        PROVE  inst'["setup"] = inst["setup"]
    BY <1>2, <1>8 DEF AgentSwaps, Exits, Returns, AgentStarts, AgentEnds
  <1> QED
    BY <1>3, <1>4, <1>5, <1>6, <1>7, <1>8, InstallersChange DEF Installer

LEMMA StepHoldsNext ==
    ASSUME InstallTyped, RerunInv, [Next]_vars
    PROVE  StepHolds'
  <1> DEFINE Inside == cmd'.step # "done" => cmd'.step \in cmd'.plan.steps
             Validates == cmd'.step = "caddy" /\ cmd'.at = "validate" => caddy'.block # "none"
             Again == cmd'.again => /\ cmd'.step = "caddy" => cmd'.at = "start"
                                    /\ inst'["setup"].at \notin {"backup", "write"}
             Held(x) == x[2] \in links' \/ disk'[x[2]] = Merged(cmd'.build)[x[2]]
             Holds == cmd'.step = "config" /\ cmd'.at = "files" =>
                         \A x \in Items(cmd'.build) \ inst'["setup"].left :
                            Held(x) \/ (inst'["setup"].at # "next" /\ x = inst'["setup"].item)
             Boots == ~cmd'.failed /\ cmd'.step = "boot" =>
                         \A r \in cmd'.files : unit'[r] = cmd'.plan.conf
  <1> SUFFICES ASSUME cmd'.kind = "setup", ~disturbed'
               PROVE  Inside /\ Validates /\ Again /\ Holds /\ Boots
    BY DEF StepHolds, Quiet, There, Items, Trees, Merged
  <1>1. ASSUME NEW plan \in Plan, NEW b \in Build, RunSetup(plan, b)
        PROVE  Inside /\ Validates /\ Again /\ Holds /\ Boots
    <2>1. /\ cmd'.plan = plan /\ cmd'.at = "start" /\ cmd'.files = {} /\ cmd.step = "done"
          /\ cmd'.step \in (SetupStep \cap plan.steps) \cup {"done"}
      BY <1>1, RunSetupMakes
    <2>2. inst'["setup"] = Idle
      BY <1>1, <2>1 DEF RunSetup, InstallTyped, InstallersKept, Placed, Installer
    <2> QED
      BY <2>1, <2>2 DEF Idle
  <1> SUFFICES ASSUME cmd.kind = "setup", ~disturbed, cmd.failed => cmd'.failed,
                      cmd'.plan = cmd.plan, cmd'.build = cmd.build, cmd'.again = cmd.again,
                      cmd.plan \in Plan, cmd.build \in Build,
                      \/ UNCHANGED cmd
                      \/ StepFails \/ Interrupt \/ CheckBinary \/ CopyBinary
                      \/ StepPath \/ StepEnv \/ StepNodeProject \/ StepConfig
                      \/ \E r \in Role : WriteUnit(r) \/ LoadUnit(r) \/ LoadFails(r)
                      \/ NothingToBoot \/ CaddyRead \/ CaddyAppend \/ CaddyValidate
                      \/ CaddyRollback
                      \/ FilesDone("setup")
               PROVE  Inside /\ Validates /\ Again /\ Holds /\ Boots
    BY <1>1, SetupMoves
  <1>2. /\ Quiet /\ cmd \in Command /\ unit \in [Role -> Conf \cup {0}]
        /\ cmd.step # "done" => cmd.step \in cmd.plan.steps
    BY DEF Quiet, InstallTyped, TypeOK, RerunInv, StepHolds
  \* Every move ends a step, stays in it, or ends the command.
  <1> DEFINE Ended == /\ cmd'.at = "start" /\ cmd'.files = {}
                      /\ cmd'.step \in (SetupStep \cap cmd.plan.steps) \cup {"done"}
             Stays == /\ cmd'.step = cmd.step /\ cmd'.files = cmd.files
                      /\ cmd'.at = cmd.at
             Leads(s, at) == /\ cmd.step = s /\ cmd'.step = s /\ cmd'.files = cmd.files
                             /\ cmd'.at = at
             Adds1(r) == /\ WriteUnit(r) /\ cmd'.step = cmd.step /\ cmd'.at = cmd.at
                         /\ cmd'.files = cmd.files \cup {r} /\ cmd.step \in {"service", "boot"}
  <1>3. \/ Ended \/ Stays \/ cmd'.step = "done"
        \/ Leads("binary", "copy") \/ Leads("service", "copy") \/ Leads("service", "units")
        \/ Leads("config", "files") /\ StepConfig
        \/ Leads("caddy", "append") /\ CaddyRead
        \/ Leads("caddy", "validate") /\ CaddyAppend
        \/ Leads("caddy", "rollback") /\ CaddyValidate
        \/ \E r \in Role : Adds1(r)
    <2>1. ASSUME NEW ok \in BOOLEAN, StepDone(ok), cmd.step # "done"
          PROVE  Ended
      BY <2>1, StepDoneMakes
    <2>2. ASSUME NEW at \in {"copy", "files", "units", "validate", "rollback"}, GoesTo(at)
          PROVE  cmd'.step = cmd.step /\ cmd'.files = cmd.files /\ cmd'.at = at
      BY <2>2, GoesToMakes
    <2>3. CASE UNCHANGED cmd
      BY <2>3
    <2>4. CASE StepFails \/ StepPath \/ StepEnv \/ StepNodeProject \/ NothingToBoot
               \/ CaddyRollback
      BY <2>1, <2>4 DEF StepFails, StepPath, StepEnv, StepNodeProject, Adds, NothingToBoot,
         CaddyRollback, CaddyStep, AtStep
    <2>5. CASE FilesDone("setup")
      <3>1. cmd.step = "config"
        BY <2>5 DEF FilesDone, InstallTyped, InstallersKept, Placed, Installer, Idle
      <3> QED
        BY <2>1, <2>5, <3>1 DEF FilesDone
    <2>6. CASE Interrupt
      BY <1>2, <2>6 DEF Interrupt, Command
    <2>7. CASE CheckBinary \/ CopyBinary
      BY <2>1, <2>2, <2>7 DEF CheckBinary, CopyBinary, AtStep
    <2>8. CASE StepConfig
      BY <2>2, <2>8 DEF StepConfig, AtStep
    <2>9. CASE CaddyAppend \/ CaddyValidate
      BY <2>1, <2>2, <2>9 DEF CaddyAppend, CaddyValidate, CaddyStep, AtStep, Rejected
    <2>10. CASE CaddyRead
      <3>1. CASE cmd' = [cmd EXCEPT !.at = "append", !.read = caddy]
        BY <1>2, <2>10, <3>1 DEF CaddyRead, CaddyStep, AtStep, Command
      <3> QED
        BY <2>1, <2>10, <3>1 DEF CaddyRead, CaddyStep, AtStep
    <2>11. ASSUME NEW r \in Role, WriteUnit(r)
           PROVE  Adds1(r)
      BY <1>2, <2>11 DEF WriteUnit, AtUnits, AtStep, Command
    <2>12. ASSUME NEW r \in Role, LoadUnit(r)
           PROVE  Ended \/ Stays
      <3>1. CASE cmd' = [cmd EXCEPT !.procs = @ \cup {r}]
        BY <1>2, <3>1 DEF Command
      <3> QED
        BY <2>1, <2>12, <3>1 DEF LoadUnit, AtUnits, AtStep
    <2>13. ASSUME NEW r \in Role, LoadFails(r)
           PROVE  Ended
      BY <2>1, <2>13 DEF LoadFails, AtUnits, AtStep
    <2> QED
      BY <2>3, <2>4, <2>5, <2>6, <2>7, <2>8, <2>9, <2>10, <2>11, <2>12, <2>13
  <1>4. Inside
    BY <1>2, <1>3
  <1>5. Validates
    <2>1. CASE CaddyAppend
      <3>1. cmd.read \in Caddyfile
        BY <1>2 DEF Command
      <3>2. PICK block \in {"good", "bad"} : caddy' = [cmd.read EXCEPT !.block = block]
        BY <2>1 DEF CaddyAppend
      <3>3. caddy'.block = block
        BY <3>1, <3>2 DEF Caddyfile
      <3> QED
        BY <3>3
    <2>2. CASE ~CaddyAppend /\ ~CaddyRollback
      <3>1. UNCHANGED caddy
        BY <2>2, QuietHost
      <3> QED
        BY <1>2, <1>3, <2>2, <3>1 DEF RerunInv, StepHolds
    <2>3. CASE CaddyRollback
      BY <2>3, StepDoneMakes DEF CaddyRollback, CaddyStep, AtStep
    <2> QED
      BY <2>1, <2>2, <2>3
  <1>6. Again
    <2> SUFFICES ASSUME cmd.again
                 PROVE  /\ cmd'.step = "caddy" => cmd'.at = "start"
                        /\ inst'["setup"].at \notin {"backup", "write"}
      OBVIOUS
    <2>1. cmd.step = "caddy" => cmd.at = "start"
      BY <1>2 DEF RerunInv, StepHolds
    <2>2. inst["setup"].at \notin {"backup", "write"}
      BY <1>2 DEF RerunInv, StepHolds
    <2>3. ~CaddyAppend /\ ~CaddyValidate
      BY <2>1 DEF CaddyAppend, CaddyValidate, CaddyStep, AtStep
    <2>4. ~(Leads("caddy", "append") /\ CaddyRead)
      <3> SUFFICES ASSUME CaddyRead, cmd.step = "caddy", cmd'.at = "append"
                   PROVE  FALSE
        OBVIOUS
      <3>1. caddy.block # "none"
        BY <1>2 DEF RerunInv, HasDone, Has
      <3>2. StepDone(os # "darwin")
        BY <3>1 DEF CaddyRead
      <3> QED
        BY <3>2, StepDoneMakes
    <2>5. cmd'.step = "caddy" => cmd'.at = "start"
      BY <1>3, <2>1, <2>3, <2>4
    <2>6. inst'["setup"].at \notin {"backup", "write"}
      <3>1. CASE inst'["setup"] = inst["setup"] \/ inst'["setup"] = Idle
        BY <2>2, <3>1 DEF Idle
      <3>2. CASE StepConfig
        BY <3>2, InstallsMakes DEF StepConfig, InstallTyped, TypeOK, Installer
      <3>3. CASE NextFile("setup")
        BY <3>3, NextFileMakes DEF Installer
      <3>4. CASE Look("setup")
        <4>1. /\ inst["setup"].build = cmd.build /\ cmd.step = "config"
              /\ inst["setup"].item \in Items(cmd.build)
          BY <3>4 DEF Look, InstallTyped, InstallersKept, Placed, Installer, Idle
        <4>2. There(inst["setup"].item[2], cmd.build)
          BY <1>2, <4>1 DEF RerunInv, HasDone, Has
        <4>3. Want("setup") = Merged(cmd.build)[inst["setup"].item[2]]
          BY <3>4, <4>1, WantIsText DEF Look, Installer
        <4> QED
          BY <3>4, <4>2, <4>3, LookMakes DEF There, Installer
      <3>5. ~Backup("setup") /\ ~Write("setup")
        BY <2>2 DEF Backup, Write
      <3> QED
        BY <3>1, <3>2, <3>3, <3>4, <3>5, SetupInstallerMoves
    <2> QED
      BY <2>5, <2>6
  <1>7. Holds
    <2> SUFFICES ASSUME cmd'.step = "config", cmd'.at = "files",
                        NEW x \in Items(cmd.build), x \notin inst'["setup"].left
                 PROVE  Held(x) \/ (inst'["setup"].at # "next" /\ x = inst'["setup"].item)
      OBVIOUS
    <2>1. CASE StepConfig
      <3>1. inst'["setup"] = Installs(cmd.build)
        BY <1>2, <2>1 DEF StepConfig, InstallTyped, TypeOK, Installer
      <3> QED
        BY <3>1, InstallsMakes
    <2> SUFFICES ASSUME ~StepConfig
                 PROVE  Held(x) \/ (inst'["setup"].at # "next" /\ x = inst'["setup"].item)
      BY <2>1
    <2>2. cmd.step = "config" /\ cmd.at = "files"
      BY <1>3
    <2>3. x \notin inst["setup"].left =>
             There(x[2], cmd.build) \/ (inst["setup"].at # "next" /\ x = inst["setup"].item)
      BY <1>2, <2>2 DEF RerunInv, StepHolds
    <2>4. ~StepFails /\ ~Interrupt /\ ~FilesDone("setup")
      <3>1. ASSUME NEW ok \in BOOLEAN, StepDone(ok)
            PROVE  FALSE
        BY <2>2, <3>1, StepDoneMakes
      <3>2. ~StepFails
        BY <3>1 DEF StepFails
      <3>3. ~FilesDone("setup")
        BY <3>1 DEF FilesDone
      <3>4. ~Interrupt
        BY <1>2 DEF Interrupt, Command
      <3> QED
        BY <3>2, <3>3, <3>4
    <2>5. UNCHANGED <<disk, links>> \/ Write("setup")
      BY QuietHost
    <2>6. There(x[2], cmd.build) /\ ~Write("setup") => Held(x)
      BY <2>5 DEF There
    <2>7. CASE inst'["setup"] = inst["setup"] /\ ~Write("setup")
      BY <2>3, <2>6, <2>7
    <2>8. "setup" \in Installer
      BY DEF Installer
    <2>9. CASE NextFile("setup")
      <3>1. inst["setup"].at = "next" /\ ~Write("setup")
        BY <2>9 DEF NextFile, Write
      <3> QED
        BY <2>3, <2>6, <2>8, <2>9, <3>1, NextFileMakes
    <2>10. inst["setup"].at \in {"look", "backup", "write"} =>
              /\ inst["setup"].build = cmd.build
              /\ Want("setup") = Merged(cmd.build)[inst["setup"].item[2]]
      <3>1. SUFFICES ASSUME inst["setup"].at \in {"look", "backup", "write"}
                     PROVE  /\ inst["setup"].build = cmd.build
                            /\ Want("setup") = Merged(cmd.build)[inst["setup"].item[2]]
        OBVIOUS
      <3>2. inst["setup"].build = cmd.build
        BY <2>8, <3>1 DEF InstallTyped, InstallersKept, Placed, Idle
      <3> QED
        BY <2>8, <3>1, <3>2, WantIsText
    <2>11. CASE Look("setup")
      <3>1. inst["setup"].at = "look" /\ ~Write("setup")
        BY <2>11 DEF Look, Write
      <3>2. inst'["setup"].at = "next" => There(inst["setup"].item[2], cmd.build)
        BY <2>8, <2>10, <2>11, <3>1, LookMakes DEF There
      <3> QED
        BY <2>3, <2>6, <2>8, <2>11, <3>1, <3>2, LookMakes
    <2>12. CASE Backup("setup")
      <3>1. /\ inst'["setup"].at = "write" /\ inst'["setup"].item = inst["setup"].item
            /\ inst'["setup"].left = inst["setup"].left
            /\ inst["setup"].at = "backup" /\ ~Write("setup")
        BY <2>8, <2>12 DEF Backup, Write, InstallTyped, TypeOK, Installation
      <3> QED
        BY <2>3, <2>6, <3>1
    <2>13. CASE Write("setup")
      <3>1. /\ inst'["setup"].left = inst["setup"].left /\ inst["setup"].at = "write"
        BY <2>8, <2>13 DEF Write, InstallTyped, TypeOK, Installation
      <3>2. PICK f : f = inst["setup"].item[2]
        OBVIOUS
      <3>3. /\ disk' = [disk EXCEPT ![f] = Want("setup")] /\ links' = links \ {f}
            /\ f \in File /\ disk \in [File -> Texts]
        BY <2>8, <2>13, <3>1, <3>2, WantIsText DEF Write, InstallTyped, TypeOK
      <3>4. disk'[f] = Merged(cmd.build)[f]
        BY <2>10, <3>1, <3>2, <3>3
      <3>5. x[2] \in File
        BY DEF Items, Item
      <3>6. CASE x[2] = f
        BY <3>4, <3>6
      <3>7. CASE x[2] # f
        <4>1. disk'[x[2]] = disk[x[2]] /\ (x[2] \in links => x[2] \in links')
          BY <3>3, <3>5, <3>7
        <4>2. There(x[2], cmd.build)
          BY <2>3, <3>1, <3>2, <3>7
        <4> QED
          BY <4>1, <4>2 DEF There
      <3> QED
        BY <3>6, <3>7
    <2> QED
      BY <2>4, <2>7, <2>9, <2>11, <2>12, <2>13, SetupInstallerMoves
  <1>8. Boots
    <2> SUFFICES ASSUME ~cmd'.failed, cmd'.step = "boot", NEW r \in cmd'.files
                 PROVE  unit'[r] = cmd.plan.conf
      OBVIOUS
    <2>1. CASE ~\E q \in Role : WriteUnit(q)
      <3>1. UNCHANGED unit
        BY <2>1, QuietHost
      <3>2. cmd.step = "boot" /\ r \in cmd.files
        BY <1>3, <2>1
      <3> QED
        BY <1>2, <3>1, <3>2 DEF RerunInv, StepHolds
    <2>2. ASSUME NEW q \in Role, WriteUnit(q)
          PROVE  unit'[r] = cmd.plan.conf
      <3>1. /\ cmd'.step = cmd.step /\ cmd'.files = cmd.files \cup {q}
            /\ unit' = [unit EXCEPT ![q] = cmd.plan.conf]
        BY <1>2, <2>2 DEF WriteUnit, Command, UnitText
      <3>2. CASE r = q
        BY <1>2, <2>2, <3>1, <3>2
      <3>3. CASE r # q
        <4>1. r \in cmd.files /\ r \in Role
          BY <1>2, <3>1, <3>3 DEF Command
        <4>2. unit[r] = cmd.plan.conf
          BY <1>2, <3>1, <4>1 DEF RerunInv, StepHolds
        <4> QED
          BY <1>2, <3>1, <3>3, <4>1, <4>2
      <3> QED
        BY <3>2, <3>3
    <2> QED
      BY <2>1, <2>2
  <1> QED
    BY <1>4, <1>5, <1>6, <1>7, <1>8

-----------------------------------------------------------------------------

\* The variables of a host and what setup, the agent and uninstall are doing
\* there keep their types.
THEOREM InstallTypeCorrect == Spec => []TypeOK
  <1>1. InstallTyped /\ [Next]_vars => InstallTyped'
    BY InstallTypedNext
  <1>2. InstallTyped => TypeOK
    BY DEF InstallTyped
  <1> QED
    BY <1>1, <1>2, InstallTypedInit, PTL DEF Spec

\* For any files, builds, plans and bounds: what an installer found in a file
\* and replaced is in a backup, but for two backups taken in one second.
THEOREM NothingIsOverwritten == Spec => []ReplacedIsBackedUp
  <1>1. InstallTyped /\ BackedInv /\ [Next]_vars => BackedInv'
    BY BackedNext
  <1>2. InstallTyped /\ [Next]_vars => InstallTyped'
    BY InstallTypedNext
  <1>3. BackedInv => ReplacedIsBackedUp
    BY DEF BackedInv, Backed, ReplacedIsBackedUp
  <1> QED
    BY <1>1, <1>2, <1>3, InstallTypedInit, BackedInit, PTL DEF Spec

\* For any builds, files, plans and bounds, and whatever the agent was doing: an
\* uninstall that reports no failure has left no unit, no process and, with
\* --all, no binary, while no service manager ever refused to stop a service.
THEOREM UninstallLeavesNothing == Spec => []UninstallIsComplete
  <1>1. InstallTyped /\ UninstallInv /\ [Next]_vars => UninstallInv'
    BY UnheardStays, StoppedNext, RemovedNext DEF UninstallInv
  <1>2. InstallTyped /\ [Next]_vars => InstallTyped'
    BY InstallTypedNext
  <1>3. UninstallInv => UninstallIsComplete
    BY DEF UninstallInv, StoppedStays, RemovedStays, UninstallIsComplete
  <1> QED
    BY <1>1, <1>2, <1>3, InstallTypedInit, UninstallInit, PTL DEF Spec

\* For any builds, files, plans and bounds: a setup that reported success, and
\* that nobody disturbed, has left none of the services it was asked for running
\* anything but its build with the unit it wrote, whatever had failed before it;
\* one that does not run had been started so, and has ended of itself.
THEOREM ServicesAreCurrent == Spec => []ServiceIsCurrent
  <1>1. InstallTyped /\ ServicesSound /\ [Next]_vars => ServicesSound'
    BY ServicesNext
  <1>2. InstallTyped /\ [Next]_vars => InstallTyped'
    BY InstallTypedNext
  <1>3. ServicesSound => ServiceIsCurrent
    <2>1. Place("done") = 9
      BY DEF Place
    <2> QED
      BY <2>1 DEF ServicesSound, Sound, Current, UpTo, ServiceIsCurrent, Settled
  <1> QED
    BY <1>1, <1>2, <1>3, InstallTypedInit, ServicesInit, PTL DEF Spec

\* For any builds, files, plans and bounds: a setup that succeeded and is run
\* again, with nothing changed meanwhile, changes nothing.
THEOREM SetupIsIdempotent == Spec => []RerunChangesNothing
  <1>1. InstallTyped /\ ServicesSound /\ RerunInv /\ [Next]_vars => RerunInv'
    BY AgainChangesNothing, HasDoneNext, StepHoldsNext DEF RerunInv
  <1>2. InstallTyped /\ ServicesSound /\ [Next]_vars => InstallTyped' /\ ServicesSound'
    BY InstallTypedNext, ServicesNext
  <1>3. RerunInv => RerunChangesNothing
    BY DEF RerunInv, RerunChangesNothing
  <1> QED
    BY <1>1, <1>2, <1>3, InstallTypedInit, ServicesInit, RerunInit, PTL DEF Spec

=============================================================================
