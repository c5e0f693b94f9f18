------------------------- MODULE SessionIngest_proofs -------------------------
(***************************************************************************)
(* Proofs about the ingestion of a session, for any number of callers,     *)
(* requests, keys, events, windows, answers and faults.                    *)
(***************************************************************************)
EXTENDS SessionIngest, TLAPS

Work ==
  [pc : {"extract", "commit"}, req : Request, got : Answers,
   link : Linking \cup {NoAnswer}, left : SUBSET Window, err : Failure \cup {"none"}]

CallRec == {Idle} \cup [pc : {"open"}, req : Request] \cup Work

Busy(c) == caller[c].pc \in {"extract", "commit"}

-----------------------------------------------------------------------------
(* The inductive invariant.  What a caller r at work knows of its          *)
(* submission s agrees with the checkpoints ck and ln of its key, and is   *)
(* complete when it commits.                                               *)
CopyOK(r, s, ck, ln) ==
  /\ s.req = r.req
  /\ \A w \in Window : r.got[w] # NoAnswer => ck[w] = r.got[w]
  /\ r.link # NoAnswer => ln = r.link
  /\ r.left \subseteq Filtered(s.req, s.new)
  /\ r.err = "none" => \A w \in Filtered(s.req, s.new) : r.got[w] # NoAnswer \/ w \in r.left
  /\ r.err = "security" => \E w \in Window : r.got[w] \in Signals
  /\ r.pc = "commit" =>
       /\ r.left = {} /\ \A w \in Window : r.got[w] \notin Signals
       /\ (\E w \in Window : r.got[w] \in Facts) => r.link # NoAnswer

Copies ==
  \A c \in Caller : Busy(c) => CopyOK(caller[c], sub[K(c)], ckpt[K(c)], linked[K(c)])

(* What the checkpoints ck and ln of a submission s, and its rejection rj, *)
(* say of each other.                                                      *)
SavedOK(s, ck, ln, rj) ==
  /\ \A w \in Window : ck[w] # NoAnswer => w \in Filtered(s.req, s.new)
  /\ ln # NoAnswer => \E w \in Window : ck[w] \in Facts
  /\ s.state = "completed" => \A w \in Window : ck[w] \notin Signals
  /\ rj \/ s.state = "security" => \E w \in Window : ck[w] \in Signals

Saves == \A k \in Key : SavedOK(sub[k], ckpt[k], linked[k], k \in rejected)

Staged == \A k \in Key : sub[k] = NoSub \/ sub[k].req \in Request

Owners == \A k \in Key : sub[k].new = {e \in Event : owner[e] = k}

(* While no lock was lost its holder is alone, and works on a submission   *)
(* that is not finally failed.                                             *)
Locked ==
  ~lost => \A c \in Caller :
    /\ caller[c].pc # "idle" => lock = c
    /\ Busy(c) => sub[K(c)].state \notin {"final", "security"}

Data == CommittedIsCheckpointed /\ CompletedIsWhole /\ DuplicatesAreFinished /\ Staged /\ Owners

IInv == TypeOK /\ Copies /\ Saves /\ Data /\ Locked

-----------------------------------------------------------------------------
(* Types.                                                                  *)
SubRec == [req : Request \cup {NoRequest}, new : SUBSET Event, state : State]
Applied == [answers : Answers, link : Linking \cup {NoAnswer}]

LEMMA TypeCaller == TypeOK <=>
  /\ sub \in [Key -> SubRec]
  /\ owner \in [Event -> Key \cup {NoKey}] /\ done \subseteq Event
  /\ ckpt \in [Key -> Answers] /\ linked \in [Key -> Linking \cup {NoAnswer}]
  /\ applied \in [Key -> Applied]
  /\ lock \in Caller \cup {NoCaller}
  /\ caller \in [Caller -> CallRec]
  /\ rejected \subseteq Key /\ lost \in BOOLEAN /\ faults \in 0..MaxFaults
BY DEF TypeOK, CallRec, Work, SubRec, Applied

LEMMA CallForms ==
  ASSUME NEW r \in CallRec
  PROVE  /\ r.pc \in {"idle", "open", "extract", "commit"}
         /\ r.pc # "idle" => r.req \in Request /\ KeyOf[r.req] \in Key
         /\ r.pc \in {"extract", "commit"} => r \in Work
BY RequestAssumption DEF CallRec, Work, Idle

LEMMA WorkForms ==
  ASSUME NEW r \in Work
  PROVE  /\ r \in CallRec /\ r.pc \in {"extract", "commit"} /\ r.req \in Request
         /\ r.got \in Answers /\ r.link \in Linking \cup {NoAnswer}
         /\ r.left \in SUBSET Window /\ r.err \in Failure \cup {"none"}
BY DEF CallRec, Work

LEMMA SetErr ==
  ASSUME NEW r \in Work, NEW x \in Failure \cup {"none"}
  PROVE  LET q == [r EXCEPT !.err = x] IN
         /\ q \in Work /\ q.pc = r.pc /\ q.req = r.req /\ q.got = r.got
         /\ q.link = r.link /\ q.left = r.left /\ q.err = x
BY DEF Work

LEMMA SetLeft ==
  ASSUME NEW r \in Work, NEW x \in SUBSET Window
  PROVE  LET q == [r EXCEPT !.left = x] IN
         /\ q \in Work /\ q.pc = r.pc /\ q.req = r.req /\ q.got = r.got
         /\ q.link = r.link /\ q.left = x /\ q.err = r.err
BY DEF Work

LEMMA SetLink ==
  ASSUME NEW r \in Work, NEW a \in Linking
  PROVE  LET q == [r EXCEPT !.link = a] IN
         /\ q \in Work /\ q.pc = r.pc /\ q.req = r.req /\ q.got = r.got
         /\ q.link = a /\ q.left = r.left /\ q.err = r.err
BY DEF Work

LEMMA SetCommit ==
  ASSUME NEW r \in Work
  PROVE  LET q == [r EXCEPT !.pc = "commit"] IN
         /\ q \in Work /\ q.pc = "commit" /\ q.req = r.req /\ q.got = r.got
         /\ q.link = r.link /\ q.left = r.left /\ q.err = r.err
BY DEF Work

LEMMA PutType ==
  ASSUME caller \in [Caller -> CallRec], NEW c \in Caller, NEW r \in CallRec, Put(c, r)
  PROVE  /\ caller' \in [Caller -> CallRec]
         /\ caller'[c] = r
         /\ \A d \in Caller : d # c => caller'[d] = caller[d]
BY DEF Put

LEMMA FaultType == ASSUME faults \in 0..MaxFaults, Fault PROVE faults' \in 0..MaxFaults
BY BoundAssumption DEF Fault

LEMMA IdleForm == Idle \in CallRec /\ Idle.pc = "idle"
BY DEF CallRec, Idle

LEMMA NoSubForm == NoSub \in SubRec /\ NoSub.req = NoRequest /\ NoSub.new = {} /\ NoSub.state = "none"
BY DEF NoSub, SubRec, State

LEMMA InitIInv == Init => IInv
<1> SUFFICES ASSUME Init PROVE IInv
  OBVIOUS
<1>1. TypeOK
  <2>1. Nothing \in Answers
    BY DEF Nothing, Answers
  <2>2. [answers |-> Nothing, link |-> NoAnswer] \in Applied
    BY <2>1 DEF Applied
  <2>3. applied \in [Key -> Applied]
    BY <2>2 DEF Init
  <2>4. sub \in [Key -> SubRec] /\ owner \in [Event -> Key \cup {NoKey}] /\ done \subseteq Event
    BY NoSubForm DEF Init
  <2>5. /\ ckpt \in [Key -> Answers] /\ linked \in [Key -> Linking \cup {NoAnswer}]
        /\ caller \in [Caller -> CallRec]
    BY <2>1, IdleForm DEF Init
  <2>6. lock \in Caller \cup {NoCaller} /\ rejected \subseteq Key /\ lost \in BOOLEAN
    BY DEF Init
  <2>7. faults \in 0..MaxFaults
    BY BoundAssumption DEF Init
  <2> QED
    BY <2>3, <2>4, <2>5, <2>6, <2>7, TypeCaller
<1>2. \A c \in Caller : caller[c].pc = "idle"
  BY IdleForm DEF Init
<1>3. Copies /\ Locked
  BY <1>2 DEF Copies, Locked, Busy
<1>4. Saves
  BY NoSubForm DEF Init, Saves, SavedOK, Nothing
<1>5. Data
  BY NoSubForm, RequestAssumption DEF Init, Data, CommittedIsCheckpointed, CompletedIsWhole, DuplicatesAreFinished, Staged, Owners
<1> QED
  BY <1>1, <1>3, <1>4, <1>5 DEF IInv

-----------------------------------------------------------------------------
(* Steps that leave the store alone.                                       *)
LEMMA QuietStep ==
  ASSUME IInv, UNCHANGED store, NEW c \in Caller, NEW r \in CallRec, Put(c, r),
         r.pc \in {"extract", "commit"} =>
           /\ CopyOK(r, sub[KeyOf[r.req]], ckpt[KeyOf[r.req]], linked[KeyOf[r.req]])
           /\ ~lost => sub[KeyOf[r.req]].state \notin {"final", "security"},
         rejected' \subseteq Key,
         \A k \in rejected' : k \in rejected \/ \E w \in Window : ckpt[k][w] \in Signals,
         lock' \in Caller \cup {NoCaller}, lost' = lost, faults' \in 0..MaxFaults,
         \A d \in Caller : d # c /\ lock = d => lock' = d,
         ~lost /\ r.pc # "idle" => lock' = c
  PROVE  IInv'
<1>1. /\ sub' = sub /\ owner' = owner /\ done' = done /\ ckpt' = ckpt
      /\ linked' = linked /\ applied' = applied
  BY DEF store
<1>2. caller \in [Caller -> CallRec]
  BY TypeCaller DEF IInv
<1>3. /\ caller' \in [Caller -> CallRec] /\ caller'[c] = r
      /\ \A d \in Caller : d # c => caller'[d] = caller[d]
  BY <1>2, PutType
<1>4. TypeOK'
  BY <1>1, <1>3 DEF IInv, TypeOK, CallRec, Work
<1>5. Copies'
  BY <1>1, <1>3 DEF IInv, Copies, Busy, K
<1>6. Saves'
  BY <1>1 DEF IInv, Saves, SavedOK
<1>7. Data'
  BY <1>1 DEF IInv, Data, CommittedIsCheckpointed, CompletedIsWhole, DuplicatesAreFinished, Staged, Owners
<1>8. Locked'
  BY <1>1, <1>3 DEF IInv, Locked, Busy, K
<1> QED
  BY <1>4, <1>5, <1>6, <1>7, <1>8 DEF IInv

(* The end of a request does not forget that it was rejected. *)
LEMMA ReturnStep ==
  ASSUME IInv, NEW c \in Caller, caller[c].pc # "idle", NEW x, Return(c, x),
         x = "security" => \E w \in Window : ckpt[K(c)][w] \in Signals
  PROVE  /\ Put(c, Idle) /\ K(c) \in Key
         /\ rejected' \subseteq Key
         /\ \A k \in rejected' : k \in rejected \/ \E w \in Window : ckpt[k][w] \in Signals
         /\ lock' \in Caller \cup {NoCaller}
         /\ \A d \in Caller : d # c /\ lock = d => lock' = d
<1>1. caller[c] \in CallRec /\ rejected \subseteq Key /\ lock \in Caller \cup {NoCaller}
  BY TypeCaller DEF IInv
<1>2. K(c) \in Key
  BY <1>1, CallForms DEF K
<1> QED
  BY <1>1, <1>2 DEF Return

LEMMA BeginIInv == ASSUME IInv, NEW c \in Caller, NEW r \in Request, Begin(c, r) PROVE IInv'
<1> DEFINE q == [pc |-> "open", req |-> r]
<1>1. q \in CallRec /\ q.pc = "open"
  BY DEF CallRec
<1>2. Put(c, q)
  BY DEF Begin
<1> HIDE DEF q
<1>3. /\ UNCHANGED store /\ rejected' = rejected /\ lost' = lost /\ faults' = faults
      /\ lock' = c /\ lock = NoCaller
  BY DEF Begin
<1>4. rejected \subseteq Key /\ faults \in 0..MaxFaults
  BY DEF IInv, TypeOK
<1>5. \A d \in Caller : lock # d
  BY <1>3, RequestAssumption
<1> QED
  BY <1>1, <1>2, <1>3, <1>4, <1>5, QuietStep

(* What Load copies of a submission agrees with the checkpoints. *)
LEMMA LoadForm ==
  ASSUME NEW req \in Request, NEW s \in SubRec, NEW ck \in Answers, NEW ln \in Linking \cup {NoAnswer},
         s.req = req
  PROVE  LET r == [pc |-> "extract", req |-> req, got |-> ck, link |-> ln,
                   left |-> {w \in Filtered(s.req, s.new) : ck[w] = NoAnswer}, err |-> "none"]
         IN  r \in Work /\ r.req = req /\ CopyOK(r, s, ck, ln)
<1> DEFINE l == {w \in Filtered(s.req, s.new) : ck[w] = NoAnswer}
           r == [pc |-> "extract", req |-> req, got |-> ck, link |-> ln, left |-> l, err |-> "none"]
<1>1. l \in SUBSET Window
  BY DEF Filtered
<1>2. /\ l \subseteq Filtered(s.req, s.new)
      /\ \A w \in Filtered(s.req, s.new) : ck[w] # NoAnswer \/ w \in l
  OBVIOUS
<1> HIDE DEF l
<1>3. r \in Work
  BY <1>1 DEF Work
<1>4. CopyOK(r, s, ck, ln)
  BY <1>2 DEF CopyOK
<1> QED
  BY <1>3, <1>4 DEF l

LEMMA OpenExistingIInv == ASSUME IInv, NEW c \in Caller, OpenExisting(c) PROVE IInv'
<1> DEFINE k == KeyOf[caller[c].req]
           r == [pc |-> "extract", req |-> caller[c].req, got |-> ckpt[k], link |-> linked[k],
                 left |-> {w \in Filtered(sub[k].req, sub[k].new) : ckpt[k][w] = NoAnswer}, err |-> "none"]
<1>1. /\ caller[c].pc = "open" /\ UNCHANGED store /\ lost' = lost /\ faults' = faults
  BY DEF OpenExisting
<1>2. /\ caller[c] \in CallRec /\ sub \in [Key -> SubRec] /\ ckpt \in [Key -> Answers]
      /\ linked \in [Key -> Linking \cup {NoAnswer}] /\ faults \in 0..MaxFaults
      /\ lock \in Caller \cup {NoCaller} /\ rejected \subseteq Key
  BY TypeCaller DEF IInv
<1>3. caller[c].req \in Request /\ k \in Key
  BY <1>1, <1>2, CallForms
<1>4. ASSUME NEW x, Return(c, x), x = "security" => sub[k].state = "security"
      PROVE  IInv'
  <2>1. x = "security" => \E w \in Window : ckpt[K(c)][w] \in Signals
    BY <1>3, <1>4 DEF IInv, Saves, SavedOK, K
  <2>2. /\ Put(c, Idle)
        /\ rejected' \subseteq Key
        /\ \A j \in rejected' : j \in rejected \/ \E w \in Window : ckpt[j][w] \in Signals
        /\ lock' \in Caller \cup {NoCaller}
        /\ \A d \in Caller : d # c /\ lock = d => lock' = d
    BY <1>1, <1>4, <2>1, ReturnStep
  <2> QED
    BY <1>1, <1>2, <2>2, IdleForm, QuietStep
<1>5. ASSUME sub[k].req = caller[c].req, ~Replayed(k), Load(c, k, Windows(k)), UNCHANGED <<lock, rejected>>
      PROVE  IInv'
  <2>1. Put(c, r)
    BY <1>5 DEF Load, Windows
  <2>2. r \in Work /\ r.req = caller[c].req /\ CopyOK(r, sub[k], ckpt[k], linked[k])
    BY <1>2, <1>3, <1>5, LoadForm
  <2>3. sub[k].state \notin {"final", "security"}
    BY <1>5 DEF Replayed
  <2>4. KeyOf[r.req] = k
    BY <2>2
  <2>5. ~lost => lock = c
    BY <1>1 DEF IInv, Locked
  <2>6. r \in CallRec
    BY <2>2, WorkForms
  <2> HIDE DEF r, k
  <2> QED
    BY <1>1, <1>2, <1>5, <2>1, <2>2, <2>3, <2>4, <2>5, <2>6, QuietStep
<1>6. CASE sub[k].req # caller[c].req /\ Return(c, "conflict")
  BY <1>4, <1>6
<1>7. CASE sub[k].req = caller[c].req /\ Replayed(k) /\ Return(c, sub[k].state)
  BY <1>4, <1>7
<1> QED
  BY <1>5, <1>6, <1>7 DEF OpenExisting, K

(* A caller at work that only turns to another phase, or to an error. *)
LEMMA WorkStep ==
  ASSUME IInv, NEW c \in Caller, Busy(c), UNCHANGED <<store, lock, rejected, lost>>,
         faults' \in 0..MaxFaults, NEW r \in Work, Put(c, r), r.req = caller[c].req,
         CopyOK(r, sub[K(c)], ckpt[K(c)], linked[K(c)])
  PROVE  IInv'
<1>1. KeyOf[r.req] = K(c) /\ r \in CallRec
  BY WorkForms DEF K
<1>2. ~lost => sub[K(c)].state \notin {"final", "security"} /\ lock = c
  BY DEF IInv, Locked, Busy
<1>3. rejected \subseteq Key /\ lock \in Caller \cup {NoCaller}
  BY DEF IInv, TypeOK
<1> QED
  BY <1>1, <1>2, <1>3, QuietStep

(* What a caller at work is, and knows. *)
LEMMA BusyForm ==
  ASSUME IInv, NEW c \in Caller, Busy(c)
  PROVE  /\ caller[c] \in Work /\ K(c) \in Key
         /\ CopyOK(caller[c], sub[K(c)], ckpt[K(c)], linked[K(c)])
<1>1. caller[c] \in CallRec
  BY TypeCaller DEF IInv
<1> QED
  BY <1>1, CallForms DEF Busy, K, IInv, Copies

LEMMA SignalIInv == ASSUME IInv, NEW c \in Caller, Signal(c) PROVE IInv'
<1> DEFINE r == [caller[c] EXCEPT !.err = "security"]
<1>1. /\ Busy(c) /\ caller[c].err = "none" /\ \E w \in Window : caller[c].got[w] \in Signals
      /\ UNCHANGED <<store, lock, rejected, lost>> /\ faults' = faults /\ caller[c].pc = "extract"
  BY DEF Signal, Busy
<1>2. /\ caller[c] \in Work /\ K(c) \in Key
      /\ CopyOK(caller[c], sub[K(c)], ckpt[K(c)], linked[K(c)])
  BY <1>1, BusyForm
<1>3. /\ r \in Work /\ r.pc = caller[c].pc /\ r.req = caller[c].req /\ r.got = caller[c].got
      /\ r.link = caller[c].link /\ r.left = caller[c].left /\ r.err = "security"
  BY <1>2, SetErr DEF Failure
<1>4. Put(c, r)
  BY <1>1, <1>2 DEF Signal, Failing, Work
<1> HIDE DEF r
<1>5. CopyOK(r, sub[K(c)], ckpt[K(c)], linked[K(c)])
  BY <1>1, <1>2, <1>3 DEF CopyOK
<1>6. faults' \in 0..MaxFaults
  BY <1>1 DEF IInv, TypeOK
<1> QED
  BY <1>1, <1>3, <1>4, <1>5, <1>6, WorkStep

LEMMA ErrorIInv == ASSUME IInv, NEW c \in Caller, NEW x, Error(c, x) PROVE IInv'
<1> DEFINE r == [caller[c] EXCEPT !.err = x]
<1>1. /\ Busy(c) /\ x \in {"retry", "final"} /\ Put(c, r)
      /\ UNCHANGED <<store, lock, rejected, lost>> /\ Fault
  BY DEF Error, Busy
<1>2. /\ caller[c] \in Work /\ K(c) \in Key
      /\ CopyOK(caller[c], sub[K(c)], ckpt[K(c)], linked[K(c)])
  BY <1>1, BusyForm
<1>3. /\ r \in Work /\ r.pc = caller[c].pc /\ r.req = caller[c].req /\ r.got = caller[c].got
      /\ r.link = caller[c].link /\ r.left = caller[c].left /\ r.err = x
  BY <1>1, <1>2, SetErr DEF Failure
<1> HIDE DEF r
<1>4. CopyOK(r, sub[K(c)], ckpt[K(c)], linked[K(c)])
  BY <1>1, <1>2, <1>3 DEF CopyOK
<1>5. faults' \in 0..MaxFaults
  BY <1>1, FaultType DEF IInv, TypeOK
<1> QED
  BY <1>1, <1>3, <1>4, <1>5, WorkStep

LEMMA PrepareIInv == ASSUME IInv, NEW c \in Caller, Prepare(c) PROVE IInv'
<1> DEFINE r == [caller[c] EXCEPT !.pc = "commit"]
<1>1. /\ Busy(c) /\ Put(c, r) /\ UNCHANGED <<store, lock, rejected, lost>> /\ faults' = faults
      /\ caller[c].left = {} /\ \A w \in Window : caller[c].got[w] \notin Signals
      /\ (\E w \in Window : caller[c].got[w] \in Facts) => caller[c].link # NoAnswer
  BY DEF Prepare, Busy, Extracted, HasFacts
<1>2. /\ caller[c] \in Work /\ K(c) \in Key
      /\ CopyOK(caller[c], sub[K(c)], ckpt[K(c)], linked[K(c)])
  BY <1>1, BusyForm
<1>3. /\ r \in Work /\ r.pc = "commit" /\ r.req = caller[c].req /\ r.got = caller[c].got
      /\ r.link = caller[c].link /\ r.left = caller[c].left /\ r.err = caller[c].err
  BY <1>2, SetCommit
<1> HIDE DEF r
<1>4. CopyOK(r, sub[K(c)], ckpt[K(c)], linked[K(c)])
  BY <1>1, <1>2, <1>3 DEF CopyOK
<1>5. faults' \in 0..MaxFaults
  BY <1>1 DEF IInv, TypeOK
<1> QED
  BY <1>1, <1>3, <1>4, <1>5, WorkStep

(* A security error stands for a signal in the checkpoints. *)
LEMMA SecurityOnRecord ==
  ASSUME IInv, NEW c \in Caller, Busy(c), caller[c].err = "security"
  PROVE  \E w \in Window : ckpt[K(c)][w] \in Signals
BY BusyForm, AnswerAssumption DEF CopyOK

LEMMA FailUnrecordedIInv == ASSUME IInv, NEW c \in Caller, FailUnrecorded(c) PROVE IInv'
<1>1. /\ Busy(c) /\ caller[c].pc # "idle" /\ UNCHANGED store /\ lost' = lost /\ Fault
      /\ Return(c, caller[c].err)
  BY DEF FailUnrecorded, Busy
<1>2. /\ Put(c, Idle) /\ K(c) \in Key /\ rejected' \subseteq Key
      /\ \A k \in rejected' : k \in rejected \/ \E w \in Window : ckpt[k][w] \in Signals
      /\ lock' \in Caller \cup {NoCaller}
      /\ \A d \in Caller : d # c /\ lock = d => lock' = d
  BY <1>1, SecurityOnRecord, ReturnStep
<1>3. faults' \in 0..MaxFaults
  BY <1>1, FaultType DEF IInv, TypeOK
<1> QED
  BY <1>1, <1>2, <1>3, IdleForm, QuietStep

LEMMA CrashIInv == ASSUME IInv, NEW c \in Caller, Crash(c) PROVE IInv'
<1>1. /\ UNCHANGED store /\ lost' = lost /\ rejected' = rejected /\ Fault /\ Put(c, Idle)
      /\ lock' = IF lock = c THEN NoCaller ELSE lock
  BY DEF Crash
<1>2. faults' \in 0..MaxFaults /\ rejected \subseteq Key /\ lock \in Caller \cup {NoCaller}
  BY <1>1, FaultType DEF IInv, TypeOK
<1> QED
  BY <1>1, <1>2, IdleForm, QuietStep

LEMMA LoseLockIInv == ASSUME IInv, NEW c \in Caller, LoseLock(c) PROVE IInv'
<1>1. /\ UNCHANGED <<store, caller, rejected>> /\ lost' = TRUE /\ Fault /\ lock' = NoCaller
  BY DEF LoseLock
<1>2. faults' \in 0..MaxFaults
  BY <1>1, FaultType DEF IInv, TypeOK
<1> QED
  BY <1>1, <1>2 DEF IInv, TypeOK, Copies, Busy, K, Saves, SavedOK, Data, CommittedIsCheckpointed,
     CompletedIsWhole, DuplicatesAreFinished, Staged, Owners, Locked, store

-----------------------------------------------------------------------------
(* Steps that change the store.                                            *)
LEMMA StageIInv == ASSUME IInv, NEW c \in Caller, Stage(c) PROVE IInv'
<1> DEFINE req == caller[c].req
           k == KeyOf[req]
           new == NewEvents(req)
           s == [req |-> req, new |-> new, state |-> "open"]
           r == [pc |-> "extract", req |-> req, got |-> ckpt[k], link |-> linked[k],
                 left |-> {w \in Filtered(s.req, s.new) : ckpt[k][w] = NoAnswer}, err |-> "none"]
<1>1. /\ caller[c].pc = "open" /\ sub[k] = NoSub
      /\ UNCHANGED <<done, ckpt, linked, applied, lost, faults>>
  BY DEF Stage, K
<1>2. /\ caller \in [Caller -> CallRec] /\ sub \in [Key -> SubRec] /\ ckpt \in [Key -> Answers]
      /\ linked \in [Key -> Linking \cup {NoAnswer}] /\ faults \in 0..MaxFaults
      /\ owner \in [Event -> Key \cup {NoKey}] /\ done \subseteq Event
      /\ lock \in Caller \cup {NoCaller} /\ rejected \subseteq Key
  BY TypeCaller DEF IInv
<1>3. req \in Request /\ k \in Key /\ k # NoKey /\ new \in SUBSET Event
  BY <1>1, <1>2, CallForms, RequestAssumption DEF NewEvents, Events
<1>4. CASE ~Admissible(req)
  <2>1. Return(c, "refused") /\ UNCHANGED store /\ lost' = lost /\ faults' = faults
    BY <1>4 DEF Stage, store
  <2>2. /\ Put(c, Idle) /\ rejected' \subseteq Key
        /\ \A j \in rejected' : j \in rejected \/ \E w \in Window : ckpt[j][w] \in Signals
        /\ lock' \in Caller \cup {NoCaller}
        /\ \A d \in Caller : d # c /\ lock = d => lock' = d
    BY <1>1, <2>1, ReturnStep
  <2> QED
    BY <1>2, <2>1, <2>2, IdleForm, QuietStep
<1>5. CASE Admissible(req)
  <2>1. /\ sub' = [sub EXCEPT ![k] = s]
        /\ owner' = [e \in Event |-> IF e \in new THEN k ELSE owner[e]]
        /\ Put(c, r) /\ UNCHANGED <<lock, rejected>>
    BY <1>5 DEF Stage, K, Load
  <2>2. s \in SubRec /\ s.req = req /\ s.new = new /\ s.state = "open"
    BY <1>3 DEF SubRec, State
  <2>3. r \in Work /\ r.req = req /\ CopyOK(r, s, ckpt[k], linked[k])
    BY <1>2, <1>3, <2>2, LoadForm
  <2>4. r \in CallRec /\ KeyOf[r.req] = k
    BY <2>3, WorkForms
  <2>5. \A e \in new : owner[e] = NoKey
    BY DEF NewEvents
  <2>6. \A e \in Events(req) \ new : e \in done
    BY <1>5 DEF Admissible
  <2> HIDE DEF r, s, new, k, req
  <2>7. /\ caller' \in [Caller -> CallRec] /\ caller'[c] = r
        /\ \A d \in Caller : d # c => caller'[d] = caller[d]
    BY <1>2, <2>1, <2>4, PutType
  <2>8. sub' \in [Key -> SubRec] /\ sub'[k] = s /\ \A j \in Key : j # k => sub'[j] = sub[j]
    BY <1>2, <1>3, <2>1, <2>2
  <2>9. TypeOK'
    BY <1>1, <1>3, <2>1, <2>7, <2>8 DEF IInv, TypeOK, CallRec, Work, SubRec
  <2>10. \A d \in Caller : d # c /\ Busy(d) => K(d) # k /\ K(d) \in Key
    <3>1. SUFFICES ASSUME NEW d \in Caller, d # c, Busy(d) PROVE K(d) # k /\ K(d) \in Key
      OBVIOUS
    <3>2. caller[d] \in Work /\ K(d) \in Key /\ sub[K(d)].req = caller[d].req
      BY <3>1, BusyForm DEF CopyOK
    <3> QED
      BY <3>2, <1>1, NoSubForm, WorkForms, RequestAssumption
  <2>11. Copies'
    BY <1>1, <2>3, <2>4, <2>7, <2>8, <2>10 DEF IInv, Copies, Busy, K
  <2>12. Saves'
    <3>1. \A w \in Window : ckpt[k][w] = NoAnswer
      BY <1>1, <1>3, NoSubForm DEF IInv, Saves, SavedOK, Filtered
    <3>2. linked[k] = NoAnswer /\ k \notin rejected
      BY <1>3, <3>1, AnswerAssumption DEF IInv, Saves, SavedOK
    <3>3. SavedOK(s, ckpt[k], linked[k], k \in rejected)
      BY <3>1, <3>2, <2>2 DEF SavedOK
    <3> QED
      BY <3>3, <1>1, <2>1, <2>8 DEF IInv, Saves
  <2>13. CommittedIsCheckpointed' /\ Staged'
    BY <1>1, <1>3, <2>2, <2>8 DEF IInv, Data, CommittedIsCheckpointed, Staged
  <2>14. \A e \in Event : owner[e] # k
    BY <1>1, <1>3, NoSubForm DEF IInv, Data, Owners
  <2>15. Owners'
    <3>1. SUFFICES ASSUME NEW j \in Key PROVE sub'[j].new = {e \in Event : owner'[e] = j}
      BY DEF Owners
    <3>2. sub[j].new = {e \in Event : owner[e] = j}
      BY DEF IInv, Data, Owners
    <3>3. CASE j = k
      BY <3>3, <1>3, <2>1, <2>2, <2>8, <2>14
    <3>4. CASE j # k
      BY <3>2, <3>4, <1>3, <2>1, <2>5, <2>8, RequestAssumption
    <3> QED
      BY <3>3, <3>4
  <2>16. CompletedIsWhole'
    <3>1. \A e \in new : e \notin done
      BY <1>3, <2>5 DEF IInv, Data, CompletedIsWhole
    <3>2. SUFFICES ASSUME NEW e \in Event
                   PROVE  e \in done <=> owner'[e] # NoKey /\ sub'[owner'[e]].state = "completed"
      BY <1>1 DEF CompletedIsWhole
    <3>3. CASE e \in new
      BY <3>1, <3>3, <2>1, <2>2, <2>8
    <3>4. CASE e \notin new
      BY <3>4, <1>2, <2>1, <2>8, <2>14 DEF IInv, Data, CompletedIsWhole
    <3> QED
      BY <3>3, <3>4
  <2>17. DuplicatesAreFinished'
    BY <1>1, <2>2, <2>6, <2>8 DEF IInv, Data, DuplicatesAreFinished
  <2>18. Locked'
    BY <1>1, <2>1, <2>2, <2>4, <2>7, <2>8, <2>10 DEF IInv, Locked, Busy, K
  <2> QED
    BY <2>9, <2>11, <2>12, <2>13, <2>15, <2>16, <2>17, <2>18 DEF IInv, Data
<1> QED
  BY <1>4, <1>5

(* A window that is extracted, and saved under the key. *)
LEMMA ExtractIInv ==
  ASSUME IInv, NEW c \in Caller, NEW w \in Window, NEW a \in Answer, Extract(c, w, a)
  PROVE  IInv'
<1> DEFINE k == K(c)
           g == [caller[c] EXCEPT !.got[w] = a, !.left = @ \ {w}]
           old == ckpt[k][w]
           b == Checkpoint(old, a)
<1>1. /\ Busy(c) /\ caller[c].pc = "extract" /\ w \in caller[c].left
      /\ UNCHANGED <<sub, owner, done, linked, applied, lock, rejected, lost, faults>>
  BY DEF Extract, Busy
<1>2. /\ caller[c] \in Work /\ k \in Key /\ caller \in [Caller -> CallRec]
      /\ CopyOK(caller[c], sub[k], ckpt[k], linked[k])
      /\ ckpt \in [Key -> Answers] /\ sub \in [Key -> SubRec] /\ faults \in 0..MaxFaults
  BY <1>1, BusyForm, TypeCaller DEF IInv
<1>3. CASE ~Saved(k, old, a)
  <2> DEFINE f == Failing(c, "retry")
             x == IF caller[c].err = "none" THEN "retry" ELSE caller[c].err
             l == caller[c].left \ {w}
             q == [f EXCEPT !.left = l]
  <2>1. x \in Failure /\ l \in SUBSET Window
    BY <1>2, WorkForms DEF Failure
  <2>2. f = [caller[c] EXCEPT !.err = x]
    BY <1>2 DEF Failing, Work
  <2>3. x = "security" => caller[c].err = "security"
    OBVIOUS
  <2> HIDE DEF x, f
  <2>4. /\ f \in Work /\ f.pc = caller[c].pc /\ f.req = caller[c].req /\ f.got = caller[c].got
        /\ f.link = caller[c].link /\ f.left = caller[c].left /\ f.err = x
    BY <1>2, <2>1, <2>2, SetErr
  <2>5. Put(c, q) /\ UNCHANGED ckpt
    BY <1>3, <2>4 DEF Extract, f
  <2>6. /\ q \in Work /\ q.pc = f.pc /\ q.req = f.req /\ q.got = f.got
        /\ q.link = f.link /\ q.left = l /\ q.err = f.err
    BY <2>1, <2>4, SetLeft
  <2> HIDE DEF q
  <2>7. CopyOK(q, sub[k], ckpt[k], linked[k])
    BY <1>1, <1>2, <2>1, <2>3, <2>4, <2>6 DEF CopyOK, Failure
  <2>8. UNCHANGED <<store, lock, rejected, lost>> /\ faults' \in 0..MaxFaults
    BY <1>1, <1>2, <2>5 DEF store
  <2> QED
    BY <1>1, <2>4, <2>5, <2>6, <2>7, <2>8, WorkStep
<1>4. CASE Saved(k, old, a)
  <2>1. Put(c, g) /\ ckpt' = [ckpt EXCEPT ![k][w] = b]
    BY <1>4 DEF Extract
  <2>2. /\ g \in Work /\ g.pc = caller[c].pc /\ g.req = caller[c].req
        /\ g.got[w] = a /\ \A v \in Window : v # w => g.got[v] = caller[c].got[v]
        /\ g.link = caller[c].link /\ g.left = caller[c].left \ {w} /\ g.err = caller[c].err
    BY <1>2 DEF Work, Answers
  <2>3. b = a /\ (old # NoAnswer => old = a) /\ (sub[k].state = "completed" => old = a)
        /\ a # NoAnswer
    BY <1>4, AnswerAssumption DEF Saved, Checkpoint, Unfinished
  <2>4. KeyOf[g.req] = k /\ g \in CallRec
    BY <2>2, WorkForms DEF K
  <2> HIDE DEF g, b, k, old
  <2>5. /\ caller' \in [Caller -> CallRec] /\ caller'[c] = g
        /\ \A d \in Caller : d # c => caller'[d] = caller[d]
    BY <1>2, <2>1, <2>4, PutType
  <2>6. /\ ckpt' \in [Key -> Answers] /\ ckpt'[k][w] = a
        /\ \A v \in Window : v # w => ckpt'[k][v] = ckpt[k][v]
        /\ \A j \in Key : j # k => ckpt'[j] = ckpt[j]
    BY <1>2, <2>1, <2>3 DEF Answers
  <2>7. \A v \in Window : ckpt[k][v] # NoAnswer => ckpt'[k][v] = ckpt[k][v]
    BY <2>3, <2>6 DEF old
  <2>8. TypeOK'
    BY <1>1, <2>5, <2>6 DEF IInv, TypeOK, CallRec, Work
  <2>9. Copies'
    <3>1. SUFFICES ASSUME NEW d \in Caller, Busy(d)'
                   PROVE  CopyOK(caller'[d], sub[KeyOf[caller'[d].req]],
                                 ckpt'[KeyOf[caller'[d].req]], linked[KeyOf[caller'[d].req]])
      BY <1>1 DEF Copies, K
    <3>2. CASE d = c
      <4>1. CopyOK(g, sub[k], ckpt'[k], linked[k])
        <5>1. \A v \in Window : caller[c].got[v] # NoAnswer => g.got[v] = caller[c].got[v]
          BY <1>2, <2>2, <2>3 DEF CopyOK, old
        <5>2. \A v \in Window : caller[c].got[v] \in Signals => g.got[v] \in Signals
          BY <5>1, AnswerAssumption
        <5>3. \A v \in Filtered(sub[k].req, sub[k].new) : v \in Window
          BY DEF Filtered
        <5>4. \A v \in Window : g.got[v] # NoAnswer => ckpt'[k][v] = g.got[v]
          BY <1>2, <2>2, <2>6 DEF CopyOK
        <5>5. g.err = "none" => \A v \in Filtered(sub[k].req, sub[k].new) : g.got[v] # NoAnswer \/ v \in g.left
          BY <1>2, <2>2, <2>3, <5>3 DEF CopyOK
        <5> QED
          BY <1>1, <1>2, <2>2, <5>2, <5>4, <5>5 DEF CopyOK
      <4> QED
        BY <3>2, <4>1, <2>4, <2>5
    <3>3. CASE d # c
      <4>1. caller'[d] = caller[d] /\ Busy(d)
        BY <3>1, <3>3, <2>5 DEF Busy
      <4>2. K(d) \in Key /\ CopyOK(caller[d], sub[K(d)], ckpt[K(d)], linked[K(d)])
        BY <4>1, BusyForm
      <4>3. CopyOK(caller[d], sub[K(d)], ckpt'[K(d)], linked[K(d)])
        <5>1. CASE K(d) = k
          BY <5>1, <4>2, <2>7 DEF CopyOK
        <5>2. CASE K(d) # k
          BY <5>2, <4>2, <2>6
        <5> QED
          BY <5>1, <5>2
      <4> QED
        BY <4>1, <4>3 DEF K
    <3> QED
      BY <3>2, <3>3
  <2>10. Saves'
    <3>1. SavedOK(sub[k], ckpt[k], linked[k], k \in rejected)
      BY <1>2 DEF IInv, Saves
    <3>2. w \in Filtered(sub[k].req, sub[k].new)
      BY <1>1, <1>2 DEF CopyOK
    <3>3. sub[k].state = "completed" => a = ckpt[k][w]
      BY <2>3 DEF old
    <3>4. \A v \in Window : ckpt[k][v] \in Signals \cup Facts => ckpt'[k][v] = ckpt[k][v]
      BY <2>7, AnswerAssumption
    <3>5. SavedOK(sub[k], ckpt'[k], linked[k], k \in rejected)
      BY <3>1, <3>2, <3>3, <3>4, <2>6 DEF SavedOK
    <3> QED
      BY <1>1, <2>6, <3>5 DEF IInv, Saves
  <2>11. CommittedIsCheckpointed'
    <3>1. sub[k].state = "completed" => ckpt'[k] = ckpt[k]
      BY <1>2, <2>3, <2>6 DEF old, Answers
    <3> QED
      BY <1>1, <2>6, <3>1 DEF IInv, Data, CommittedIsCheckpointed
  <2>12. Data'
    BY <1>1, <2>11 DEF IInv, Data, CompletedIsWhole, DuplicatesAreFinished, Staged, Owners
  <2>13. Locked'
    BY <1>1, <2>2, <2>4, <2>5 DEF IInv, Locked, Busy, K, k
  <2> QED
    BY <2>8, <2>9, <2>10, <2>12, <2>13 DEF IInv
<1> QED
  BY <1>3, <1>4

(* The first error of a caller stays; it is a class of failure. *)
LEMMA FailingForm ==
  ASSUME NEW c \in Caller, caller[c] \in Work
  PROVE  LET q == Failing(c, "retry") IN
         /\ q \in Work /\ q.pc = caller[c].pc /\ q.req = caller[c].req /\ q.got = caller[c].got
         /\ q.link = caller[c].link /\ q.left = caller[c].left /\ q.err # "none"
         /\ q.err = "security" => caller[c].err = "security"
<1> DEFINE x == IF caller[c].err = "none" THEN "retry" ELSE caller[c].err
<1>1. x \in Failure
  BY WorkForms DEF Failure
<1>2. Failing(c, "retry") = [caller[c] EXCEPT !.err = x]
  BY DEF Failing, Work
<1>3. (x = "security" => caller[c].err = "security") /\ x # "none"
  BY <1>1 DEF Failure
<1> HIDE DEF x
<1> DEFINE q == [caller[c] EXCEPT !.err = x]
<1>4. /\ q \in Work /\ q.pc = caller[c].pc /\ q.req = caller[c].req /\ q.got = caller[c].got
      /\ q.link = caller[c].link /\ q.left = caller[c].left /\ q.err = x
  BY <1>1, SetErr
<1>5. Failing(c, "retry") = q
  BY <1>2
<1> HIDE DEF q
<1> QED
  BY <1>3, <1>4, <1>5

LEMMA FailingCopy ==
  ASSUME NEW c \in Caller, caller[c] \in Work, NEW s, NEW ck, NEW ln, CopyOK(caller[c], s, ck, ln)
  PROVE  CopyOK(Failing(c, "retry"), s, ck, ln)
BY FailingForm DEF CopyOK

LEMMA LinkIInv == ASSUME IInv, NEW c \in Caller, NEW a \in Linking, Link(c, a) PROVE IInv'
<1> DEFINE k == K(c)
           g == [caller[c] EXCEPT !.link = a]
           old == linked[k]
           b == Checkpoint(old, a)
<1>1. /\ Busy(c) /\ caller[c].link = NoAnswer /\ caller[c].pc = "extract"
      /\ \E w \in Window : caller[c].got[w] \in Facts
      /\ UNCHANGED <<sub, owner, done, ckpt, applied, lock, rejected, lost, faults>>
  BY DEF Link, Extracted, HasFacts, Busy
<1>2. /\ caller[c] \in Work /\ k \in Key /\ caller \in [Caller -> CallRec]
      /\ CopyOK(caller[c], sub[k], ckpt[k], linked[k])
      /\ linked \in [Key -> Linking \cup {NoAnswer}] /\ faults \in 0..MaxFaults
  BY <1>1, BusyForm, TypeCaller DEF IInv
<1>3. CASE ~Saved(k, old, a)
  <2> DEFINE q == Failing(c, "retry")
  <2>1. Put(c, q) /\ UNCHANGED linked
    BY <1>3 DEF Link
  <2>2. q \in Work /\ q.req = caller[c].req
    BY <1>2, FailingForm
  <2>3. CopyOK(q, sub[k], ckpt[k], linked[k])
    BY <1>2, FailingCopy
  <2>4. UNCHANGED <<store, lock, rejected, lost>> /\ faults' \in 0..MaxFaults
    BY <1>1, <1>2, <2>1 DEF store
  <2> HIDE DEF q
  <2> QED
    BY <1>1, <2>1, <2>2, <2>3, <2>4, WorkStep
<1>4. CASE Saved(k, old, a)
  <2>1. Put(c, g) /\ linked' = [linked EXCEPT ![k] = b]
    BY <1>4 DEF Link
  <2>2. /\ g \in Work /\ g.pc = caller[c].pc /\ g.req = caller[c].req /\ g.got = caller[c].got
        /\ g.link = a /\ g.left = caller[c].left /\ g.err = caller[c].err
    BY <1>2, SetLink
  <2>3. b = a /\ (old # NoAnswer => old = a) /\ (sub[k].state = "completed" => old = a)
    BY <1>4, AnswerAssumption DEF Saved, Checkpoint, Unfinished
  <2>4. KeyOf[g.req] = k /\ g \in CallRec
    BY <2>2, WorkForms DEF K
  <2> HIDE DEF g, b, k, old
  <2>5. /\ caller' \in [Caller -> CallRec] /\ caller'[c] = g
        /\ \A d \in Caller : d # c => caller'[d] = caller[d]
    BY <1>2, <2>1, <2>4, PutType
  <2>6. /\ linked' \in [Key -> Linking \cup {NoAnswer}] /\ linked'[k] = a
        /\ \A j \in Key : j # k => linked'[j] = linked[j]
    BY <1>2, <2>1, <2>3
  <2>7. linked[k] # NoAnswer => linked'[k] = linked[k]
    BY <2>3, <2>6 DEF old
  <2>8. TypeOK'
    BY <1>1, <2>5, <2>6 DEF IInv, TypeOK, CallRec, Work
  <2>9. Copies'
    <3>1. SUFFICES ASSUME NEW d \in Caller, Busy(d)'
                   PROVE  CopyOK(caller'[d], sub[KeyOf[caller'[d].req]],
                                 ckpt[KeyOf[caller'[d].req]], linked'[KeyOf[caller'[d].req]])
      BY <1>1 DEF Copies, K
    <3>2. CASE d = c
      <4>1. CopyOK(g, sub[k], ckpt[k], linked'[k])
        BY <1>1, <1>2, <2>2, <2>6 DEF CopyOK
      <4> QED
        BY <3>2, <4>1, <2>4, <2>5
    <3>3. CASE d # c
      <4>1. caller'[d] = caller[d] /\ Busy(d)
        BY <3>1, <3>3, <2>5 DEF Busy
      <4>2. K(d) \in Key /\ CopyOK(caller[d], sub[K(d)], ckpt[K(d)], linked[K(d)])
        BY <4>1, BusyForm
      <4>3. CopyOK(caller[d], sub[K(d)], ckpt[K(d)], linked'[K(d)])
        <5>1. CASE K(d) = k
          BY <5>1, <4>2, <2>7 DEF CopyOK
        <5>2. CASE K(d) # k
          BY <5>2, <4>2, <2>6
        <5> QED
          BY <5>1, <5>2
      <4> QED
        BY <4>1, <4>3 DEF K
    <3> QED
      BY <3>2, <3>3
  <2>10. Saves'
    <3>1. SavedOK(sub[k], ckpt[k], linked[k], k \in rejected)
      BY <1>2 DEF IInv, Saves
    <3>2. \E w \in Window : ckpt[k][w] \in Facts
      BY <1>1, <1>2, AnswerAssumption DEF CopyOK
    <3>3. SavedOK(sub[k], ckpt[k], linked'[k], k \in rejected)
      BY <3>1, <3>2 DEF SavedOK
    <3> QED
      BY <1>1, <2>6, <3>3 DEF IInv, Saves
  <2>11. Data'
    <3>1. sub[k].state = "completed" => linked'[k] = linked[k]
      BY <2>3, <2>6 DEF old
    <3>2. CommittedIsCheckpointed'
      BY <1>1, <2>6, <3>1 DEF IInv, Data, CommittedIsCheckpointed
    <3> QED
      BY <1>1, <3>2 DEF IInv, Data, CompletedIsWhole, DuplicatesAreFinished, Staged, Owners
  <2>12. Locked'
    BY <1>1, <2>2, <2>4, <2>5 DEF IInv, Locked, Busy, K, k
  <2> QED
    BY <2>8, <2>9, <2>10, <2>11, <2>12 DEF IInv
<1> QED
  BY <1>3, <1>4

(* A caller that ends, with or without an error to tell, while the state   *)
(* of its submission changes to x.                                         *)
LEMMA StateStep ==
  ASSUME IInv, NEW c \in Caller, Busy(c), NEW x \in State,
         sub' = [sub EXCEPT ![K(c)].state = x], x # "none",
         UNCHANGED <<owner, ckpt, linked, lost>>,
         NEW r \in CallRec, Put(c, r), faults' \in 0..MaxFaults,
         applied' \in [Key -> Applied], done' \subseteq Event, rejected' \subseteq Key,
         lock' \in Caller \cup {NoCaller},
         \A d \in Caller : d # c /\ lock = d => lock' = d,
         ~lost /\ r.pc # "idle" => lock' = c /\ x \notin {"final", "security"},
         r.pc # "idle" => /\ r \in Work /\ r.req = caller[c].req
                          /\ CopyOK(r, sub[K(c)], ckpt[K(c)], linked[K(c)])
  PROVE  /\ TypeOK' /\ Copies' /\ Locked' /\ Staged' /\ Owners'
         /\ K(c) \in Key /\ sub'[K(c)].state = x
         /\ sub'[K(c)].req = sub[K(c)].req /\ sub'[K(c)].new = sub[K(c)].new
         /\ sub'[K(c)] # NoSub /\ sub[K(c)] # NoSub
         /\ \A j \in Key : j # K(c) => sub'[j] = sub[j]
<1> DEFINE k == K(c)
<1>1. /\ caller[c] \in Work /\ k \in Key /\ caller \in [Caller -> CallRec]
      /\ CopyOK(caller[c], sub[k], ckpt[k], linked[k]) /\ sub \in [Key -> SubRec]
  BY BusyForm, TypeCaller DEF IInv
<1>2. KeyOf[caller[c].req] = k
  BY DEF K
<1> HIDE DEF k
<1>3. sub' = [sub EXCEPT ![k].state = x]
  BY DEF k
<1>4. /\ sub' \in [Key -> SubRec] /\ sub'[k].state = x
      /\ sub'[k].req = sub[k].req /\ sub'[k].new = sub[k].new
      /\ \A j \in Key : j # k => sub'[j] = sub[j]
  <2> DEFINE t == [sub[k] EXCEPT !.state = x]
  <2>1. t \in SubRec /\ t.state = x /\ t.req = sub[k].req /\ t.new = sub[k].new
    BY <1>1 DEF SubRec
  <2>2. sub' = [sub EXCEPT ![k] = t]
    BY <1>1, <1>3
  <2> HIDE DEF t
  <2> QED
    BY <1>1, <2>1, <2>2
<1>5. sub[k].req \in Request /\ sub[k] # NoSub /\ sub'[k] # NoSub
  BY <1>1, <1>4, NoSubForm, WorkForms, RequestAssumption DEF CopyOK
<1>6. /\ caller' \in [Caller -> CallRec] /\ caller'[c] = r
      /\ \A d \in Caller : d # c => caller'[d] = caller[d]
  BY <1>1, PutType
<1>7. TypeOK'
  <2>1. /\ owner' \in [Event -> Key \cup {NoKey}] /\ ckpt' \in [Key -> Answers]
        /\ linked' \in [Key -> Linking \cup {NoAnswer}] /\ lost' \in BOOLEAN
    BY TypeCaller DEF IInv
  <2> QED
    BY <2>1, <1>4, <1>6 DEF TypeOK, CallRec, Work, SubRec, Applied
<1>8. \A q, ck, ln : CopyOK(q, sub[k], ck, ln) => CopyOK(q, sub'[k], ck, ln)
  BY <1>4 DEF CopyOK
<1>9. Copies'
  <2>1. SUFFICES ASSUME NEW d \in Caller, Busy(d)'
                 PROVE  CopyOK(caller'[d], sub'[KeyOf[caller'[d].req]],
                               ckpt[KeyOf[caller'[d].req]], linked[KeyOf[caller'[d].req]])
    BY DEF Copies, K
  <2>2. CASE d = c
    <3>1. r.pc # "idle" /\ caller'[d] = r
      BY <2>1, <2>2, <1>6 DEF Busy
    <3>2. KeyOf[caller'[d].req] = k
      BY <3>1, <1>2
    <3> QED
      BY <3>1, <3>2, <1>8 DEF k
  <2>3. CASE d # c
    <3>1. caller'[d] = caller[d] /\ Busy(d)
      BY <2>1, <2>3, <1>6 DEF Busy
    <3>2. K(d) \in Key /\ CopyOK(caller[d], sub[K(d)], ckpt[K(d)], linked[K(d)])
      BY <3>1, BusyForm
    <3>3. CopyOK(caller[d], sub'[K(d)], ckpt[K(d)], linked[K(d)])
      BY <3>2, <1>4, <1>8
    <3> QED
      BY <3>1, <3>3 DEF K
  <2> QED
    BY <2>2, <2>3
<1>10. Locked'
  <2>1. SUFFICES ASSUME ~lost, NEW d \in Caller
                 PROVE  /\ caller'[d].pc # "idle" => lock' = d
                        /\ Busy(d)' => sub'[KeyOf[caller'[d].req]].state \notin {"final", "security"}
    BY DEF Locked, K
  <2>2. lock = c
    BY <2>1 DEF IInv, Locked, Busy
  <2>3. CASE d = c
    BY <2>1, <2>3, <1>2, <1>4, <1>6 DEF Busy
  <2>4. CASE d # c
    <3>1. caller'[d] = caller[d] /\ caller[d].pc = "idle"
      BY <2>1, <2>2, <2>4, <1>6 DEF IInv, Locked
    <3> QED
      BY <3>1 DEF Busy
  <2> QED
    BY <2>3, <2>4
<1>11. Staged' /\ Owners'
  BY <1>4, <1>5 DEF IInv, Data, Staged, Owners
<1> QED
  BY <1>1, <1>4, <1>5, <1>7, <1>9, <1>10, <1>11 DEF k

(* What CommitSession writes is what the checkpoints hold. *)
LEMMA CommitWritesCheckpoints ==
  ASSUME IInv, NEW c \in Caller, Busy(c), caller[c].pc = "commit", caller[c].err = "none"
  PROVE  /\ caller[c].got = ckpt[K(c)] /\ caller[c].link = linked[K(c)]
         /\ \A w \in Window : ckpt[K(c)][w] \notin Signals
<1> DEFINE k == K(c)
<1>1. /\ caller[c] \in Work /\ k \in Key /\ CopyOK(caller[c], sub[k], ckpt[k], linked[k])
      /\ ckpt \in [Key -> Answers]
  BY BusyForm, TypeCaller DEF IInv
<1>2. SavedOK(sub[k], ckpt[k], linked[k], k \in rejected)
  BY <1>1 DEF IInv, Saves
<1> HIDE DEF k
<1>3. \A w \in Window : caller[c].got[w] = ckpt[k][w]
  <2>1. SUFFICES ASSUME NEW w \in Window PROVE caller[c].got[w] = ckpt[k][w]
    OBVIOUS
  <2>2. CASE w \in Filtered(sub[k].req, sub[k].new)
    BY <2>2, <1>1 DEF CopyOK
  <2>3. CASE w \notin Filtered(sub[k].req, sub[k].new)
    BY <2>3, <1>1, <1>2 DEF CopyOK, SavedOK
  <2> QED
    BY <2>2, <2>3
<1>4. caller[c].got = ckpt[k]
  BY <1>1, <1>3, WorkForms DEF Answers
<1>5. caller[c].link = linked[k]
  BY <1>1, <1>2, <1>3 DEF CopyOK, SavedOK
<1> QED
  BY <1>1, <1>4, <1>5 DEF CopyOK, k

LEMMA CommitIInv == ASSUME IInv, NEW c \in Caller, Commit(c) PROVE IInv'
<1> DEFINE k == K(c)
           q == Failing(c, "retry")
<1>1. /\ Busy(c) /\ caller[c].pc = "commit" /\ caller[c].err = "none" /\ caller[c].pc # "idle"
      /\ UNCHANGED <<owner, ckpt, linked, lost>>
      /\ \/ Return(c, "completed") /\ UNCHANGED faults
         \/ Put(c, q) /\ Fault /\ UNCHANGED <<lock, rejected>>
  BY DEF Commit, Busy
<1>2. /\ caller[c] \in Work /\ k \in Key /\ CopyOK(caller[c], sub[k], ckpt[k], linked[k])
      /\ rejected \subseteq Key /\ lock \in Caller \cup {NoCaller} /\ faults \in 0..MaxFaults
      /\ applied \in [Key -> Applied] /\ done \subseteq Event /\ sub \in [Key -> SubRec]
      /\ owner \in [Event -> Key \cup {NoKey}]
  BY <1>1, BusyForm, TypeCaller DEF IInv
<1>3. q \in Work /\ q.req = caller[c].req /\ q.pc = "commit" /\ CopyOK(q, sub[k], ckpt[k], linked[k])
  BY <1>1, <1>2, FailingForm, FailingCopy
<1>4. q \in CallRec
  BY <1>3, WorkForms
<1>5. rejected' = rejected
  BY <1>1 DEF Return
<1> HIDE DEF q
<1>6. faults' \in 0..MaxFaults
  BY <1>1, <1>2, FaultType
<1>7. CASE ~Unfinished(k)
  <2>1. UNCHANGED store
    BY <1>1, <1>7 DEF Commit, store
  <2>2. CASE Return(c, "completed") /\ UNCHANGED faults
    <3>1. /\ Put(c, Idle) /\ lock' \in Caller \cup {NoCaller}
          /\ \A d \in Caller : d # c /\ lock = d => lock' = d
      BY <1>1, <2>2, ReturnStep
    <3> QED
      BY <1>1, <1>2, <1>5, <1>6, <2>1, <3>1, IdleForm, QuietStep
  <2>3. CASE Put(c, q) /\ Fault /\ UNCHANGED <<lock, rejected>>
    BY <1>1, <1>3, <1>6, <2>1, <2>3, WorkStep
  <2> QED
    BY <1>1, <2>2, <2>3
<1>8. CASE Unfinished(k)
  <2>1. /\ applied' = [applied EXCEPT ![k] = [answers |-> caller[c].got, link |-> caller[c].link]]
        /\ done' = done \cup sub[k].new
        /\ sub' = [sub EXCEPT ![k].state = "completed"]
    BY <1>8 DEF Commit
  <2>2. sub[k].new \subseteq Event
    BY <1>2 DEF SubRec
  <2>3. done' \subseteq Event /\ applied' \in [Key -> Applied]
    BY <1>2, <2>1, <2>2, WorkForms DEF Applied
  <2>4. ~lost => lock = c
    BY <1>1 DEF IInv, Locked
  <2>5. "completed" \in State /\ "completed" # "none" /\ "completed" \notin {"final", "security"}
    BY DEF State
  <2>6. rejected' \subseteq Key
    BY <1>2, <1>5
  <2>7. /\ TypeOK' /\ Copies' /\ Locked' /\ Staged' /\ Owners'
        /\ sub'[k].state = "completed"
        /\ sub'[k].req = sub[k].req /\ sub'[k].new = sub[k].new
        /\ sub'[k] # NoSub /\ sub[k] # NoSub
        /\ \A j \in Key : j # k => sub'[j] = sub[j]
    <3>1. CASE Return(c, "completed") /\ UNCHANGED faults
      <4>1. /\ Put(c, Idle) /\ lock' \in Caller \cup {NoCaller}
            /\ \A d \in Caller : d # c /\ lock = d => lock' = d
        BY <1>1, <3>1, ReturnStep
      <4> QED
        BY <1>1, <1>6, <2>1, <2>3, <2>5, <2>6, <4>1, IdleForm, StateStep
    <3>2. CASE Put(c, q) /\ Fault /\ UNCHANGED <<lock, rejected>>
      <4>1. lock' = lock
        BY <3>2
      <4>2. ~lost /\ q.pc # "idle" => lock' = c /\ "completed" \notin {"final", "security"}
        BY <4>1, <2>4, <2>5
      <4>3. lock' \in Caller \cup {NoCaller} /\ \A d \in Caller : d # c /\ lock = d => lock' = d
        BY <4>1, <1>2
      <4> QED
        BY <1>1, <1>3, <1>4, <1>6, <2>1, <2>3, <2>5, <2>6, <3>2, <4>2, <4>3, StateStep
    <3> QED
      BY <1>1, <3>1, <3>2
  <2>8. /\ caller[c].got = ckpt[k] /\ caller[c].link = linked[k]
         /\ \A w \in Window : ckpt[k][w] \notin Signals
    BY <1>1, CommitWritesCheckpoints
  <2> HIDE DEF k
  <2>9. CommittedIsCheckpointed'
    BY <1>1, <1>2, <2>1, <2>7, <2>8 DEF IInv, Data, CommittedIsCheckpointed
  <2>10. Saves'
    BY <1>1, <1>5, <2>7, <2>8 DEF IInv, Saves, SavedOK
  <2>11. DuplicatesAreFinished'
    BY <1>1, <2>1, <2>7 DEF IInv, Data, DuplicatesAreFinished
  <2>12. CompletedIsWhole'
    <3>1. SUFFICES ASSUME NEW e \in Event
                   PROVE  e \in done' <=> owner[e] # NoKey /\ sub'[owner[e]].state = "completed"
      BY <1>1 DEF CompletedIsWhole
    <3>2. e \in sub[k].new <=> owner[e] = k
      BY <1>2 DEF IInv, Data, Owners
    <3>3. e \in done <=> owner[e] # NoKey /\ sub[owner[e]].state = "completed"
      BY DEF IInv, Data, CompletedIsWhole
    <3> QED
      BY <3>2, <3>3, <1>2, <2>1, <2>7, RequestAssumption
  <2> QED
    BY <2>7, <2>9, <2>10, <2>11, <2>12 DEF IInv, Data
<1> QED
  BY <1>7, <1>8

LEMMA FailIInv == ASSUME IInv, NEW c \in Caller, Fail(c) PROVE IInv'
<1> DEFINE k == K(c)
           x == caller[c].err
<1>1. /\ Busy(c) /\ caller[c].pc # "idle" /\ x # "none" /\ Return(c, x)
      /\ UNCHANGED <<owner, done, ckpt, linked, applied, lost, faults>>
  BY DEF Fail, Busy
<1>2. /\ caller[c] \in Work /\ k \in Key /\ CopyOK(caller[c], sub[k], ckpt[k], linked[k])
      /\ faults \in 0..MaxFaults /\ applied \in [Key -> Applied] /\ done \subseteq Event
      /\ owner \in [Event -> Key \cup {NoKey}]
  BY <1>1, BusyForm, TypeCaller DEF IInv
<1>3. x = "security" => \E w \in Window : ckpt[k][w] \in Signals
  BY <1>1, SecurityOnRecord
<1>4. /\ Put(c, Idle) /\ rejected' \subseteq Key
      /\ \A j \in rejected' : j \in rejected \/ \E w \in Window : ckpt[j][w] \in Signals
      /\ lock' \in Caller \cup {NoCaller}
      /\ \A d \in Caller : d # c /\ lock = d => lock' = d
  BY <1>1, <1>3, ReturnStep
<1>5. CASE ~Recordable(k)
  <2>1. UNCHANGED store
    BY <1>1, <1>5 DEF Fail, store
  <2> QED
    BY <1>1, <1>2, <1>4, <2>1, IdleForm, QuietStep
<1>6. CASE Recordable(k)
  <2>1. sub' = [sub EXCEPT ![k].state = x]
    BY <1>6 DEF Fail
  <2>2. x \in State /\ x # "completed"
    BY <1>1, <1>2, WorkForms DEF State, Failure
  <2>3. sub[k].state # "completed"
    BY <1>6 DEF Recordable, Unfinished
  <2> HIDE DEF x
  <2>4. /\ TypeOK' /\ Copies' /\ Locked' /\ Staged' /\ Owners'
        /\ sub'[k].state = x
        /\ sub'[k].req = sub[k].req /\ sub'[k].new = sub[k].new
        /\ sub'[k] # NoSub /\ sub[k] # NoSub
        /\ \A j \in Key : j # k => sub'[j] = sub[j]
    BY <1>1, <1>2, <1>4, <2>1, <2>2, IdleForm, StateStep
  <2> HIDE DEF k
  <2>5. CommittedIsCheckpointed' /\ DuplicatesAreFinished'
    BY <1>1, <1>2, <2>2, <2>4 DEF IInv, Data, CommittedIsCheckpointed, DuplicatesAreFinished
  <2>6. Saves'
    BY <1>1, <1>3, <1>4, <2>2, <2>4 DEF IInv, Saves, SavedOK
  <2>7. CompletedIsWhole'
    BY <1>1, <1>2, <2>2, <2>3, <2>4, RequestAssumption DEF IInv, Data, CompletedIsWhole
  <2> QED
    BY <2>4, <2>5, <2>6, <2>7 DEF IInv, Data
<1> QED
  BY <1>5, <1>6

LEMMA NextIInv == ASSUME IInv, [Next]_vars PROVE IInv'
<1>1. CASE UNCHANGED vars
  BY <1>1 DEF IInv, TypeOK, Copies, Busy, K, Saves, SavedOK, Data, CommittedIsCheckpointed,
     CompletedIsWhole, DuplicatesAreFinished, Staged, Owners, Locked, vars
<1>2. ASSUME NEW c \in Caller, Step(c) PROVE IInv'
  BY <1>2, OpenExistingIInv, StageIInv, ExtractIInv, SignalIInv, LinkIInv, PrepareIInv, CommitIInv,
     FailIInv DEF Step
<1> QED
  BY <1>1, <1>2, BeginIInv, ErrorIInv, FailUnrecordedIInv, CrashIInv, LoseLockIInv DEF Next

LEMMA Inductive == Spec => []IInv
BY InitIInv, NextIInv, PTL DEF Spec

-----------------------------------------------------------------------------
(* The variables keep their types through failures, crashes and lost locks. *)
THEOREM TypeCorrect == Spec => []TypeOK
BY Inductive, PTL DEF IInv

(* CommitSession writes what was checkpointed, whichever attempts extracted *)
(* the windows, also after the lock was lost.                               *)
THEOREM CommitsCheckpoints == Spec => []CommittedIsCheckpointed
BY Inductive, PTL DEF IInv, Data

(* A request whose client was told of a security signal is never completed. *)
THEOREM RejectionStands == Spec => []RejectedIsNeverApplied
<1>1. IInv => RejectedIsNeverApplied
  BY DEF IInv, Saves, SavedOK, RejectedIsNeverApplied
<1> QED
  BY <1>1, Inductive, PTL

(* Events have results exactly when their submission is completed. *)
THEOREM CompletionIsWhole == Spec => []CompletedIsWhole
BY Inductive, PTL DEF IInv, Data

(* StageSession takes only finished events of other keys for duplicates. *)
THEOREM DuplicatesFinished == Spec => []DuplicatesAreFinished
BY Inductive, PTL DEF IInv, Data

(* Only the holder of the lock works on a submission while no lock was     *)
(* lost, and never on a finally failed one, which therefore stays so.      *)
THEOREM FinalStands == Spec => FinalFailureStands
<1>1. ASSUME IInv, [Next]_vars, NEW k \in Key, sub[k].state = "final", ~lost'
      PROVE  sub'[k].state = "final"
  <2>1. CASE UNCHANGED sub
    BY <1>1, <2>1
  <2> sub \in [Key -> SubRec]
    BY <1>1, TypeCaller DEF IInv
  <2>2. ASSUME NEW c \in Caller, Stage(c) PROVE sub'[k].state = "final"
    <3>1. sub[K(c)] = NoSub /\ K(c) # k
      BY <1>1, <2>2, NoSubForm DEF Stage
    <3> QED
      BY <1>1, <2>2, <3>1 DEF Stage
  <2>3. ASSUME NEW c \in Caller, Commit(c) \/ Fail(c) PROVE sub'[k].state = "final"
    <3>1. Busy(c) /\ lost' = lost
      BY <2>3 DEF Commit, Fail, Busy
    <3>2. K(c) # k
      BY <1>1, <3>1 DEF IInv, Locked
    <3> QED
      BY <1>1, <2>3, <3>2 DEF Commit, Fail
  <2>4. \/ UNCHANGED sub
        \/ \E c \in Caller : Stage(c) \/ Commit(c) \/ Fail(c)
    BY <1>1 DEF Next, Step, vars, store, Begin, OpenExisting, Extract, Signal, Link, Prepare, Error,
       FailUnrecorded, Crash, LoseLock
  <2> QED
    BY <2>1, <2>2, <2>3, <2>4
<1>2. IInv /\ [Next]_vars =>
        [\A k \in Key : sub[k].state = "final" /\ ~lost' => sub'[k].state = "final"]_vars
  BY <1>1
<1> QED
  BY <1>2, Inductive, PTL DEF Spec, FinalFailureStands
=============================================================================
