------------------------ MODULE SessionPromise_proofs ------------------------
(***************************************************************************)
(* Proofs about SessionPromise, for any number of handlers on the          *)
(* connection.                                                             *)
(*                                                                         *)
(* An operation in WebRTC's chain or a callback on the signaling thread    *)
(* refers to one promise of one handler.  The argument is that at most one *)
(* of them refers to a promise at a time: CreateOffer's or CreateAnswer's  *)
(* observer hands its reference on to that of SetLocalDescription.         *)
(***************************************************************************)
EXTENDS SessionPromise, SequenceTheorems, TLAPS

\* An operation, or the callback, refers to the promise p of the handler c.
Refers(op, c, p) == op.call = c /\ PromiseOf(op.obs) = p
InSig(c, p) == sig.stage # "idle" /\ Refers(sig, c, p)

Names == {"remote", "local"}

\* Who has a reference to a promise: one at most, and only while it has no value.
ReferenceInv ==
    \A c \in Call, p \in Names :
        /\ \A i, j \in DOMAIN chain : Refers(chain[i], c, p) /\ Refers(chain[j], c, p) => i = j
        /\ \A i \in DOMAIN chain : Refers(chain[i], c, p) =>
              promise[c][p] \in {"empty", "gone"} /\ ~InSig(c, p)
        /\ InSig(c, p) => promise[c][p] \in {"empty", "gone"}

\* The remote description of a handler is handled before its local one.
OrderInv ==
    \A c \in Call :
        /\ \A i, j \in DOMAIN chain :
              Refers(chain[i], c, "remote") /\ Refers(chain[j], c, "local") => i < j
        /\ InSig(c, "local") => \A i \in DOMAIN chain : ~Refers(chain[i], c, "remote")
        /\ at[c] = "local" =>
              /\ \A i \in DOMAIN chain : Refers(chain[i], c, "remote") =>
                    \E j \in DOMAIN chain : Refers(chain[j], c, "local")
              /\ InSig(c, "remote") => \E j \in DOMAIN chain : Refers(chain[j], c, "local")

\* The promises that a handler has made by now.
HandlerInv ==
    \A c \in Call :
        /\ at[c] = "off" <=> fun[c] = None
        /\ at[c] = "off" => \A p \in Names : promise[c][p] = None
        /\ at[c] = "remote" => fun[c] # "createOffer" /\ promise[c]["local"] = None
        /\ at[c] # "done" => reply[c] = None /\ \A p \in Names : promise[c][p] # "gone"

\* What is on its way to a local promise, or in it, is of the handler's own type.
ValueInv ==
    /\ sig.stage = "callback" /\ sig.obs = "SetLocal" /\ sig.ok => local = Subject(sig.call)
    /\ sig.stage = "store" =>
          /\ sig.obs = "Create" => sig.val = "null"
          /\ sig.obs = "SetLocal" => sig.val \in {"null", Subject(sig.call)}
    /\ \A c \in Call : promise[c]["local"] \in {None, "empty", "null", "gone", Subject(c)}

Inv ==
    /\ TypeOK /\ ReferenceInv /\ OrderInv /\ HandlerInv /\ ValueInv
    /\ PunctualHandlersLeaveNothing /\ RepliesAreOfTheRightType

-----------------------------------------------------------------------------
(* The chain and the promises.                                             *)

\* An operation goes to the end of the chain.
LEMMA AppendFacts ==
    ASSUME NEW q \in Seq(Operation), NEW op \in Operation
    PROVE  /\ Append(q, op) \in Seq(Operation) /\ Len(q) \in Nat
           /\ DOMAIN q = 1..Len(q) /\ DOMAIN Append(q, op) = 1..Len(q) + 1
           /\ \A i \in 1..Len(q) : Append(q, op)[i] = q[i]
           /\ Append(q, op)[Len(q) + 1] = op
    OBVIOUS

\* The first operation leaves the chain.
LEMMA TailFacts ==
    ASSUME NEW q \in Seq(Operation), q # <<>>
    PROVE  /\ Tail(q) \in Seq(Operation) /\ Head(q) \in Operation /\ Head(q) = q[1]
           /\ Len(q) \in Nat /\ 1 \in DOMAIN q
           /\ DOMAIN q = 1..Len(q) /\ DOMAIN Tail(q) = 1..Len(q) - 1
           /\ \A i \in DOMAIN Tail(q) : i \in Int /\ i + 1 \in DOMAIN q /\ i + 1 # 1
                                          /\ Tail(q)[i] = q[i + 1]
    OBVIOUS

\* The fields of the callback.
LEMMA SigFields ==
    ASSUME TypeOK, sig.stage # "idle"
    PROVE  /\ sig.call \in Call /\ sig.obs \in Observers /\ PromiseOf(sig.obs) \in Names
           /\ InSig(sig.call, PromiseOf(sig.obs))
           /\ sig.stage = "store" => sig.val \in Descriptions \cup {"null"}
           /\ sig.stage \in {"callback", "store"}
    BY DEF TypeOK, Signaling, InSig, Refers, PromiseOf, Names, Observers

\* What a handler's wait refers to is one of its promises.
LEMMA Lookup ==
    ASSUME TypeOK, NEW c \in Call, NEW p \in Names
    PROVE  promise[c][p] \in Descriptions \cup {None, "empty", "null", "gone"}
    BY DEF TypeOK, Names

LEMMA InitInv == Init => Inv
<1> SUFFICES ASSUME Init PROVE Inv
    OBVIOUS
<1> USE DEF Init, Idle, None, InSig, Refers
<1>1. TypeOK
    <2>1. sig \in Signaling
        BY DEF Signaling
    <2>2. chain \in Seq(Operation)
        OBVIOUS
    <2>3. broken \in BOOLEAN
        OBVIOUS
    <2> QED
        BY <2>1, <2>2, <2>3 DEF TypeOK
<1>2. DOMAIN chain = {}
    OBVIOUS
<1>3. ReferenceInv /\ OrderInv
    BY <1>2 DEF ReferenceInv, OrderInv, Names
<1>4. HandlerInv /\ ValueInv
    BY DEF HandlerInv, ValueInv, Names
<1>5. PunctualHandlersLeaveNothing /\ RepliesAreOfTheRightType
    BY <1>2 DEF PunctualHandlersLeaveNothing, RepliesAreOfTheRightType, Descriptions
<1> QED
    BY <1>1, <1>3, <1>4, <1>5 DEF Inv

\* A new operation refers to a promise that nothing refers to.
LEMMA IssueInv ==
    ASSUME Inv, NEW c \in Call, NEW obs \in {"SetRemote", "Create"}, Issue(c, obs),
           promise[c][PromiseOf(obs)] = None, promise[c]["local"] = None, UNCHANGED sig
    PROVE  /\ chain' \in Seq(Operation) /\ ReferenceInv' /\ OrderInv'
           /\ at' = [at EXCEPT ![c] = PromiseOf(obs)]
           /\ promise' \in [Call -> [Names -> Descriptions \cup {None, "empty", "null", "gone"}]]
           /\ \A d \in Call, p \in Names :
                 promise'[d][p] = IF d = c /\ p = PromiseOf(obs) THEN "empty" ELSE promise[d][p]
           /\ \A i \in DOMAIN chain' :
                 chain'[i].call # c => i \in DOMAIN chain /\ chain[i] = chain'[i]
<1> DEFINE op == [call |-> c, obs |-> obs]
           n == Len(chain) + 1
           P == PromiseOf(obs)
<1>1. op \in Operation /\ chain \in Seq(Operation) /\ P \in Names
    BY DEF Inv, TypeOK, Operation, Observers, PromiseOf, Names
<1>2. /\ chain' \in Seq(Operation) /\ Len(chain) \in Nat /\ DOMAIN chain = 1..Len(chain)
      /\ DOMAIN chain' = 1..n /\ chain'[n] = op
      /\ \A i \in 1..Len(chain) : chain'[i] = chain[i]
    BY <1>1, AppendFacts DEF Issue
<1>3. /\ promise' \in [Call -> [Names -> Descriptions \cup {None, "empty", "null", "gone"}]]
      /\ \A d \in Call, p \in Names :
            promise'[d][p] = IF d = c /\ p = P THEN "empty" ELSE promise[d][p]
      /\ at' = [at EXCEPT ![c] = P]
    BY <1>1 DEF Issue, Inv, TypeOK, Names
<1>4. \A d \in Call, p \in Names : InSig(d, p)' <=> InSig(d, p)
    BY DEF InSig, Refers
<1>5. \A i \in 1..n :
         \/ i \in 1..Len(chain) /\ chain'[i] = chain[i]
         \/ i = n /\ chain'[i] = op /\ i \notin 1..Len(chain)
    <2>1. \A i \in 1..n : i \in 1..Len(chain) \/ i = n
        BY <1>2
    <2>2. n \notin 1..Len(chain)
        BY <1>2
    <2> HIDE DEF op, n
    <2> QED
        BY <1>2, <2>1, <2>2
<1>6. \A d \in Call, p \in Names : Refers(op, d, p) <=> d = c /\ p = P
    BY DEF Refers
<1>7. \A p \in Names : promise[c][p] = None =>
         ~InSig(c, p) /\ \A i \in 1..Len(chain) : ~Refers(chain[i], c, p)
    BY <1>2 DEF Inv, ReferenceInv, None
<1> HIDE DEF op, n, P
<1>8. ReferenceInv'
    <2> SUFFICES ASSUME NEW d \in Call, NEW p \in Names
                 PROVE  /\ \A i, j \in 1..n :
                              Refers(chain'[i], d, p) /\ Refers(chain'[j], d, p) => i = j
                        /\ \A i \in 1..n : Refers(chain'[i], d, p) =>
                              promise'[d][p] \in {"empty", "gone"} /\ ~InSig(d, p)
                        /\ InSig(d, p) => promise'[d][p] \in {"empty", "gone"}
        BY <1>2, <1>4 DEF ReferenceInv
    <2>1. CASE d = c /\ p = P
        BY <1>3, <1>5, <1>7, <2>1 DEF P
    <2>2. CASE ~(d = c /\ p = P)
        <3>1. \A i \in 1..n :
                 Refers(chain'[i], d, p) => i \in 1..Len(chain) /\ Refers(chain[i], d, p)
            BY <1>5, <1>6, <2>2
        <3>2. promise'[d][p] = promise[d][p]
            BY <1>3, <2>2
        <3>3. /\ \A i, j \in 1..Len(chain) :
                    Refers(chain[i], d, p) /\ Refers(chain[j], d, p) => i = j
              /\ \A i \in 1..Len(chain) : Refers(chain[i], d, p) =>
                    promise[d][p] \in {"empty", "gone"} /\ ~InSig(d, p)
              /\ InSig(d, p) => promise[d][p] \in {"empty", "gone"}
            BY <1>2 DEF Inv, ReferenceInv
        <3> QED
            BY <3>1, <3>2, <3>3
    <2> QED
        BY <2>1, <2>2
<1>9. OrderInv'
    <2> SUFFICES ASSUME NEW d \in Call
                 PROVE  /\ \A i, j \in 1..n :
                              Refers(chain'[i], d, "remote") /\ Refers(chain'[j], d, "local")
                                => i < j
                        /\ InSig(d, "local") => \A i \in 1..n : ~Refers(chain'[i], d, "remote")
                        /\ at'[d] = "local" =>
                              /\ \A i \in 1..n : Refers(chain'[i], d, "remote") =>
                                    \E j \in 1..n : Refers(chain'[j], d, "local")
                              /\ InSig(d, "remote") =>
                                    \E j \in 1..n : Refers(chain'[j], d, "local")
        BY <1>2, <1>4 DEF OrderInv, Names
    <2>1. CASE d # c
        <3>1. \A i \in 1..n, p \in Names :
                 Refers(chain'[i], d, p) => i \in 1..Len(chain) /\ Refers(chain[i], d, p)
            BY <1>5, <1>6, <2>1
        <3>2. \A i \in 1..Len(chain), p \in Names :
                 Refers(chain[i], d, p) => i \in 1..n /\ Refers(chain'[i], d, p)
            BY <1>2 DEF n
        <3>3. at'[d] = at[d]
            BY <1>3, <2>1 DEF Inv, TypeOK
        <3>4. /\ \A i, j \in 1..Len(chain) :
                    Refers(chain[i], d, "remote") /\ Refers(chain[j], d, "local") => i < j
              /\ InSig(d, "local") => \A i \in 1..Len(chain) : ~Refers(chain[i], d, "remote")
              /\ at[d] = "local" =>
                    /\ \A i \in 1..Len(chain) : Refers(chain[i], d, "remote") =>
                          \E j \in 1..Len(chain) : Refers(chain[j], d, "local")
                    /\ InSig(d, "remote") =>
                          \E j \in 1..Len(chain) : Refers(chain[j], d, "local")
            BY <1>2 DEF Inv, OrderInv
        <3> QED
            BY <3>1, <3>2, <3>3, <3>4 DEF Names
    <2>2. CASE d = c
        <3>1. ~InSig(c, "local") /\ \A i \in 1..Len(chain) : ~Refers(chain[i], c, "local")
            BY <1>7 DEF Names
        <3>2. CASE P = "remote"
            BY <1>3, <1>5, <1>6, <2>2, <3>1, <3>2 DEF Names, Inv, TypeOK
        <3>3. CASE P = "local"
            <4>1. n \in 1..n /\ Refers(chain'[n], c, "local")
                BY <1>2, <1>6, <3>3 DEF n, Names
            <4>2. \A i \in 1..n : Refers(chain'[i], c, "remote") => i \in 1..Len(chain)
                BY <1>5, <1>6, <3>3 DEF Names
            <4>3. \A j \in 1..n : Refers(chain'[j], c, "local") => j = n
                BY <1>5, <3>1
            <4> QED
                BY <1>2, <2>2, <3>1, <4>1, <4>2, <4>3 DEF n
        <3> QED
            BY <1>1, <3>2, <3>3 DEF Names
    <2> QED
        BY <2>1, <2>2
<1>10. \A i \in 1..n : chain'[i].call # c => i \in 1..Len(chain) /\ chain[i] = chain'[i]
    BY <1>5 DEF op
<1> QED
    BY <1>2, <1>3, <1>8, <1>9, <1>10 DEF P

\* A handler starts with its first operation.
LEMMA BeginInv == ASSUME Inv, NEW c \in Call, NEW f \in Function, Begin(c, f) PROVE Inv'
<1> DEFINE obs == IF f = "createOffer" THEN "Create" ELSE "SetRemote"
<1> USE DEF Inv
<1>1. /\ at[c] = "off" /\ obs \in {"SetRemote", "Create"} /\ Issue(c, obs)
      /\ fun' = [fun EXCEPT ![c] = f]
      /\ UNCHANGED <<reply, late, cancelled, local, remote, sig, broken>>
    BY DEF Begin, webrtcVars
<1>2. f \in Functions /\ f # None
    BY FunctionAssumption DEF Functions, None
<1>3. /\ \A p \in Names : promise[c][p] = None
      /\ fun[c] = None /\ reply[c] = None /\ PromiseOf(obs) \in Names
      /\ PromiseOf(obs) = "local" <=> f = "createOffer"
      /\ PromiseOf(obs) = "remote" <=> f # "createOffer"
    BY <1>1 DEF HandlerInv, PromiseOf, Names
<1>4. promise[c][PromiseOf(obs)] = None /\ promise[c]["local"] = None
    BY <1>3 DEF Names
<1>5. /\ chain' \in Seq(Operation) /\ ReferenceInv' /\ OrderInv'
      /\ at' = [at EXCEPT ![c] = PromiseOf(obs)]
      /\ promise' \in [Call -> [Names -> Descriptions \cup {None, "empty", "null", "gone"}]]
      /\ \A d \in Call, p \in Names :
            promise'[d][p] = IF d = c /\ p = PromiseOf(obs) THEN "empty" ELSE promise[d][p]
      /\ \A i \in DOMAIN chain' :
            chain'[i].call # c => i \in DOMAIN chain /\ chain[i] = chain'[i]
    BY <1>1, <1>4, IssueInv
<1> HIDE DEF obs
<1>6. TypeOK'
    BY <1>1, <1>3, <1>5 DEF TypeOK, Names
<1>7. HandlerInv'
    BY <1>1, <1>2, <1>3, <1>5 DEF HandlerInv, TypeOK, Names, None
<1>8. sig.stage # "idle" => sig.call # c
    BY <1>3, SigFields DEF ReferenceInv, None
<1>9. ValueInv'
    <2>1. \A d \in Call : d # c => Subject(d)' = Subject(d)
        BY <1>1 DEF Subject, TypeOK
    <2>2. \A d \in Call : promise'[d]["local"] \in {None, "empty", "null", "gone", Subject(d)'}
        BY <1>3, <1>5, <2>1 DEF ValueInv, Names
    <2>3. sig.stage # "idle" => Subject(sig.call)' = Subject(sig.call)
        BY <1>1, <1>8, <2>1, SigFields
    <2>4. /\ sig'.stage = "callback" /\ sig'.obs = "SetLocal" /\ sig'.ok
                => local' = Subject(sig.call)'
          /\ sig'.stage = "store" =>
                /\ sig'.obs = "Create" => sig'.val = "null"
                /\ sig'.obs = "SetLocal" => sig'.val \in {"null", Subject(sig.call)'}
        BY <1>1, <2>3 DEF ValueInv
    <2> QED
        BY <1>1, <2>2, <2>4 DEF ValueInv, Subject
<1>10. PunctualHandlersLeaveNothing'
    BY <1>1, <1>3, <1>5 DEF PunctualHandlersLeaveNothing, TypeOK, Names
<1>11. RepliesAreOfTheRightType'
    BY <1>1, <1>3 DEF RepliesAreOfTheRightType, Subject, TypeOK, Descriptions, None
<1> QED
    BY <1>5, <1>6, <1>7, <1>9, <1>10, <1>11

\* getAnswer goes on with the second one.
LEMMA AskAnswerInv ==
    ASSUME Inv, NEW c \in Call, AskAnswer(c), cancelled' \in SUBSET (Call \X Observers)
    PROVE  Inv'
<1> USE DEF Inv
<1>1. /\ at[c] = "remote" /\ fun[c] = "getAnswer" /\ Issue(c, "Create")
      /\ UNCHANGED <<fun, reply, late, local, remote, sig, broken>>
    BY DEF AskAnswer, webrtcVars
<1>2. promise[c]["local"] = None /\ PromiseOf("Create") = "local"
    BY <1>1 DEF HandlerInv, PromiseOf
<1>3. /\ chain' \in Seq(Operation) /\ ReferenceInv' /\ OrderInv'
      /\ at' = [at EXCEPT ![c] = "local"]
      /\ promise' \in [Call -> [Names -> Descriptions \cup {None, "empty", "null", "gone"}]]
      /\ \A d \in Call, p \in Names :
            promise'[d][p] = IF d = c /\ p = "local" THEN "empty" ELSE promise[d][p]
      /\ \A i \in DOMAIN chain' :
            chain'[i].call # c => i \in DOMAIN chain /\ chain[i] = chain'[i]
    BY <1>1, <1>2, IssueInv
<1>4. TypeOK'
    BY <1>1, <1>3 DEF TypeOK, Names
<1>5. HandlerInv'
    BY <1>1, <1>3 DEF HandlerInv, TypeOK, Names
<1>6. ValueInv'
    BY <1>1, <1>3 DEF ValueInv, Subject, Names
<1>7. PunctualHandlersLeaveNothing'
    BY <1>1, <1>3 DEF PunctualHandlersLeaveNothing, TypeOK
<1>8. RepliesAreOfTheRightType'
    BY <1>1 DEF RepliesAreOfTheRightType, Subject
<1> QED
    BY <1>3, <1>4, <1>5, <1>6, <1>7, <1>8

\* A handler returns with r.  It is punctual only if nothing refers to its promises.
LEMMA FinishInv ==
    ASSUME Inv, NEW c \in Call, NEW r \in Descriptions \cup {"null", "error"}, Finish(c, r),
           at[c] \in {"remote", "local"},
           cancelled' \in SUBSET (Call \X Observers),
           UNCHANGED <<fun, local, remote, chain, sig, broken>>,
           \/ late' = late \cup {c}
           \/ /\ late' = late
              /\ \A p \in Names :
                    ~InSig(c, p) /\ \A i \in DOMAIN chain : ~Refers(chain[i], c, p),
           fun[c] # "setAnswer" => r \in {"null", "error", Subject(c)}
    PROVE  Inv'
<1> USE DEF Inv, Finish
<1>1. TypeOK'
    BY DEF TypeOK
<1>2. \A d \in Call, p \in Names :
         promise'[d][p] = IF d = c THEN "gone" ELSE promise[d][p]
    BY DEF TypeOK, Names
<1>3. \A d \in Call, p \in Names : InSig(d, p)' <=> InSig(d, p)
    BY DEF InSig, Refers
<1>4. ReferenceInv'
    BY <1>2, <1>3 DEF ReferenceInv, Refers
<1>5. OrderInv'
    BY <1>3 DEF OrderInv, Refers, TypeOK, Names
<1>6. HandlerInv'
    BY <1>2 DEF HandlerInv, TypeOK, Names
<1>7. ValueInv'
    BY <1>2 DEF ValueInv, Subject, Names
<1>8. PunctualHandlersLeaveNothing'
    <2>1. CASE late' = late \cup {c}
        BY <2>1 DEF PunctualHandlersLeaveNothing, TypeOK
    <2>2. CASE /\ late' = late
               /\ \A p \in Names :
                     ~InSig(c, p) /\ \A i \in DOMAIN chain : ~Refers(chain[i], c, p)
        <3>1. \A i \in DOMAIN chain : chain[i].call # c
            BY <2>2 DEF Refers, PromiseOf, Names
        <3>2. sig.stage # "idle" => sig.call # c
            BY <2>2 DEF InSig, Refers, PromiseOf, Names
        <3> QED
            BY <2>2, <3>1, <3>2 DEF PunctualHandlersLeaveNothing, TypeOK
    <2> QED
        BY <2>1, <2>2
<1>9. RepliesAreOfTheRightType'
    BY DEF RepliesAreOfTheRightType, Subject, Descriptions, TypeOK
<1> QED
    BY <1>1, <1>4, <1>5, <1>6, <1>7, <1>8, <1>9

\* A handler whose value came in time: nothing refers to that promise any more, and to
\* the other one neither.
LEMMA WaitReadyInv == ASSUME Inv, NEW c \in Call, WaitReady(c) PROVE Inv'
<1> USE DEF Inv
<1>1. CASE AskAnswer(c) /\ UNCHANGED cancelled
    BY <1>1, AskAnswerInv DEF TypeOK
<1>2. CASE /\ ~(at[c] = "remote" /\ fun[c] = "getAnswer")
           /\ Finish(c, promise[c][Awaited(c)])
           /\ UNCHANGED <<fun, late, cancelled, webrtcVars, chain, sig, broken>>
    <2> DEFINE r == promise[c][at[c]]
    <2>1. at[c] \in Names /\ r \notin {"empty", None, "gone"} /\ Finish(c, r)
        BY <1>2 DEF WaitReady, Ready, Awaited, Names
    <2>2. r \in Descriptions \cup {"null", "error"}
        BY <2>1, Lookup
    <2>3. ~InSig(c, at[c]) /\ \A i \in DOMAIN chain : ~Refers(chain[i], c, at[c])
        BY <2>1 DEF ReferenceInv
    <2>4. \A p \in Names : ~InSig(c, p) /\ \A i \in DOMAIN chain : ~Refers(chain[i], c, p)
        <3>1. CASE at[c] = "local"
            BY <2>3, <3>1 DEF OrderInv, Names
        <3>2. CASE at[c] = "remote"
            BY <2>3, <3>2 DEF HandlerInv, ReferenceInv, Names, None
        <3> QED
            BY <2>1, <3>1, <3>2 DEF Names
    <2>5. fun[c] # "setAnswer" => r \in {"null", "error", Subject(c)}
        <3>1. CASE at[c] = "local"
            BY <2>1, <3>1 DEF ValueInv
        <3>2. CASE at[c] = "remote"
            BY <1>2, <3>2, FunctionAssumption DEF HandlerInv, TypeOK, Functions
        <3> QED
            BY <2>1, <3>1, <3>2 DEF Names
    <2> QED
        BY <1>2, <2>1, <2>2, <2>4, <2>5, FinishInv DEF webrtcVars, Names, TypeOK
<1> QED
    BY <1>1, <1>2 DEF WaitReady

\* A handler whose wait timed out.
LEMMA WaitTimeoutInv == ASSUME Inv, NEW c \in Call, WaitTimeout(c) PROVE Inv'
<1>1. cancelled' \in SUBSET (Call \X Observers)
    BY DEF WaitTimeout, Inv, TypeOK, Observers
<1>2. CASE AskAnswer(c)
    BY <1>1, <1>2, AskAnswerInv
<1>3. CASE /\ late' = late \cup {c} /\ Finish(c, "error")
           /\ UNCHANGED <<fun, webrtcVars, chain, sig, broken>>
    BY <1>1, <1>3, FinishInv DEF WaitTimeout, webrtcVars
<1> QED
    BY <1>2, <1>3 DEF WaitTimeout

-----------------------------------------------------------------------------
(* The signaling thread.                                                   *)

\* The handlers and their promises stay; what the references do is the matter of the
\* other lemmas.
LEMMA HandlersStay ==
    ASSUME Inv, UNCHANGED <<handlerVars, promise>>
    PROVE  HandlerInv' /\ RepliesAreOfTheRightType' /\ \A c \in Call : Subject(c)' = Subject(c)
    BY DEF Inv, HandlerInv, RepliesAreOfTheRightType, Subject, handlerVars

\* WebRTC runs the first operation, whose reference the callback now has.
LEMMA RunOperationInv == ASSUME Inv, NEW ok \in BOOLEAN, RunOperation(ok) PROVE Inv'
<1> USE DEF Inv
<1> DEFINE op == Head(chain)
<1>1. /\ sig.stage = "idle" /\ chain \in Seq(Operation) /\ chain # <<>> /\ chain' = Tail(chain)
      /\ UNCHANGED <<handlerVars, promise, broken>>
    BY DEF RunOperation, Idle, TypeOK
<1>2. /\ chain' \in Seq(Operation) /\ op \in Operation /\ op = chain[1] /\ 1 \in DOMAIN chain
      /\ DOMAIN chain = 1..Len(chain) /\ Len(chain) \in Nat
      /\ DOMAIN chain' = 1..Len(chain) - 1
      /\ \A i \in DOMAIN chain' : i \in Int /\ i + 1 \in DOMAIN chain /\ i + 1 # 1
                                   /\ chain'[i] = chain[i + 1]
    BY <1>1, TailFacts
<1>3. op.call \in Call /\ op.obs \in Observers
    BY <1>2 DEF Operation
<1>4. sig' = [stage |-> "callback", call |-> op.call, obs |-> op.obs, ok |-> ok]
    BY DEF RunOperation
<1>5. /\ local' = IF ok /\ op.obs = "SetLocal" THEN Subject(op.call) ELSE local
      /\ remote' \in {"answer", "offer", remote}
    BY DEF RunOperation
<1> HIDE DEF op
<1>6. \A c \in Call, p \in Names : /\ ~InSig(c, p)
                                   /\ InSig(c, p)' <=> Refers(chain[1], c, p)
    BY <1>1, <1>2, <1>4 DEF InSig, Refers
<1>7. TypeOK'
    <2>1. sig' \in Signaling
        BY <1>3, <1>4 DEF Signaling
    <2>2. local' \in Descriptions \cup {None} /\ remote' \in Descriptions \cup {None}
        BY <1>5 DEF TypeOK, Subject, Descriptions
    <2> QED
        BY <1>1, <1>2, <2>1, <2>2 DEF TypeOK, handlerVars
<1>8. ReferenceInv'
    BY <1>1, <1>2, <1>6 DEF ReferenceInv, Refers
<1>9. OrderInv'
    <2> SUFFICES ASSUME NEW c \in Call
                 PROVE  /\ \A i, j \in DOMAIN chain' :
                              Refers(chain'[i], c, "remote") /\ Refers(chain'[j], c, "local")
                                => i < j
                        /\ Refers(chain[1], c, "local") =>
                              \A i \in DOMAIN chain' : ~Refers(chain'[i], c, "remote")
                        /\ at[c] = "local" =>
                              /\ \A i \in DOMAIN chain' : Refers(chain'[i], c, "remote") =>
                                    \E j \in DOMAIN chain' : Refers(chain'[j], c, "local")
                              /\ Refers(chain[1], c, "remote") =>
                                    \E j \in DOMAIN chain' : Refers(chain'[j], c, "local")
        BY <1>1, <1>6 DEF OrderInv, Names, handlerVars
    <2>1. \A i, j \in DOMAIN chain :
             Refers(chain[i], c, "remote") /\ Refers(chain[j], c, "local") => i < j
        BY DEF OrderInv
    <2>2. \A i, j \in DOMAIN chain' :
             Refers(chain'[i], c, "remote") /\ Refers(chain'[j], c, "local") => i < j
        <3> SUFFICES ASSUME NEW i \in DOMAIN chain', NEW j \in DOMAIN chain',
                            Refers(chain'[i], c, "remote"), Refers(chain'[j], c, "local")
                     PROVE  i < j
            OBVIOUS
        <3>1. i + 1 < j + 1
            BY <1>2, <2>1
        <3> QED
            BY <1>2, <3>1
    <2>3. Refers(chain[1], c, "local") => \A i \in DOMAIN chain' : ~Refers(chain'[i], c, "remote")
        <3> SUFFICES ASSUME NEW i \in DOMAIN chain', Refers(chain[1], c, "local"),
                            Refers(chain'[i], c, "remote")
                     PROVE  FALSE
            OBVIOUS
        <3>1. i + 1 < 1 /\ i + 1 \in 1..Len(chain)
            BY <1>2, <2>1
        <3> QED
            BY <1>2, <3>1
    <2>4. ASSUME at[c] = "local", NEW k \in DOMAIN chain, Refers(chain[k], c, "remote")
          PROVE  \E j \in DOMAIN chain' : Refers(chain'[j], c, "local")
        <3>1. PICK m \in DOMAIN chain : Refers(chain[m], c, "local")
            BY <2>4 DEF OrderInv
        <3>2. k < m
            BY <2>1, <2>4, <3>1
        <3>3. m - 1 \in DOMAIN chain' /\ (m - 1) + 1 = m
            BY <1>2, <2>4, <3>1, <3>2
        <3>4. chain'[m - 1] = chain[m]
            BY <1>2, <3>3
        <3> QED
            BY <3>1, <3>3, <3>4
    <2> QED
        BY <1>2, <2>2, <2>3, <2>4
<1>10. HandlerInv' /\ RepliesAreOfTheRightType' /\ \A c \in Call : Subject(c)' = Subject(c)
    BY <1>1, HandlersStay
<1>11. ValueInv'
    <2>1. \A c \in Call : promise'[c]["local"] \in {None, "empty", "null", "gone", Subject(c)'}
        BY <1>1, <1>10 DEF ValueInv
    <2>2. sig'.stage = "callback" /\ sig'.obs = op.obs /\ sig'.ok = ok /\ sig'.call = op.call
        BY <1>4
    <2>3. Subject(sig.call)' = Subject(op.call)
        BY <1>1, <2>2 DEF Subject, handlerVars
    <2> QED
        BY <1>5, <2>1, <2>2, <2>3 DEF ValueInv
<1>12. PunctualHandlersLeaveNothing'
    BY <1>1, <1>2, <1>4 DEF PunctualHandlersLeaveNothing, handlerVars
<1> QED
    BY <1>7, <1>8, <1>9, <1>10, <1>11, <1>12

\* A callback ends without a value: its reference is gone.
LEMMA DropInv ==
    ASSUME Inv, sig' = Idle, UNCHANGED <<handlerVars, promise, webrtcVars, chain, broken>>
    PROVE  Inv'
<1> USE DEF Inv, handlerVars, webrtcVars
<1>1. sig'.stage = "idle" /\ \A c \in Call, p \in Names : ~InSig(c, p)'
    BY DEF Idle, InSig
<1>2. TypeOK'
    BY DEF TypeOK, Idle, Signaling
<1>3. ReferenceInv' /\ OrderInv'
    BY <1>1 DEF ReferenceInv, OrderInv, Refers, Names
<1>4. HandlerInv' /\ RepliesAreOfTheRightType' /\ \A c \in Call : Subject(c)' = Subject(c)
    BY HandlersStay
<1>5. ValueInv'
    BY <1>1, <1>4 DEF ValueInv
<1>6. PunctualHandlersLeaveNothing'
    BY <1>1 DEF PunctualHandlersLeaveNothing
<1> QED
    BY <1>2, <1>3, <1>4, <1>5, <1>6

\* A callback is about to set a value of the right type.
LEMMA StoreInv ==
    ASSUME Inv, sig.stage = "callback", NEW v \in Descriptions \cup {"null"},
           sig' = [stage |-> "store", call |-> sig.call, obs |-> sig.obs, val |-> v],
           sig.obs = "Create" => v = "null",
           sig.obs = "SetLocal" => v \in {"null", Subject(sig.call)},
           UNCHANGED <<handlerVars, promise, webrtcVars, chain, broken>>
    PROVE  Inv'
<1> USE DEF Inv, handlerVars, webrtcVars
<1>1. /\ sig'.stage = "store" /\ sig'.call = sig.call /\ sig'.obs = sig.obs /\ sig'.val = v
      /\ sig.call \in Call /\ sig.obs \in Observers
    BY SigFields
<1>2. \A c \in Call, p \in Names : InSig(c, p)' <=> InSig(c, p)
    BY <1>1 DEF InSig, Refers
<1>3. TypeOK'
    <2>1. sig' \in Signaling
        BY <1>1 DEF Signaling
    <2> QED
        BY <2>1 DEF TypeOK
<1>4. ReferenceInv' /\ OrderInv'
    BY <1>2 DEF ReferenceInv, OrderInv, Refers, Names
<1>5. HandlerInv' /\ RepliesAreOfTheRightType' /\ \A c \in Call : Subject(c)' = Subject(c)
    BY HandlersStay
<1>6. ValueInv'
    <2>1. Subject(sig.call)' = Subject(sig.call)
        BY <1>1 DEF Subject
    <2> QED
        BY <1>1, <1>5, <2>1 DEF ValueInv
<1>7. PunctualHandlersLeaveNothing'
    BY <1>1 DEF PunctualHandlersLeaveNothing
<1> QED
    BY <1>3, <1>4, <1>5, <1>6, <1>7

\* SetSessionDescriptionObserver::OnSuccess finds the description that was just set.
LEMMA SetOnSuccessInv == ASSUME Inv, SetOnSuccess PROVE Inv'
<1> USE DEF SetOnSuccess
<1>1. CASE Delivered = None
    BY <1>1, DropInv
<1>2. CASE Delivered # None
    <2>1. Delivered \in Descriptions
        BY <1>2 DEF Inv, TypeOK, Delivered
    <2>2. sig.obs = "SetLocal" => Delivered = Subject(sig.call)
        BY <1>2 DEF Inv, ValueInv, Delivered, Subject, None
    <2> QED
        BY <1>2, <2>1, <2>2, StoreInv
<1> QED
    BY <1>1, <1>2

\* CreateSessionDescriptionObserver::OnSuccess hands its reference on: the callback has
\* it no more, and a new operation at the end of the chain has it.
LEMMA CreateOnSuccessInv == ASSUME Inv, CreateOnSuccess PROVE Inv'
<1> DEFINE c == sig.call
           op == [call |-> c, obs |-> "SetLocal"]
           n == Len(chain) + 1
<1> USE DEF Inv
<1>1. /\ c \in Call /\ InSig(c, "local") /\ sig.stage # "idle"
      /\ promise[c]["local"] \in {"empty", "gone"}
    BY SigFields DEF CreateOnSuccess, PromiseOf, Names, ReferenceInv
<1>2. /\ chain' = Append(chain, op) /\ sig'.stage = "idle" /\ sig' \in Signaling
      /\ UNCHANGED <<fun, at, reply, late, cancelled, promise, local, remote, broken>>
    BY DEF CreateOnSuccess, Idle, Signaling, handlerVars, webrtcVars
<1>3. op \in Operation /\ chain \in Seq(Operation)
    BY <1>1 DEF TypeOK, Operation, Observers
<1>4. /\ chain' \in Seq(Operation) /\ Len(chain) \in Nat /\ DOMAIN chain = 1..Len(chain)
      /\ DOMAIN chain' = 1..n /\ chain'[n] = op
      /\ \A i \in 1..Len(chain) : chain'[i] = chain[i]
    BY <1>2, <1>3, AppendFacts
<1>5. \A i \in 1..n : i \in 1..Len(chain) \/ i = n
    BY <1>4
<1>6. \A d \in Call, p \in Names : Refers(chain'[n], d, p) <=> d = c /\ p = "local"
    BY <1>4 DEF Refers, PromiseOf
<1>7. \A d \in Call, p \in Names : ~InSig(d, p)'
    BY <1>2 DEF InSig
<1>8. \A d \in Call, p \in Names : \A i \in 1..Len(chain) :
         Refers(chain[i], d, p) => d # c
    <2> SUFFICES ASSUME NEW p \in Names, NEW i \in 1..Len(chain), Refers(chain[i], c, p)
                 PROVE  FALSE
        BY <1>1
    <2>1. CASE p = "local"
        BY <1>1, <1>4, <2>1 DEF ReferenceInv, Names
    <2>2. CASE p = "remote"
        BY <1>1, <1>4, <2>2 DEF OrderInv
    <2> QED
        BY <2>1, <2>2 DEF Names
<1>9. TypeOK'
    BY <1>2, <1>4 DEF TypeOK
<1> HIDE DEF c, op, n
<1>10. ASSUME NEW d \in Call, NEW p \in Names, d # c
       PROVE  \A i \in 1..n : Refers(chain'[i], d, p) => i \in 1..Len(chain) /\ Refers(chain[i], d, p)
    BY <1>4, <1>5, <1>6, <1>10
<1>11. ASSUME NEW p \in Names
       PROVE  \A i \in 1..n : Refers(chain'[i], c, p) => i = n /\ p = "local"
    BY <1>1, <1>4, <1>5, <1>6, <1>8
<1>12. ReferenceInv'
    <2> SUFFICES ASSUME NEW d \in Call, NEW p \in Names
                 PROVE  /\ \A i, j \in 1..n :
                              Refers(chain'[i], d, p) /\ Refers(chain'[j], d, p) => i = j
                        /\ \A i \in 1..n : Refers(chain'[i], d, p) =>
                              promise[d][p] \in {"empty", "gone"}
        BY <1>2, <1>4, <1>7 DEF ReferenceInv
    <2>1. CASE d = c
        BY <1>1, <1>11, <2>1
    <2>2. CASE d # c
        <3>1. /\ \A i, j \in 1..Len(chain) :
                    Refers(chain[i], d, p) /\ Refers(chain[j], d, p) => i = j
              /\ \A i \in 1..Len(chain) : Refers(chain[i], d, p) =>
                    promise[d][p] \in {"empty", "gone"}
            BY <1>4 DEF ReferenceInv
        <3> QED
            BY <1>10, <2>2, <3>1
    <2> QED
        BY <2>1, <2>2
<1>13. OrderInv'
    <2> SUFFICES ASSUME NEW d \in Call
                 PROVE  /\ \A i, j \in 1..n :
                              Refers(chain'[i], d, "remote") /\ Refers(chain'[j], d, "local")
                                => i < j
                        /\ at[d] = "local" =>
                              \A i \in 1..n : Refers(chain'[i], d, "remote") =>
                                    \E j \in 1..n : Refers(chain'[j], d, "local")
        BY <1>2, <1>4, <1>7 DEF OrderInv, Names
    <2>1. CASE d = c
        <3>1. \A i \in 1..n : ~Refers(chain'[i], d, "remote")
            BY <1>11, <2>1 DEF Names
        <3> QED
            BY <3>1
    <2>2. CASE d # c
        <3>1. /\ \A i, j \in 1..Len(chain) :
                    Refers(chain[i], d, "remote") /\ Refers(chain[j], d, "local") => i < j
              /\ at[d] = "local" =>
                    \A i \in 1..Len(chain) : Refers(chain[i], d, "remote") =>
                          \E j \in 1..Len(chain) : Refers(chain[j], d, "local")
            BY <1>4 DEF OrderInv
        <3>2. \A i \in 1..Len(chain) : i \in 1..n /\ chain'[i] = chain[i]
            BY <1>4 DEF n
        <3> QED
            BY <1>10, <2>2, <3>1, <3>2 DEF Names
    <2> QED
        BY <2>1, <2>2
<1>14. HandlerInv' /\ RepliesAreOfTheRightType' /\ \A d \in Call : Subject(d)' = Subject(d)
    BY <1>2, HandlersStay DEF handlerVars
<1>15. ValueInv'
    BY <1>2, <1>14 DEF ValueInv
<1>16. PunctualHandlersLeaveNothing'
    <2>1. at[c] = "done" => c \in late
        BY <1>1 DEF PunctualHandlersLeaveNothing, c
    <2>2. \A i \in 1..n :
             \/ i \in 1..Len(chain) /\ chain'[i] = chain[i]
             \/ i = n /\ chain'[i].call = c
        BY <1>4, <1>5 DEF op
    <2>3. \A d \in Call : at[d] = "done" /\ d \notin late =>
             \A i \in 1..Len(chain) : chain[i].call # d
        BY <1>4 DEF PunctualHandlersLeaveNothing
    <2>4. \A d \in Call : at[d] = "done" /\ d \notin late => \A i \in 1..n : chain'[i].call # d
        BY <2>1, <2>2, <2>3
    <2>5. broken => late # {}
        BY DEF PunctualHandlersLeaveNothing
    <2> QED
        BY <1>2, <1>4, <2>4, <2>5 DEF PunctualHandlersLeaveNothing
<1> QED
    BY <1>9, <1>12, <1>13, <1>14, <1>15, <1>16

\* set_value: the only reference to the promise is used up.
LEMMA SetValueInv == ASSUME Inv, SetValue PROVE Inv'
<1> DEFINE c == sig.call
           p == PromiseOf(sig.obs)
<1> USE DEF Inv
<1>1. /\ c \in Call /\ p \in Names /\ InSig(c, p) /\ sig.stage = "store"
      /\ sig.val \in Descriptions \cup {"null"} /\ sig.obs \in Observers
      /\ sig' = Idle /\ UNCHANGED <<handlerVars, webrtcVars, chain>>
    BY SigFields DEF SetValue
<1>2. promise[c][p] \in {"empty", "gone"}
    BY <1>1 DEF ReferenceInv
<1>3. CASE promise[c][p] = "gone"
    <2>1. broken' = TRUE /\ UNCHANGED promise
        BY <1>3 DEF SetValue
    <2>2. c \in late
        BY <1>1, <1>3 DEF HandlerInv, PunctualHandlersLeaveNothing
    <2>3. sig'.stage = "idle" /\ \A d \in Call, q \in Names : ~InSig(d, q)'
        BY <1>1 DEF Idle, InSig
    <2>4. TypeOK'
        <3>1. broken' \in BOOLEAN
            BY <2>1
        <3>2. sig' \in Signaling
            BY <1>1 DEF Idle, Signaling
        <3> QED
            BY <1>1, <2>1, <3>1, <3>2 DEF TypeOK, handlerVars, webrtcVars
    <2>5. ReferenceInv' /\ OrderInv'
        BY <1>1, <2>1, <2>3 DEF ReferenceInv, OrderInv, Refers, Names, handlerVars
    <2>6. HandlerInv' /\ RepliesAreOfTheRightType' /\ \A d \in Call : Subject(d)' = Subject(d)
        BY <1>1, <2>1, HandlersStay
    <2>7. ValueInv'
        BY <2>1, <2>3, <2>6 DEF ValueInv
    <2>8. PunctualHandlersLeaveNothing'
        BY <1>1, <2>1, <2>2, <2>3 DEF PunctualHandlersLeaveNothing, handlerVars
    <2> QED
        BY <2>4, <2>5, <2>6, <2>7, <2>8
<1>4. CASE promise[c][p] # "gone"
    <2>1. promise' = [promise EXCEPT ![c][p] = sig.val] /\ UNCHANGED broken
        BY <1>4 DEF SetValue
    <2>2. promise[c][p] = "empty"
        BY <1>2, <1>4
    <2>3. sig'.stage = "idle" /\ \A d \in Call, q \in Names : ~InSig(d, q)'
        BY <1>1 DEF Idle, InSig
    <2>4. \A d \in Call, q \in Names :
             promise'[d][q] = IF d = c /\ q = p THEN sig.val ELSE promise[d][q]
        BY <1>1, <2>1 DEF TypeOK, Names
    <2>5. TypeOK'
        <3>1. sig' \in Signaling
            BY <1>1 DEF Idle, Signaling
        <3>2. promise' \in [Call -> [Names -> Descriptions \cup {None, "empty", "null", "gone"}]]
            BY <1>1, <2>1 DEF TypeOK, Names
        <3> QED
            BY <1>1, <2>1, <3>1, <3>2 DEF TypeOK, handlerVars, webrtcVars, Names
    <2> HIDE DEF c, p
    <2>6. \A i \in DOMAIN chain : ~Refers(chain[i], c, p)
        BY <1>1 DEF ReferenceInv
    <2>7. ReferenceInv'
        BY <1>1, <2>3, <2>4, <2>6 DEF ReferenceInv, Refers
    <2>8. OrderInv'
        BY <1>1, <2>3 DEF OrderInv, Refers, Names, handlerVars
    <2>9. HandlerInv'
        <3>1. at[c] # "done" => at[c] # "off" /\ (at[c] = "remote" => p # "local")
            BY <1>1, <2>2 DEF HandlerInv, None
        <3>2. sig.val # "gone"
            BY <1>1 DEF Descriptions
        <3> QED
            BY <1>1, <2>2, <2>4, <3>1, <3>2 DEF HandlerInv, handlerVars, None, Names
    <2>10. RepliesAreOfTheRightType' /\ \A d \in Call : Subject(d)' = Subject(d)
        BY <1>1 DEF RepliesAreOfTheRightType, Subject, handlerVars
    <2>11. ValueInv'
        <3>1. p = "local" => sig.val \in {"null", Subject(c)}
            BY <1>1 DEF ValueInv, c, p, PromiseOf, Observers
        <3> QED
            BY <2>3, <2>4, <2>10, <3>1 DEF ValueInv, Names
    <2>12. PunctualHandlersLeaveNothing'
        BY <1>1, <2>1, <2>3 DEF PunctualHandlersLeaveNothing, handlerVars
    <2> QED
        BY <2>5, <2>7, <2>8, <2>9, <2>10, <2>11, <2>12
<1> QED
    BY <1>3, <1>4

\* Inv is inductive.
LEMMA InvStep == Inv /\ [Next]_vars => Inv'
<1> SUFFICES ASSUME Inv, [Next]_vars PROVE Inv'
    OBVIOUS
<1>1. CASE UNCHANGED vars
    BY <1>1 DEF Inv, vars, handlerVars, webrtcVars, TypeOK, ReferenceInv, OrderInv, HandlerInv,
                ValueInv, PunctualHandlersLeaveNothing, RepliesAreOfTheRightType, InSig,
                Refers, Subject
<1>2. CASE Cancelled
    BY <1>2, DropInv DEF Cancelled
<1>3. CASE OnFailure
    BY <1>3, StoreInv DEF OnFailure
<1>4. CASE Next
    BY <1>2, <1>3, <1>4, BeginInv, WaitReadyInv, WaitTimeoutInv, RunOperationInv,
       CreateOnSuccessInv, SetOnSuccessInv, SetValueInv DEF Next
<1> QED
    BY <1>1, <1>4

LEMMA InvAlways == Spec => []Inv
    BY InitInv, InvStep, PTL DEF Spec

-----------------------------------------------------------------------------
\* The types of the variables.
THEOREM TypeCorrect == Spec => []TypeOK
    BY InvAlways, PTL DEF Inv

\* set_value is called at most once on a promise, by either observer, however many
\* handlers there are and whenever their waits time out.
THEOREM SingleValueTheorem == Spec => []SingleValue
<1>1. Inv => SingleValue
    BY SigFields DEF Inv, ReferenceInv, SingleValue
<1> QED
    BY <1>1, InvAlways, PTL

\* Only a handler whose wait timed out can leave a reference to a destroyed promise.
THEOREM PunctualTheorem == Spec => []PunctualHandlersLeaveNothing
    BY InvAlways, PTL DEF Inv

\* createOffer and getAnswer reply with a description of their own type.
THEOREM RepliesTheorem == Spec => []RepliesAreOfTheRightType
    BY InvAlways, PTL DEF Inv
=============================================================================
