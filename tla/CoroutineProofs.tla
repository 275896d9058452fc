--------------------------- MODULE CoroutineProofs ---------------------------
(***************************************************************************)
(* Proofs about what belongs to a coroutine, for every number of them: its *)
(* place on the stack and in the chain of resumes (Asymcoro), its signals  *)
(* (Signals) and its epoll fds (Epoll), when programs keep to the rules    *)
(* that each of these has.                                                 *)
(***************************************************************************)
EXTENDS MCCoroutines, QueueLemmas

-----------------------------------------------------------------------------
(* Asymcoro.                                                               *)

\* The rule of the documentation for stacks, and different names for different things.
StackRule == Independent /\ Sym \cap Asym = {} /\ Main \notin Coro

\* The running coroutines, from the one that the scheduler or main resumed to
\* curr_thread; each is resumed by the one before it.
IsChain(chain) ==
  /\ IsInjective(chain)
  /\ Range(chain) = {c \in Coro : state[c] = "running"}
  /\ curr_thread = IF chain = <<>> THEN Main ELSE chain[Len(chain)]
  /\ \A i \in 1..Len(chain) :
       IF chain[i] \in Sym THEN i = 1
       ELSE ret[chain[i]] = IF i = 1 THEN Main ELSE chain[i - 1]

\* Not only the current coroutine has its frames in place, but also those that
\* wait for one they resumed: of all these, one at most has no stack of its own.
FramesKept == \A c \in Coro : state[c] = "running" /\ c \notin OWNSTACK => stack = c

\* The inductive invariant.
AsymInv == TypeOK /\ FramesKept /\ \E chain \in Seq(Coro) : IsChain(chain)

-----------------------------------------------------------------------------
LEMMA AsymInit == ASSUME StackRule, Init PROVE AsymInv
  <1>1. TypeOK
    BY Zenon DEF Init, TypeOK, Coro
  <1>2. FramesKept
    BY Zenon DEF Init, FramesKept
  <1>3. <<>> \in Seq(Coro) /\ IsChain(<<>>)
    BY DEF Init, IsChain, IsInjective, Range
  <1>. QED BY <1>1, <1>2, <1>3, Zenon DEF AsymInv

\* With nothing running in between, the scheduler or main has the control.
LEMMA ChainEnds ==
  ASSUME StackRule, NEW chain \in Seq(Coro), IsChain(chain)
  PROVE  /\ curr_thread = Main <=> chain = <<>>
         /\ chain = <<>> => \A c \in Coro : state[c] # "running"
         /\ chain # <<>> => curr_thread \in Coro /\ state[curr_thread] = "running"
  <1>1. Len(chain) \in Nat /\ DOMAIN chain = 1..Len(chain)
    OBVIOUS
  <1>2. ASSUME chain # <<>> PROVE chain[Len(chain)] \in Range(chain) /\ chain[Len(chain)] \in Coro
    <2>1. Len(chain) \in 1..Len(chain)
      BY <1>1, <1>2
    <2>. QED BY <1>1, <2>1 DEF Range
  <1>3. chain = <<>> => Range(chain) = {}
    BY DEF Range
  <1>. QED BY <1>2, <1>3, Zenon DEF IsChain, StackRule

\* A coroutine is resumed: it becomes the last of the chain.
LEMMA ChainGrows ==
  ASSUME StackRule, TypeOK, NEW chain \in Seq(Coro), IsChain(chain),
         NEW c \in Coro, state[c] # "running",
         state' = [state EXCEPT ![c] = "running"], curr_thread' = c,
         \/ c \in Sym /\ chain = <<>> /\ ret' = ret
         \/ c \in Asym /\ ret' = [ret EXCEPT ![c] = curr_thread]
  PROVE  Append(chain, c) \in Seq(Coro) /\ IsChain(Append(chain, c))'
  <1> DEFINE new == Append(chain, c)
  <1>1. /\ IsInjective(chain) /\ Range(chain) = {d \in Coro : state[d] = "running"}
        /\ curr_thread = IF chain = <<>> THEN Main ELSE chain[Len(chain)]
        /\ \A i \in 1..Len(chain) :
             IF chain[i] \in Sym THEN i = 1
             ELSE ret[chain[i]] = IF i = 1 THEN Main ELSE chain[i - 1]
    BY Zenon DEF IsChain
  <1>2. c \notin Range(chain)
    BY <1>1, Zenon
  <1>3. IsInjective(new) /\ Range(new) = Range(chain) \cup {c}
    BY <1>1, <1>2, AppendOnce
  <1>4. /\ new \in Seq(Coro) /\ Len(new) = Len(chain) + 1 /\ Len(chain) \in Nat
        /\ \A i \in 1..Len(chain) : new[i] = chain[i]
        /\ new[Len(chain) + 1] = c /\ new # <<>>
        /\ \A i \in 1..Len(chain) : chain[i] \in Coro /\ chain[i] \in Range(chain)
    <2>1. /\ new \in Seq(Coro) /\ Len(new) = Len(chain) + 1 /\ Len(chain) \in Nat
          /\ \A i \in 1..Len(chain) : new[i] = chain[i] /\ chain[i] \in Coro
          /\ new[Len(chain) + 1] = c /\ DOMAIN chain = 1..Len(chain)
      OBVIOUS
    <2> HIDE DEF new
    <2>2. new # <<>>
      BY <2>1
    <2>3. \A i \in 1..Len(chain) : chain[i] \in Range(chain)
      BY <2>1, Zenon DEF Range
    <2>. QED BY <2>1, <2>2, <2>3, Zenon
  <1> HIDE DEF new
  <1>5. Range(new) = {d \in Coro : state'[d] = "running"}
    BY <1>1, <1>3 DEF TypeOK
  <1>6. ASSUME NEW i \in 1..Len(new)
        PROVE  IF new[i] \in Sym THEN i = 1
               ELSE ret'[new[i]] = IF i = 1 THEN Main ELSE new[i - 1]
    <2>1. CASE i \in 1..Len(chain)
      <3>1. new[i] = chain[i] /\ chain[i] # c /\ chain[i] \in Coro
        BY <1>2, <1>4, <2>1, Zenon
      <3>2. i # 1 => i - 1 \in 1..Len(chain) /\ new[i - 1] = chain[i - 1]
        BY <1>4, <2>1, SMTT(60)
      <3>3. chain[i] \notin Sym => ret'[chain[i]] = ret[chain[i]]
        BY <3>1, Zenon DEF TypeOK, Coro
      <3>. QED BY <1>1, <2>1, <3>1, <3>2, <3>3, Zenon
    <2>2. CASE i = Len(chain) + 1
      <3>1. new[i] = c
        BY <1>4, <2>2, Zenon
      <3>2. CASE c \in Sym
        <4>1. c \notin Asym /\ chain = <<>>
          BY <3>2, Zenon DEF StackRule
        <4>2. i = 1
          BY <2>2, <4>1
        <4>. QED BY <3>1, <3>2, <4>2, Zenon
      <3>3. CASE c \in Asym
        <4>1. c \notin Sym /\ ret' = [ret EXCEPT ![c] = curr_thread] /\ ret'[c] = curr_thread
          BY <3>3, Zenon DEF StackRule, TypeOK
        <4>2. chain = <<>> <=> i = 1
          BY <1>4, <2>2
        <4>3. i # 1 => i - 1 = Len(chain) /\ new[i - 1] = chain[Len(chain)]
          BY <1>4, <2>2
        <4>. QED BY <1>1, <3>1, <4>1, <4>2, <4>3, Zenon
      <3>. QED BY <3>2, <3>3, Zenon DEF Coro
    <2>. QED BY <1>4, <2>1, <2>2
  <1>7. curr_thread' = IF new = <<>> THEN Main ELSE new[Len(new)]
    BY <1>4, Zenon
  <1>8. IsChain(new)'
    BY <1>3, <1>5, <1>6, <1>7, Zenon DEF IsChain
  <1>. QED BY <1>4, <1>8, Zenon DEF new

\* The current coroutine yields or ends: it leaves the chain, and the one
\* before it has the control.
LEMMA ChainShrinks ==
  ASSUME StackRule, TypeOK, NEW chain \in Seq(Coro), IsChain(chain),
         NEW c \in Coro, curr_thread = c, NEW next, next # "running",
         state' = [state EXCEPT ![c] = next], ret' = ret,
         curr_thread' = IF c \in Sym THEN Main ELSE ret[c]
  PROVE  \E new \in Seq(Coro) : IsChain(new)'
  <1>1. /\ IsInjective(chain) /\ Range(chain) = {d \in Coro : state[d] = "running"}
        /\ curr_thread = IF chain = <<>> THEN Main ELSE chain[Len(chain)]
        /\ \A i \in 1..Len(chain) :
             IF chain[i] \in Sym THEN i = 1
             ELSE ret[chain[i]] = IF i = 1 THEN Main ELSE chain[i - 1]
    BY Zenon DEF IsChain
  <1>2. chain # <<>> /\ chain[Len(chain)] = c
    BY <1>1, Zenon DEF StackRule
  <1> DEFINE n   == Len(chain)
             new == SubSeq(chain, 1, n - 1)
  <1>3. n \in Nat \ {0} /\ DOMAIN chain = 1..n
    BY <1>2
  <1>4. /\ new \in Seq(Coro) /\ Len(new) = n - 1 /\ DOMAIN new = 1..(n - 1)
        /\ \A i \in 1..(n - 1) : new[i] = chain[i]
    BY <1>3
  <1> HIDE DEF n, new
  <1>5. IsInjective(new)
    BY <1>1, <1>3, <1>4 DEF IsInjective
  <1>6. Range(new) = Range(chain) \ {c}
    <2>0. chain[n] = c
      BY <1>2, Zenon DEF n
    <2>1. ASSUME NEW i \in 1..n PROVE i = n \/ (i \in 1..(n - 1) /\ chain[i] # c)
      <3>1. i # n => i \in 1..(n - 1)
        BY <1>3
      <3>2. i # n => chain[i] # chain[n]
        BY <1>1, <1>3 DEF IsInjective
      <3>. QED BY <2>0, <3>1, <3>2, Zenon
    <2>2. n \in 1..n /\ chain[n] = c
      BY <1>2, <1>3 DEF n
    <2>3. 1..(n - 1) \subseteq 1..n
      BY <1>3
    <2>. QED BY <1>3, <1>4, <2>1, <2>2, <2>3, SMTT(60) DEF Range
  <1>7. Range(new) = {d \in Coro : state'[d] = "running"}
    BY <1>1, <1>6, Zenon DEF TypeOK
  <1>8. curr_thread' = IF new = <<>> THEN Main ELSE new[Len(new)]
    <2>0. n \in 1..Len(chain) /\ chain[n] = c
      BY <1>2, <1>3 DEF n
    <2>1. IF c \in Sym THEN n = 1 ELSE ret[c] = IF n = 1 THEN Main ELSE chain[n - 1]
      BY <1>1, <2>0, Zenon
    <2>2. n = 1 <=> new = <<>>
      BY <1>3, <1>4
    <2>3. n # 1 => new[Len(new)] = chain[n - 1]
      BY <1>3, <1>4
    <2>. QED BY <2>1, <2>2, <2>3, Zenon
  <1>9. ASSUME NEW i \in 1..Len(new)
        PROVE  IF new[i] \in Sym THEN i = 1
               ELSE ret'[new[i]] = IF i = 1 THEN Main ELSE new[i - 1]
    <2>1. i \in 1..n /\ new[i] = chain[i] /\ (i # 1 => i - 1 \in 1..(n - 1))
      BY <1>3, <1>4
    <2>2. IF chain[i] \in Sym THEN i = 1
          ELSE ret[chain[i]] = IF i = 1 THEN Main ELSE chain[i - 1]
      BY <1>1, <2>1, Zenon DEF n
    <2>. QED BY <1>4, <2>1, <2>2, Zenon
  <1>10. IsChain(new)'
    BY <1>5, <1>7, <1>8, <1>9, Zenon DEF IsChain
  <1>. QED BY <1>4, <1>10, Zenon

-----------------------------------------------------------------------------
(* The invariant is inductive.                                             *)

\* resume of the scheduler: nothing else runs.
LEMMA ResumeKeeps == ASSUME StackRule, AsymInv, NEW c \in Coro, resume(c) PROVE AsymInv'
  <1>1. PICK chain \in Seq(Coro) : IsChain(chain)
    BY Zenon DEF AsymInv
  <1>2. /\ TypeOK /\ curr_thread = Main /\ c \in Sym /\ state[c] # "running"
        /\ state[c] # "none"
        /\ stack' = (IF c \in OWNSTACK THEN stack ELSE c) /\ curr_thread' = c
        /\ state' = [state EXCEPT ![c] = "running"] /\ OWNSTACK' = OWNSTACK /\ ret' = ret
    BY Zenon DEF AsymInv, resume, loadstk
  <1>3. chain = <<>> /\ \A d \in Coro : state[d] # "running"
    BY <1>1, <1>2, ChainEnds, Zenon
  <1>4. Append(chain, c) \in Seq(Coro) /\ IsChain(Append(chain, c))'
    BY <1>1, <1>2, <1>3, ChainGrows, Zenon
  <1>5. TypeOK'
    BY <1>2, Zenon DEF TypeOK
  <1>6. FramesKept'
    BY <1>2, <1>3, Zenon DEF FramesKept, TypeOK
  <1>. QED BY <1>4, <1>5, <1>6, Zenon DEF AsymInv

\* dyco_asymcororesume: nothing else runs, or the coroutine has its own stack.
LEMMA AsymResumeKeeps ==
  ASSUME StackRule, AsymInv, NEW c \in Coro, dyco_asymcororesume(c) PROVE AsymInv'
  <1>1. PICK chain \in Seq(Coro) : IsChain(chain)
    BY DEF AsymInv
  <1>2. /\ TypeOK /\ FramesKept /\ c \in Asym /\ state[c] # "running" /\ state[c] # "none"
        /\ curr_thread' = c /\ state' = [state EXCEPT ![c] = "running"]
        /\ ret' = [ret EXCEPT ![c] = curr_thread]
        /\ stack' = IF c \in OWNSTACK' THEN stack ELSE c
    BY Zenon DEF AsymInv, dyco_asymcororesume, loadstk
  <1>3. Append(chain, c) \in Seq(Coro) /\ IsChain(Append(chain, c))'
    BY <1>1, <1>2, ChainGrows, Zenon
  <1>4. OWNSTACK' \in {OWNSTACK, OWNSTACK \cup {c}}
    BY Zenon DEF dyco_asymcororesume
  <1>5. TypeOK'
    BY <1>2, <1>4, Zenon DEF TypeOK, Coro
  <1>6. FramesKept'
    <2>1. CASE curr_thread = Main
      <3>1. \A d \in Coro : state[d] # "running"
        BY <1>1, <2>1, ChainEnds, Zenon
      <3>. QED BY <1>2, <3>1, Zenon DEF FramesKept, TypeOK
    <2>2. CASE curr_thread # Main
      <3>1. c \in OWNSTACK'
        BY <2>2, Zenon DEF dyco_asymcororesume, StackRule
      <3>. QED BY <1>2, <1>4, <3>1, Zenon DEF FramesKept, TypeOK
    <2>. QED BY <2>1, <2>2, Zenon
  <1>. QED BY <1>3, <1>5, <1>6, Zenon DEF AsymInv

\* yield and dyco_asymcoroyield.
LEMMA YieldKeeps ==
  ASSUME StackRule, AsymInv, NEW c \in Coro, NEW next \in {"suspended", "exited"},
         yield(c, next) \/ dyco_asymcoroyield(c, next)
  PROVE  AsymInv'
  <1>1. PICK chain \in Seq(Coro) : IsChain(chain)
    BY Zenon DEF AsymInv
  <1>2. /\ TypeOK /\ FramesKept /\ curr_thread = c /\ next # "running"
        /\ state' = [state EXCEPT ![c] = next] /\ ret' = ret
        /\ OWNSTACK' = OWNSTACK /\ stack' = stack
        /\ curr_thread' = IF c \in Sym THEN Main ELSE ret[c]
    BY Zenon DEF AsymInv, yield, dyco_asymcoroyield, StackRule
  <1>3. \E new \in Seq(Coro) : IsChain(new)'
    BY <1>1, <1>2, ChainShrinks, Zenon
  <1>4. TypeOK'
    BY <1>2, Zenon DEF TypeOK, Coro
  <1>5. FramesKept'
    BY <1>2, Zenon DEF FramesKept, TypeOK
  <1>. QED BY <1>3, <1>4, <1>5, Zenon DEF AsymInv

\* The steps of a coroutine that is not running.
LEMMA OtherKeeps ==
  ASSUME StackRule, AsymInv, NEW c \in Coro,
         \/ create(c) \/ dyco_asymcoro_free(c) \/ freecoro(c)
         \/ \E size \in {0, 1} : setStack(c, size)
  PROVE  AsymInv'
  <1>1. PICK chain \in Seq(Coro) : IsChain(chain)
    BY Zenon DEF AsymInv
  <1>2. /\ TypeOK /\ FramesKept
        /\ state[c] # "running" /\ stack' = stack /\ curr_thread' = curr_thread /\ ret' = ret
        /\ \E s \in {"none", "new"} : state' = [state EXCEPT ![c] = s]
        /\ OWNSTACK' \in {OWNSTACK, OWNSTACK \cup {c}, OWNSTACK \ {c}}
        /\ state'[c] = "none" => c \notin OWNSTACK'
    BY Zenon DEF AsymInv, TypeOK, create, dyco_asymcoro_free, freecoro, setStack
  <1>3. \A d \in Coro : (state'[d] = "running") <=> (state[d] = "running")
    BY <1>2, Zenon DEF TypeOK
  <1>4. IsChain(chain)'
    BY <1>1, <1>2, <1>3, Zenon DEF IsChain
  <1>5. TypeOK'
    BY <1>2 DEF TypeOK
  <1>6. FramesKept'
    BY <1>2, <1>3, Zenon DEF FramesKept
  <1>. QED BY <1>4, <1>5, <1>6, Zenon DEF AsymInv

LEMMA AsymStep == ASSUME StackRule, AsymInv, [Next]_vars PROVE AsymInv'
  <1>1. CASE UNCHANGED vars
    BY <1>1, Zenon DEF vars, AsymInv, TypeOK, FramesKept, IsChain
  <1>2. CASE Next
    <2>1. PICK c \in Coro :
            \/ create(c) \/ resume(c) \/ freecoro(c)
            \/ dyco_asymcororesume(c) \/ dyco_asymcoro_free(c)
            \/ \E size \in {0, 1} : setStack(c, size)
            \/ \E next \in {"suspended", "exited"} : yield(c, next) \/ dyco_asymcoroyield(c, next)
      BY <1>2, Zenon DEF Next
    <2>. QED BY <2>1, ResumeKeeps, AsymResumeKeeps, YieldKeeps, OtherKeeps, Zenon
  <1>. QED BY <1>1, <1>2, Zenon

\* For every set of coroutines: a coroutine that runs on the stack of the
\* scheduler finds its own frames there, also when it goes on after the
\* coroutines it has resumed, as long as programs keep to the rule of the
\* documentation.
THEOREM StackIntactAlways == ASSUME Independent PROVE Spec => []StackIntact
  <1>0. StackRule
    BY AsymcoroConstants, Zenon DEF StackRule
  <1>1. Init => AsymInv
    BY <1>0, AsymInit, Zenon
  <1>2. AsymInv /\ [Next]_vars => AsymInv'
    BY <1>0, AsymStep, Zenon
  <1>3. AsymInv => StackIntact
    <2> SUFFICES ASSUME AsymInv, curr_thread \in Coro \ OWNSTACK PROVE stack = curr_thread
      BY Zenon DEF StackIntact
    <2>1. PICK chain \in Seq(Coro) : IsChain(chain)
      BY Zenon DEF AsymInv
    <2>2. state[curr_thread] = "running"
      BY <1>0, <2>1, ChainEnds, Zenon DEF StackRule
    <2>. QED BY <2>2, Zenon DEF AsymInv, FramesKept
  <1>. QED BY <1>1, <1>2, <1>3, PTL DEF Spec

-----------------------------------------------------------------------------
(* The way back from curr_thread.                                          *)

\* f gives where the control comes to by n returns: the equation of Returned.
IsReturned(f) ==
  f = [n \in 0..Cardinality(Coro) |->
         IF n = 0 THEN curr_thread ELSE IF f[n - 1] \in Asym THEN ret[f[n - 1]] ELSE Main]

\* The equation has one solution.
LEMMA ReturnedOnce ==
  ASSUME Cardinality(Coro) \in Nat, NEW f, NEW g, IsReturned(f), IsReturned(g) PROVE f = g
  <1> DEFINE N == Cardinality(Coro)
             S == {n \in Nat : n \in 0..N => f[n] = g[n]}
  <1>1. /\ f = [n \in 0..N |-> IF n = 0 THEN curr_thread
                               ELSE IF f[n - 1] \in Asym THEN ret[f[n - 1]] ELSE Main]
        /\ g = [n \in 0..N |-> IF n = 0 THEN curr_thread
                               ELSE IF g[n - 1] \in Asym THEN ret[g[n - 1]] ELSE Main]
    BY Zenon DEF IsReturned
  <1> HIDE DEF N
  <1>2. /\ \A n \in 0..N : f[n] = IF n = 0 THEN curr_thread
                                  ELSE IF f[n - 1] \in Asym THEN ret[f[n - 1]] ELSE Main
        /\ \A n \in 0..N : g[n] = IF n = 0 THEN curr_thread
                                  ELSE IF g[n - 1] \in Asym THEN ret[g[n - 1]] ELSE Main
    BY <1>1, Zenon
  <1>3. N \in Nat
    BY Zenon DEF N
  <1>4. 0 \in S
    BY <1>2, <1>3, Zenon
  <1>5. ASSUME NEW n \in Nat, n \in S PROVE n + 1 \in S
    <2> SUFFICES ASSUME n + 1 \in 0..N PROVE f[n + 1] = g[n + 1]
      OBVIOUS
    <2>1. n \in 0..N /\ f[n] = g[n] /\ (n + 1) - 1 = n /\ n + 1 # 0
      BY <1>3, <1>5
    <2>. QED BY <1>2, <2>1
  <1> HIDE DEF S
  <1>6. Nat \subseteq S
    BY <1>4, <1>5, SetInduction, Zenon
  <1>7. \A n \in 0..N : f[n] = g[n]
    BY <1>3, <1>6 DEF S
  <1>. QED BY <1>1, <1>7

\* The control goes back along the chain.
LEMMA ChainReturned ==
  ASSUME StackRule, IsFiniteSet(Coro), NEW chain \in Seq(Coro), IsChain(chain)
  PROVE  /\ Len(chain) \in 0..Cardinality(Coro) /\ Cardinality(Coro) \in Nat
         /\ Returned = [n \in 0..Cardinality(Coro) |->
                          IF n < Len(chain) THEN chain[Len(chain) - n] ELSE Main]
  <1> DEFINE N == Cardinality(Coro)
             L == Len(chain)
             g == [n \in 0..N |-> IF n < L THEN chain[L - n] ELSE Main]
  <1>1. /\ IsInjective(chain)
        /\ curr_thread = IF chain = <<>> THEN Main ELSE chain[L]
        /\ \A i \in 1..L : IF chain[i] \in Sym THEN i = 1
                           ELSE ret[chain[i]] = IF i = 1 THEN Main ELSE chain[i - 1]
    BY Zenon DEF IsChain
  <1>2. L \in Nat /\ N \in Nat /\ L <= N
    <2>1. Cardinality(Range(chain)) = L /\ Range(chain) \subseteq Coro
      BY <1>1, CardOnce, Zenon
    <2>2. N \in Nat /\ Cardinality(Range(chain)) <= N
      BY <2>1, FS_Subset, FS_CardinalityType, Zenon
    <2>. QED BY <2>1, <2>2
  <1>3. (chain = <<>> <=> L = 0) /\ \A i \in 1..L : chain[i] \in Coro
    OBVIOUS
  <1> HIDE DEF N, L
  <1>4. \A n \in 0..N : g[n] = IF n < L THEN chain[L - n] ELSE Main
    BY Zenon
  <1>5. ASSUME NEW n \in 0..N
        PROVE  g[n] = IF n = 0 THEN curr_thread
                      ELSE IF g[n - 1] \in Asym THEN ret[g[n - 1]] ELSE Main
    <2> HIDE DEF g
    <2>1. CASE n = 0
      BY <1>1, <1>2, <1>3, <1>4, <2>1
    <2>2. CASE n # 0 /\ n - 1 < L
      <3>1. PICK i \in 1..L : i = L - (n - 1)
        BY <1>2, <2>2
      <3>2. g[n - 1] = chain[i] /\ chain[i] \in Coro
        BY <1>2, <1>3, <1>4, <2>2, <3>1
      <3>3. g[n] = IF i = 1 THEN Main ELSE chain[i - 1]
        BY <1>2, <1>4, <2>2, <3>1
      <3>4. chain[i] \in Asym <=> chain[i] \notin Sym
        BY <3>2, Zenon DEF StackRule, Coro
      <3>. QED BY <1>1, <2>2, <3>2, <3>3, <3>4, Zenon
    <2>3. CASE n # 0 /\ ~(n - 1 < L)
      <3>1. g[n - 1] = Main /\ g[n] = Main
        BY <1>2, <1>4, <2>3
      <3>. QED BY <2>3, <3>1, Zenon DEF StackRule, Coro
    <2>. QED BY <2>1, <2>2, <2>3, Zenon
  <1>6. IsReturned(g)
    <2> DEFINE h == [n \in 0..N |-> IF n = 0 THEN curr_thread
                                    ELSE IF g[n - 1] \in Asym THEN ret[g[n - 1]] ELSE Main]
    <2>1. DOMAIN g = 0..N /\ g = [n \in 0..N |-> g[n]]
      BY Zenon
    <2> HIDE DEF g
    <2>2. g = h
      BY <1>5, <2>1, Zenon
    <2>. QED BY <2>2, Zenon DEF IsReturned, N
  <1>7. IsReturned(Returned)
    <2> HIDE DEF g
    <2>1. \E f : IsReturned(f)
      BY <1>6, Zenon
    <2>2. Returned = CHOOSE f : IsReturned(f)
      BY Zenon DEF Returned, IsReturned
    <2>. QED BY <2>1, <2>2, Zenon
  <1>8. Returned = g
    <2> HIDE DEF g
    <2>. QED BY <1>2, <1>6, <1>7, ReturnedOnce, Zenon DEF N
  <1>. QED BY <1>2, <1>8 DEF N, L

\* Every coroutine that has resumed another one gets the control back, for every
\* set of coroutines and however deep they resume each other: the running ones
\* are those on the way from curr_thread along ret to main or the scheduler.
THEOREM ResumersReturnedAlways == ASSUME Independent PROVE Spec => []ResumersReturned
  <1>0. StackRule /\ IsFiniteSet(Coro)
    BY AsymcoroConstants, Zenon DEF StackRule
  <1>1. AsymInv => ResumersReturned
    <2> SUFFICES ASSUME AsymInv PROVE ResumersReturned
      BY Zenon
    <2>1. PICK chain \in Seq(Coro) : IsChain(chain)
      BY Zenon DEF AsymInv
    <2> DEFINE N == Cardinality(Coro)
               L == Len(chain)
    <2>2. /\ L \in 0..N /\ N \in Nat
          /\ Returned = [n \in 0..N |-> IF n < L THEN chain[L - n] ELSE Main]
      BY <1>0, <2>1, ChainReturned, Zenon
    <2>3. /\ DOMAIN chain = 1..L /\ \A i \in 1..L : chain[i] \in Coro
          /\ Range(chain) = {c \in Coro : state[c] = "running"}
      BY <2>1 DEF IsChain
    <2> HIDE DEF N, L
    <2>4. /\ DOMAIN Returned = 0..N
          /\ \A n \in 0..N : Returned[n] = IF n < L THEN chain[L - n] ELSE Main
      BY <2>2, Zenon
    <2>5. ASSUME NEW c \in Range(chain) PROVE c # Main /\ \E n \in 0..N : Returned[n] = c
      <3>1. PICK i \in 1..L : chain[i] = c
        BY <2>3, Zenon DEF Range
      <3>2. L - i \in 0..N /\ L - i < L /\ L - (L - i) = i
        BY <2>2
      <3>3. Returned[L - i] = c
        BY <2>4, <3>1, <3>2, Zenon
      <3>4. c # Main
        BY <1>0, <2>3, <3>1, Zenon DEF StackRule
      <3>. QED BY <3>2, <3>3, <3>4, Zenon
    <2>6. ASSUME NEW n \in 0..N, Returned[n] # Main PROVE Returned[n] \in Range(chain)
      <3>1. n < L /\ L - n \in 1..L /\ Returned[n] = chain[L - n]
        BY <2>2, <2>4, <2>6
      <3>. QED BY <2>3, <3>1, Zenon DEF Range
    <2>7. Range(chain) = {Returned[n] : n \in 0..N} \ {Main}
      BY <2>5, <2>6, Zenon
    <2>. QED BY <2>3, <2>4, <2>7, Zenon DEF ResumersReturned
  <1>2. Init => AsymInv
    BY <1>0, AsymInit, Zenon
  <1>3. AsymInv /\ [Next]_vars => AsymInv'
    BY <1>0, AsymStep, Zenon
  <1>. QED BY <1>1, <1>2, <1>3, PTL DEF Spec

-----------------------------------------------------------------------------
(* Signals.                                                                *)

\* The rule for signals: one coroutine at a time uses dyco_signal_init.
SignalRule ==
  /\ Exclusive
  /\ SIGCHLD \in Sig /\ UserSig \subseteq Sig /\ InitialMask \subseteq Sig
  /\ Sched \notin Waiter

\* The inductive invariant of Signals: one coroutine at a time has the flag; it
\* does not wait for its child, and it keeps a mask that MaskRestored allows.
SigInv ==
  /\ MasksAgree
  /\ \A c, d \in WAITSIGNAL : c = d
  /\ \A c \in WAITSIGNAL :
       /\ InitialMask \subseteq old_sigmask[c]
       /\ old_sigmask[c] \subseteq InitialMask \cup {SIGCHLD}
       /\ g_pc[c] \in {"ready", "run", "wait", "waited"}

LEMMA SigInit == ASSUME SignalRule, G!Init PROVE SigInv
  BY Zenon DEF SignalRule, SigInv, MasksAgree, G!MasksAgree, G!Init, G!TypeOK,
         G!SchedulerBlocks, G!MaskRestored

\* What is delivered leaves the types.
LEMMA Delivered ==
  ASSUME NEW p \in SUBSET Sig, NEW masks, G!Deliver(p, masks)
  PROVE  pending' \in SUBSET Sig /\ ended' \in BOOLEAN
  BY Zenon DEF G!Deliver

LEMMA SigTypes ==
  SigInv => /\ mask \in [Waiter \cup {Sched} -> SUBSET Sig]
            /\ g_pc \in [Waiter -> {"new", "ready", "run", "wait", "waited", "checked",
                                    "child", "childed", "done"}]
            /\ g_timed \in SUBSET Waiter /\ WAITSIGNAL \in SUBSET Waiter
            /\ sigset \in [Waiter -> SUBSET Sig] /\ old_sigmask \in [Waiter -> SUBSET Sig]
            /\ pending \in SUBSET Sig /\ child \in [Waiter -> {"none", "alive", "zombie"}]
            /\ {c \in Waiter : g_pc[c] \in {"run", "checked"}} = {g_curr} \ {Sched}
  BY Zenon DEF SigInv, MasksAgree, G!MasksAgree, G!TypeOK

\* The kernel, and the steps that leave every mask.
LEMMA KernelKeeps ==
  ASSUME SignalRule, SigInv,
         \/ \E s \in Sig : G!Send(s)
         \/ \E c \in Waiter : G!ChildExit(c) \/ G!Fork(c) \/ G!SignalWaitNow(c)
  PROVE  SigInv'
  <1>1. /\ UNCHANGED <<mask, g_curr, g_pc, g_timed, WAITSIGNAL, sigset, old_sigmask>>
        /\ child' \in [Waiter -> {"none", "alive", "zombie"}]
    BY SigTypes, Zenon DEF G!Send, G!ChildExit, G!Fork, G!SignalWaitNow, G!signals
  <1>2. pending' \in SUBSET Sig /\ ended' \in BOOLEAN
    <2>1. ASSUME NEW s \in Sig, G!Send(s) PROVE pending' \in SUBSET Sig /\ ended' \in BOOLEAN
      BY <2>1, SigTypes, Delivered, Zenon DEF G!Send
    <2>2. ASSUME NEW c \in Waiter, G!ChildExit(c)
          PROVE  pending' \in SUBSET Sig /\ ended' \in BOOLEAN
      BY <2>2, SigTypes, Delivered, Zenon DEF G!ChildExit, SignalRule
    <2>3. ASSUME NEW c \in Waiter, G!Fork(c)
          PROVE  pending' \in SUBSET Sig /\ ended' \in BOOLEAN
      BY <2>3, Zenon DEF G!Fork, G!signals, SigInv, MasksAgree, G!MasksAgree, G!TypeOK
    <2>4. ASSUME NEW c \in Waiter, G!SignalWaitNow(c)
          PROVE  pending' \in SUBSET Sig /\ ended' \in BOOLEAN
      BY <2>4, SigTypes, Delivered, Zenon DEF G!SignalWaitNow, G!ReadSignal
    <2>. QED BY <2>1, <2>2, <2>3, <2>4, Zenon
  <1>3. SigInv
    BY Zenon
  <1>. QED BY <1>1, <1>2, <1>3, Zenon DEF SigInv, MasksAgree, G!MasksAgree, G!TypeOK,
                                   G!SchedulerBlocks, G!MaskRestored

\* The steps that move the control and leave every mask.
LEMMA SwitchKeeps ==
  ASSUME SignalRule, SigInv, NEW c \in Waiter,
         \/ G!Wake(c) \/ G!yield(c) \/ G!SignalWaitEnd(c) \/ G!WaitChildEnd(c)
         \/ G!WaitChildCheck(c) \/ \E h \in BOOLEAN : G!SignalWaitBlock(c, h)
  PROVE  SigInv'
  <1>1. /\ UNCHANGED <<mask, WAITSIGNAL, sigset, old_sigmask>>
        /\ g_timed' \in SUBSET Waiter
        /\ child' \in [Waiter -> {"none", "alive", "zombie"}]
    BY SigTypes, Zenon DEF G!Wake, G!yield, G!SignalWaitEnd, G!WaitChildEnd, G!WaitChildCheck,
                    G!SignalWaitBlock, G!signals
  <1>2. pending' \in SUBSET Sig /\ ended' \in BOOLEAN
    <2>1. CASE G!Wake(c) \/ G!WaitChildCheck(c)
      BY <2>1, Zenon DEF G!Wake, G!WaitChildCheck, G!signals, SigInv, MasksAgree, G!MasksAgree, G!TypeOK
    <2>2. CASE G!yield(c) \/ G!WaitChildEnd(c) \/ \E h \in BOOLEAN : G!SignalWaitBlock(c, h)
      BY <2>2, SigTypes, Delivered, Zenon DEF G!yield, G!WaitChildEnd, G!SignalWaitBlock
    <2>3. CASE G!SignalWaitEnd(c)
      BY <2>3, SigTypes, Delivered, Zenon DEF G!SignalWaitEnd, G!ReadSignal
    <2>. QED BY <2>1, <2>2, <2>3, Zenon
  <1>3. /\ g_pc' \in [Waiter -> {"new", "ready", "run", "wait", "waited", "checked",
                                 "child", "childed", "done"}]
        /\ {d \in Waiter : g_pc'[d] \in {"run", "checked"}} = {g_curr'} \ {Sched}
        /\ \A d \in WAITSIGNAL : g_pc[d] \in {"ready", "run", "wait", "waited"} =>
             g_pc'[d] \in {"ready", "run", "wait", "waited"}
    <2>1. CASE G!Wake(c)
      BY <2>1, SigTypes, Zenon DEF G!Wake
    <2>2. CASE G!yield(c) \/ \E h \in BOOLEAN : G!SignalWaitBlock(c, h)
      BY <2>2, SigTypes, ZenonT(60) DEF G!yield, G!SignalWaitBlock, G!Running
    <2>3. CASE G!SignalWaitEnd(c) \/ G!WaitChildEnd(c)
      BY <2>3, SigTypes DEF G!SignalWaitEnd, G!WaitChildEnd, SignalRule
    <2>4. CASE G!WaitChildCheck(c)
      BY <2>4, SigTypes DEF G!WaitChildCheck, G!Running, SignalRule
    <2>. QED BY <2>1, <2>2, <2>3, <2>4, Zenon
  <1>4. SigInv
    BY Zenon
  <1>. QED BY <1>1, <1>2, <1>3, <1>4, Zenon DEF SigInv, MasksAgree, G!MasksAgree, G!TypeOK,
                                         G!SchedulerBlocks, G!MaskRestored

\* The steps that change masks.
LEMMA MaskStepKeeps ==
  ASSUME SignalRule, SigInv, NEW c \in Waiter,
         \/ G!resume(c) \/ G!freecoro(c) \/ G!dyco_signal_destroy(c)
         \/ \E set \in SUBSET UserSig : G!dyco_signal_init(c, set)
         \/ \E h \in BOOLEAN : G!WaitChildBlock(c, h)
  PROVE  SigInv'
  <1>1. pending' \in SUBSET Sig /\ ended' \in BOOLEAN
    BY SigTypes, Delivered, ZenonT(60) DEF G!resume, G!freecoro, G!dyco_signal_destroy, G!dyco_signal_init,
                               G!WaitChildBlock, G!dyco_schedcall_sigprocmask
  <1> USE SigTypes DEF SignalRule, SigInv, MasksAgree, G!MasksAgree, G!TypeOK,
                       G!SchedulerBlocks, G!MaskRestored
  <1>2. CASE G!resume(c)
    BY <1>1, <1>2, SMTT(60) DEF G!resume
  <1>3. CASE G!freecoro(c)
    BY <1>1, <1>3, SMTT(60) DEF G!freecoro, G!Running
  <1>4. CASE G!dyco_signal_destroy(c)
    BY <1>1, <1>4, SMTT(60) DEF G!dyco_signal_destroy, G!Running, G!dyco_schedcall_sigprocmask,
                      G!schedule_callexec
  <1>5. ASSUME NEW set \in SUBSET UserSig, G!dyco_signal_init(c, set) PROVE SigInv'
    BY <1>1, <1>5, SMTT(60) DEF G!dyco_signal_init, G!Running, G!dyco_schedcall_sigprocmask,
                      G!schedule_callexec
  <1>6. ASSUME NEW h \in BOOLEAN, G!WaitChildBlock(c, h) PROVE SigInv'
    BY <1>1, <1>6 DEF G!WaitChildBlock, G!dyco_schedcall_sigprocmask, G!schedule_callexec
  <1>. QED BY <1>2, <1>3, <1>4, <1>5, <1>6, Zenon

\* While a coroutine uses signals the scheduler blocks them, and afterwards it
\* has its first mask again, in whatever order any number of coroutines start,
\* use, leave and end, as long as one at a time uses dyco_signal_init.
THEOREM MasksAgreeAlways == ASSUME Exclusive PROVE G!Spec => []MasksAgree
  <1>0. SignalRule
    BY SignalsConstants, Zenon DEF SignalRule
  <1>1. G!Init => SigInv
    BY <1>0, SigInit
  <1>2. SigInv /\ [G!Next]_G!vars => SigInv'
    <2> SUFFICES ASSUME SigInv, [G!Next]_G!vars PROVE SigInv'
      BY Zenon
    <2>1. CASE UNCHANGED G!vars
      BY <2>1, Zenon DEF G!vars, G!signals, SigInv, MasksAgree, G!MasksAgree, G!TypeOK,
                  G!SchedulerBlocks, G!MaskRestored
    <2>. QED BY <1>0, <2>1, KernelKeeps, SwitchKeeps, MaskStepKeeps, Zenon DEF G!Next
  <1>3. SigInv => MasksAgree
    BY Zenon DEF SigInv
  <1>. QED BY <1>1, <1>2, <1>3, PTL DEF G!Spec

-----------------------------------------------------------------------------
(* Epoll.                                                                  *)

\* The rule for epoll fds and poll, and different names for different things.
EpollRule ==
  /\ Careful /\ QuietPoll
  /\ Shared \notin Waiter \X {"own", "poll"} /\ None \notin E!Epfd

\* The inductive invariant of Epoll: each coroutine is on an epoll fd of its own
\* or, one at a time, on the shared one, and poll ends with an event only.
EpollInv ==
  /\ WaitsAgree
  /\ \A e \in DOMAIN fd_co_map : fd_co_map[e] \in Waiter
  /\ \A c \in Waiter : on[c] \in {E!Own(c), E!Poll(c), Shared, None}
  /\ \A c, d \in Waiter : on[c] = Shared /\ on[d] = Shared => c = d
  /\ \A c \in woken : on[c] = E!Poll(c) => E!Readable(E!Poll(c))
  /\ \A c \in timed : on[c] # E!Poll(c)

LEMMA EpollInit == ASSUME EpollRule, E!Init PROVE EpollInv
  <1>1. DOMAIN fd_co_map = {} /\ Shared # None /\ woken = {} /\ timed = {}
    BY DEF E!Init, EpollRule, E!Epfd
  <1>2. interest \in [E!Epfd -> SUBSET Fd]
    BY Zenon DEF E!Init
  <1>3. \A c \in Waiter : on[c] = None
    BY Zenon DEF E!Init
  <1>4. E!TypeOK
    BY <1>1, <1>2, Zenon DEF E!Init, E!TypeOK
  <1>. QED BY <1>1, <1>3, <1>4, Zenon DEF EpollInv, WaitsAgree, E!WaitsAgree, E!Init,
              E!RegistrationsAgree, E!NeverExits, E!LoopNeverBlocks

\* The epoll fds of the coroutines are different.
LEMMA EpollNames ==
  ASSUME EpollRule
  PROVE  \A c, d \in Waiter :
           /\ E!Own(c) \in E!Epfd /\ E!Poll(c) \in E!Epfd /\ Shared \in E!Epfd
           /\ E!Own(c) # E!Poll(d) /\ E!Own(c) # Shared /\ E!Poll(c) # Shared
           /\ E!Own(c) # None /\ E!Poll(c) # None /\ Shared # None
           /\ E!Own(c) = E!Own(d) => c = d
           /\ E!Poll(c) = E!Poll(d) => c = d
  BY DEF EpollRule, E!Epfd, E!Own, E!Poll

\* What the steps need of the invariant.
LEMMA EpollTypes ==
  EpollInv => /\ ready \in SUBSET Fd /\ IOMULTIPLEXING \in SUBSET Waiter
              /\ interest \in [E!Epfd -> SUBSET Fd]
              /\ DOMAIN fd_co_map \in SUBSET E!Epfd
              /\ on \in [Waiter -> E!Epfd \cup {None}]
              /\ live \in SUBSET Waiter /\ woken \in SUBSET Waiter /\ timed \in SUBSET Waiter
              /\ \A c \in woken \cup timed : on[c] # None
              /\ blocked = FALSE /\ exited = FALSE /\ aborted \in BOOLEAN
  BY Zenon DEF EpollInv, WaitsAgree, E!WaitsAgree, E!TypeOK, E!NeverExits, E!LoopNeverBlocks

\* The kernel and the calls that leave the waits.
LEMMA CallKeeps ==
  ASSUME EpollRule, EpollInv, NEW c, NEW fd,
         \/ fd \in Fd /\ E!Arrive(fd)
         \/ c \in Waiter /\ (E!Exit(c) \/ E!dyco_epoll_init(c) \/ E!dyco_epoll_destroy(c))
         \/ c \in Waiter /\ fd \in Fd /\
            (E!Consume(c, fd) \/ E!dyco_epoll_add(c, fd) \/ E!dyco_epoll_del(c, fd))
  PROVE  EpollInv'
  <1>0. UNCHANGED <<fd_co_map, on, woken, timed, aborted>>
    BY Zenon DEF E!Arrive, E!Consume, E!Exit, E!dyco_epoll_init, E!dyco_epoll_destroy,
           E!dyco_epoll_add, E!dyco_epoll_del, E!waits
  <1>1. /\ blocked' = FALSE /\ exited' = FALSE
        /\ ready' \in SUBSET Fd /\ IOMULTIPLEXING' \in SUBSET Waiter /\ live' \in SUBSET Waiter
        /\ interest' \in [E!Epfd -> SUBSET Fd]
        /\ \A e \in DOMAIN fd_co_map : fd_co_map[e] \in live => fd_co_map[e] \in live'
    <2>1. CASE E!Exit(c)
      <3>1. {c} \cap IOMULTIPLEXING = {}
        BY <2>1, ZenonT(60) DEF E!Exit, EpollRule
      <3>2. \A e \in DOMAIN fd_co_map : fd_co_map[e] # c
        <4>1. on[c] = None
          BY <2>1, Zenon DEF E!Exit, E!Running
        <4>2. \A e \in DOMAIN fd_co_map : on[fd_co_map[e]] = e
          BY Zenon DEF EpollInv, WaitsAgree, E!WaitsAgree, E!RegistrationsAgree
        <4>3. None \notin DOMAIN fd_co_map
          BY EpollTypes, ZenonT(60) DEF EpollRule
        <4>. QED BY <4>1, <4>2, <4>3, Zenon
      <3>. QED BY <2>1, <3>1, <3>2, EpollTypes, Zenon DEF E!Exit, E!freecoro, E!Must
    <2>2. CASE ~E!Exit(c)
      BY <2>2, EpollTypes, EpollNames, SMTT(60)
         DEF E!Arrive, E!Consume, E!dyco_epoll_init, E!dyco_epoll_destroy, E!dyco_epoll_add,
             E!dyco_epoll_del
    <2>. QED BY <2>1, <2>2, Zenon
  <1>2. \A d \in Waiter : on[d] = E!Poll(d) /\ E!Readable(E!Poll(d)) => E!Readable(E!Poll(d))'
    <2> SUFFICES ASSUME NEW d \in Waiter, on[d] = E!Poll(d), interest[E!Poll(d)] \cap ready # {}
                 PROVE  interest'[E!Poll(d)] \cap ready' # {}
      BY Zenon DEF E!Readable, E!Poll
    <2>1. interest'[E!Poll(d)] = interest[E!Poll(d)]
      BY EpollTypes, EpollNames, Zenon
         DEF E!Arrive, E!Consume, E!Exit, E!dyco_epoll_init, E!dyco_epoll_destroy,
             E!dyco_epoll_add, E!dyco_epoll_del
    <2>2. CASE E!Consume(c, fd)
      BY <2>1, <2>2, Zenon DEF E!Consume, EpollRule
    <2>3. CASE ~E!Consume(c, fd)
      <3>1. ready \subseteq ready'
        BY <2>3, Zenon DEF E!Arrive, E!Exit, E!dyco_epoll_init, E!dyco_epoll_destroy,
                    E!dyco_epoll_add, E!dyco_epoll_del
      <3>. QED BY <2>1, <3>1, Zenon
    <2>. QED BY <2>2, <2>3, Zenon
  <1>3. EpollInv /\ woken \in SUBSET Waiter
    BY EpollTypes, Zenon
  <1>. QED BY <1>0, <1>1, <1>2, <1>3, Zenon
           DEF EpollInv, WaitsAgree, E!WaitsAgree, E!TypeOK, E!RegistrationsAgree,
               E!NeverExits, E!LoopNeverBlocks, E!Poll, E!Own

\* The loop makes a coroutine ready.
LEMMA LoopKeeps ==
  ASSUME EpollRule, EpollInv,
         \/ \E e \in E!Epfd : E!EventWakes(e)
         \/ \E c \in Waiter : E!TimerWakes(c)
  PROVE  EpollInv'
  <1> USE DEF EpollInv, WaitsAgree, E!WaitsAgree, E!TypeOK, E!RegistrationsAgree,
              E!NeverExits, E!LoopNeverBlocks
  <1>1. ASSUME NEW e \in E!Epfd, E!EventWakes(e) PROVE EpollInv'
    <2>1. PICK c : c = fd_co_map[e]
      BY Zenon
    <2>2. /\ c \in Waiter /\ on[c] = e /\ e \in DOMAIN fd_co_map /\ interest[e] \cap ready # {}
          /\ woken' = woken \cup {c}
          /\ UNCHANGED <<ready, IOMULTIPLEXING, interest, on, timed, live, aborted, blocked, exited>>
      BY <1>1, <2>1, Zenon DEF E!EventWakes, E!Readable
    <2>3. /\ DOMAIN fd_co_map' = DOMAIN fd_co_map \ {e}
          /\ \A x \in DOMAIN fd_co_map' : fd_co_map'[x] = fd_co_map[x]
      BY <1>1, Zenon DEF E!EventWakes, E!Restrict
    <2>4. e # None
      BY ZenonT(60) DEF EpollRule
    <2>5. E!TypeOK' /\ E!RegistrationsAgree'
      BY <2>1, <2>2, <2>3, <2>4, SMTT(60)
    <2>6. \A d \in woken' : on'[d] = E!Poll(d) => interest'[E!Poll(d)] \cap ready' # {}
      BY <2>2, ZenonT(60) DEF E!Readable
    <2>. QED BY <2>2, <2>3, <2>5, <2>6, SMTT(60) DEF E!Readable, E!Poll, E!Own
  <1>2. ASSUME NEW c \in Waiter, E!TimerWakes(c) PROVE EpollInv'
    BY <1>2 DEF E!TimerWakes, E!Readable, E!Poll, E!Own
  <1>. QED BY <1>1, <1>2, ZenonT(60)

\* A coroutine registers an epoll fd and is suspended.
LEMMA SuspendKeeps ==
  ASSUME EpollRule, EpollInv, NEW c \in Waiter, NEW h \in BOOLEAN,
         \/ E!dyco_epoll_wait(c, h) \/ E!epoll_wait(c, h)
         \/ \E fds \in SUBSET Fd : E!PollBlock(c, fds, h)
  PROVE  EpollInv'
  <1>1. PICK e \in {E!Own(c), E!Poll(c), Shared} :
          /\ E!Suspend(c, e, h) /\ on[c] = None /\ c \in live
          /\ e = E!Poll(c) => ~h
          /\ e = Shared => \A d \in Waiter : on[d] # Shared
          /\ UNCHANGED <<ready, IOMULTIPLEXING, live, aborted, blocked>>
          /\ interest' \in [E!Epfd -> SUBSET Fd]
          /\ \A d \in Waiter : d # c => interest'[E!Poll(d)] = interest[E!Poll(d)]
    <2>1. CASE E!dyco_epoll_wait(c, h)
      BY <2>1, EpollTypes, EpollNames, Zenon DEF E!dyco_epoll_wait, E!Running
    <2>2. CASE E!epoll_wait(c, h)
      BY <2>2, EpollTypes, EpollNames, Zenon DEF E!epoll_wait, E!Running, EpollRule
    <2>3. ASSUME NEW fds \in SUBSET Fd, E!PollBlock(c, fds, h)
          PROVE  /\ E!Suspend(c, E!Poll(c), h) /\ on[c] = None /\ c \in live /\ ~h
                 /\ UNCHANGED <<ready, IOMULTIPLEXING, live, aborted, blocked>>
                 /\ interest' \in [E!Epfd -> SUBSET Fd]
                 /\ \A d \in Waiter : d # c => interest'[E!Poll(d)] = interest[E!Poll(d)]
      BY <2>3, EpollTypes, EpollNames, ZenonT(60) DEF E!PollBlock, E!Running, EpollRule
    <2>. QED BY <2>1, <2>2, <2>3, EpollNames, Zenon
  <1>2. /\ e \in E!Epfd /\ e # None
        /\ \A d \in Waiter : on[d] # e
    BY <1>1, EpollNames DEF EpollInv
  <1>3. /\ e \notin DOMAIN fd_co_map /\ exited' = FALSE
        /\ fd_co_map' = [x \in DOMAIN fd_co_map \cup {e} |-> IF x = e THEN c ELSE fd_co_map[x]]
        /\ on' = [on EXCEPT ![c] = e] /\ woken' = woken /\ c \notin woken
        /\ timed' = IF h THEN timed \cup {c} ELSE timed
    BY <1>1, <1>2, EpollTypes, Zenon
       DEF E!Suspend, E!Must, EpollInv, WaitsAgree, E!WaitsAgree, E!RegistrationsAgree
  <1>4. /\ on' \in [Waiter -> E!Epfd \cup {None}] /\ on'[c] = e
        /\ \A d \in Waiter : d # c => on'[d] = on[d]
    BY <1>2, <1>3, EpollTypes, Zenon
  <1>5. /\ DOMAIN fd_co_map' = DOMAIN fd_co_map \cup {e} /\ fd_co_map'[e] = c
        /\ \A x \in DOMAIN fd_co_map : fd_co_map'[x] = fd_co_map[x] /\ x # e
    BY <1>3, Zenon
  <1>6. /\ \A x \in DOMAIN fd_co_map : fd_co_map[x] \in Waiter /\ on[fd_co_map[x]] = x
        /\ \A d \in Waiter : on[d] # None /\ d \notin woken =>
             on[d] \in DOMAIN fd_co_map /\ fd_co_map[on[d]] = d
        /\ \A d \in Waiter : on[d] \in {E!Own(d), E!Poll(d), Shared, None}
        /\ \A d \in woken : on[d] = E!Poll(d) => interest[E!Poll(d)] \cap ready # {}
        /\ \A a, b \in Waiter : on[a] = Shared /\ on[b] = Shared => a = b
        /\ \A d \in timed : on[d] # E!Poll(d)
        /\ \A x \in DOMAIN fd_co_map : aborted \/ fd_co_map[x] \in live
    BY Zenon DEF EpollInv, WaitsAgree, E!WaitsAgree, E!RegistrationsAgree, E!Readable
  <1>7. E!TypeOK'
    BY <1>1, <1>2, <1>3, <1>4, <1>5, EpollTypes, ZenonT(60) DEF E!TypeOK
  <1>8. E!RegistrationsAgree'
    <2>1. ASSUME NEW d \in Waiter, on'[d] # None, d \notin woken'
          PROVE  on'[d] \in DOMAIN fd_co_map' /\ fd_co_map'[on'[d]] = d
      <3>1. CASE d = c
        BY <1>4, <1>5, <3>1, Zenon
      <3>2. CASE d # c
        BY <1>3, <1>4, <1>5, <1>6, <2>1, <3>2, Zenon
      <3>. QED BY <3>1, <3>2, Zenon
    <2>2. ASSUME NEW x \in DOMAIN fd_co_map' PROVE on'[fd_co_map'[x]] = x
      <3>1. CASE x = e
        BY <1>4, <1>5, <3>1, Zenon
      <3>2. CASE x \in DOMAIN fd_co_map
        <4>1. fd_co_map[x] # c
          BY <1>1, <1>2, <1>6, <3>2, EpollTypes, EpollNames, SMTT(60) DEF EpollRule
        <4>2. fd_co_map'[x] = fd_co_map[x] /\ fd_co_map[x] \in Waiter /\ on[fd_co_map[x]] = x
          BY <1>5, <1>6, <3>2, Zenon
        <4>. QED BY <1>4, <4>1, <4>2, Zenon
      <3>. QED BY <1>5, <3>1, <3>2, Zenon
    <2>3. \A x \in DOMAIN fd_co_map' : aborted' \/ fd_co_map'[x] \in live'
      BY <1>1, <1>5, <1>6, Zenon
    <2>. QED BY <2>1, <2>2, <2>3, Zenon DEF E!RegistrationsAgree
  <1>9. WaitsAgree'
    BY <1>1, <1>3, <1>7, <1>8, EpollTypes, Zenon
       DEF WaitsAgree, E!WaitsAgree, E!NeverExits, E!LoopNeverBlocks
  <1>10. \A d \in woken' : on'[d] = E!Poll(d) => interest'[E!Poll(d)] \cap ready' # {}
    <2>1. \A d \in woken' : d \in woken /\ d \in Waiter /\ d # c /\ on'[d] = on[d]
      BY <1>3, <1>4, EpollTypes, ZenonT(60)
    <2>. QED BY <1>1, <1>3, <1>6, <2>1, Zenon
  <1>11. \A d \in timed' : on'[d] # E!Poll(d)
    BY <1>1, <1>3, <1>4, <1>6, EpollTypes
  <1>12. \A d \in Waiter : on'[d] \in {E!Own(d), E!Poll(d), Shared, None}
    BY <1>1, <1>4, <1>6, ZenonT(60)
  <1>13. \A a, b \in Waiter : on'[a] = Shared /\ on'[b] = Shared => a = b
    BY <1>1, <1>4, <1>6, SMTT(60)
  <1>14. \A x \in DOMAIN fd_co_map' : fd_co_map'[x] \in Waiter
    BY <1>5, <1>6, Zenon
  <1>. QED BY <1>9, <1>10, <1>11, <1>12, <1>13, <1>14, Zenon DEF EpollInv, E!Readable, E!Own, E!Poll

\* A coroutine goes on after its wait; after poll, an fd is ready.
LEMMA ResumedKeeps ==
  ASSUME EpollRule, EpollInv, NEW c \in Waiter, E!WaitEnd(c) \/ E!PollEnd(c)
  PROVE  EpollInv'
  <1>1. /\ E!Resume(c) /\ c \in woken /\ exited' = FALSE
        /\ UNCHANGED <<ready, IOMULTIPLEXING, live, aborted>>
        /\ interest' \in [E!Epfd -> SUBSET Fd]
        /\ \A d \in Waiter : d # c => interest'[E!Poll(d)] = interest[E!Poll(d)]
    BY EpollTypes, EpollNames, Zenon DEF E!WaitEnd, E!PollEnd, E!Resume
  <1>2. blocked' = FALSE
    <2>1. CASE E!WaitEnd(c)
      BY <2>1, EpollTypes, Zenon DEF E!WaitEnd
    <2>2. CASE E!PollEnd(c)
      BY <1>1, <2>2, Zenon DEF E!PollEnd, EpollInv
    <2>. QED BY <2>1, <2>2, Zenon
  <1>3. /\ DOMAIN fd_co_map' = {e \in DOMAIN fd_co_map : fd_co_map[e] # c}
        /\ \A e \in DOMAIN fd_co_map' : fd_co_map'[e] = fd_co_map[e]
        /\ on' \in [Waiter -> E!Epfd \cup {None}] /\ on'[c] = None
        /\ \A d \in Waiter : d # c => on'[d] = on[d]
        /\ woken' = woken \ {c} /\ timed' = timed \ {c}
    BY <1>1, EpollTypes, Zenon DEF E!Resume, E!Restrict
  <1>4. /\ \A d \in Waiter : on[d] # None /\ d \notin woken =>
             on[d] \in DOMAIN fd_co_map /\ fd_co_map[on[d]] = d
        /\ \A e \in DOMAIN fd_co_map : on[fd_co_map[e]] = e /\ fd_co_map[e] \in Waiter
        /\ \A d \in Waiter : on[d] \in {E!Own(d), E!Poll(d), Shared, None}
        /\ \A a, b \in Waiter : on[a] = Shared /\ on[b] = Shared => a = b
        /\ \A d \in woken : on[d] = E!Poll(d) => interest[E!Poll(d)] \cap ready # {}
        /\ \A d \in timed : on[d] # E!Poll(d)
        /\ \A e \in DOMAIN fd_co_map : aborted \/ fd_co_map[e] \in live
    BY Zenon DEF EpollInv, WaitsAgree, E!WaitsAgree, E!RegistrationsAgree, E!Readable
  <1>5. E!TypeOK'
    BY <1>1, <1>2, <1>3, EpollTypes, Zenon DEF E!TypeOK
  <1>6. E!RegistrationsAgree'
    <2>1. ASSUME NEW d \in Waiter, on'[d] # None, d \notin woken'
          PROVE  on'[d] \in DOMAIN fd_co_map' /\ fd_co_map'[on'[d]] = d
      <3>1. d # c /\ on'[d] = on[d] /\ d \notin woken
        BY <1>3, <2>1, Zenon
      <3>2. on[d] \in DOMAIN fd_co_map /\ fd_co_map[on[d]] = d
        BY <1>4, <2>1, <3>1, Zenon
      <3>3. on[d] \in DOMAIN fd_co_map'
        BY <1>3, <3>1, <3>2, Zenon
      <3>. QED BY <1>3, <3>1, <3>2, <3>3, Zenon
    <2>2. ASSUME NEW e \in DOMAIN fd_co_map' PROVE on'[fd_co_map'[e]] = e
      <3>1. e \in DOMAIN fd_co_map /\ fd_co_map[e] # c /\ fd_co_map'[e] = fd_co_map[e]
        BY <1>3, Zenon
      <3>2. fd_co_map[e] \in Waiter /\ on[fd_co_map[e]] = e
        BY <1>4, <3>1, Zenon
      <3>. QED BY <1>3, <3>1, <3>2, Zenon
    <2>3. \A e \in DOMAIN fd_co_map' : aborted' \/ fd_co_map'[e] \in live'
      BY <1>1, <1>3, <1>4, Zenon
    <2>. QED BY <2>1, <2>2, <2>3, Zenon DEF E!RegistrationsAgree
  <1>7. WaitsAgree'
    BY <1>1, <1>2, <1>5, <1>6, Zenon DEF WaitsAgree, E!WaitsAgree, E!NeverExits, E!LoopNeverBlocks
  <1>8. \A e \in DOMAIN fd_co_map' : fd_co_map'[e] \in Waiter
    BY <1>3, <1>4, Zenon
  <1>9. \A d \in Waiter : on'[d] \in {E!Own(d), E!Poll(d), Shared, None}
    BY <1>3, <1>4, Zenon
  <1>10. \A a, b \in Waiter : on'[a] = Shared /\ on'[b] = Shared => a = b
    <2>1. Shared # None
      BY EpollNames, Zenon
    <2>. QED BY <1>3, <1>4, <2>1, ZenonT(60)
  <1>11. \A d \in timed' : on'[d] # E!Poll(d)
    <2>1. \A d \in timed' : d \in timed /\ d \in Waiter /\ on'[d] = on[d]
      BY <1>3, EpollTypes, Zenon
    <2>. QED BY <1>4, <2>1, Zenon
  <1>12. \A d \in woken' : on'[d] = E!Poll(d) => interest'[E!Poll(d)] \cap ready' # {}
    <2>1. \A d \in woken' : d \in woken /\ d \in Waiter /\ d # c /\ on'[d] = on[d]
      BY <1>3, EpollTypes, Zenon
    <2>. QED BY <1>1, <1>4, <2>1, Zenon
  <1>. QED BY <1>7, <1>8, <1>9, <1>10, <1>11, <1>12, Zenon DEF EpollInv, E!Readable, E!Own, E!Poll

\* schedule_abort frees all the coroutines and leaves their registrations.
LEMMA AbortKeeps == ASSUME EpollRule, EpollInv, NEW c \in Waiter, E!Abort(c) PROVE EpollInv'
  <1>1. /\ exited' = FALSE /\ blocked' = FALSE /\ aborted' = TRUE /\ live' \in SUBSET Waiter
        /\ UNCHANGED <<ready, IOMULTIPLEXING, interest, fd_co_map, on, woken, timed>>
    BY EpollTypes, Zenon DEF E!Abort, E!freecoro, E!Must, EpollRule, E!waits
  <1>2. EpollInv
    BY Zenon
  <1>. QED BY <1>1, <1>2, Zenon
           DEF EpollInv, WaitsAgree, E!WaitsAgree, E!TypeOK, E!RegistrationsAgree,
               E!NeverExits, E!LoopNeverBlocks, E!Readable, E!Own, E!Poll

\* For every number of coroutines and fds: the registrations with the scheduler
\* are those of the suspended coroutines, until an abort frees these, so that no epoll_ctl of dyco_epoll.c
\* fails, and poll, called again after the wait, finds an event.
THEOREM WaitsAgreeAlways == ASSUME Careful, QuietPoll PROVE E!Spec => []WaitsAgree
  <1>0. EpollRule
    BY EpollConstants, Zenon DEF EpollRule
  <1>1. E!Init => EpollInv
    BY <1>0, EpollInit, Zenon
  <1>2. EpollInv /\ [E!Next]_E!vars => EpollInv'
    <2> SUFFICES ASSUME EpollInv, [E!Next]_E!vars PROVE EpollInv'
      BY Zenon
    <2>1. CASE UNCHANGED E!vars
      BY <2>1, Zenon DEF E!vars, E!waits, EpollInv, WaitsAgree, E!WaitsAgree, E!TypeOK,
                  E!RegistrationsAgree, E!NeverExits, E!LoopNeverBlocks, E!Readable, E!Own, E!Poll
    <2>. QED BY <1>0, <2>1, CallKeeps, LoopKeeps, SuspendKeeps, ResumedKeeps, AbortKeeps, Zenon DEF E!Next
  <1>3. EpollInv => WaitsAgree
    BY Zenon DEF EpollInv
  <1>. QED BY <1>1, <1>2, <1>3, PTL DEF E!Spec

=============================================================================
