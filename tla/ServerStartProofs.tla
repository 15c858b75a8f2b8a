--------------------------- MODULE ServerStartProofs ---------------------------
(***************************************************************************)
(* Proofs about the start of a server.                                     *)
(*                                                                         *)
(* The definitions it reads, performs, registers and serves, and those its *)
(* trigger steps perform later (Definitions), for any definitions,         *)
(* sources, environments, triggers and requests, and for any redress that  *)
(* is right about these definitions.  The inductive invariant says of each *)
(* pipeline to serve which definition it is of, the sources' before the    *)
(* snippets', and of each startup pipeline whether it was performed.       *)
(*                                                                         *)
(* The database scripts it deploys (ScriptDeployment), for any number of   *)
(* deployers, files, contents and releases.  The inductive invariant adds  *)
(* to the types, to OneDeployer and to LogTellsWhatRan where a deployer is: *)
(* at a file its release lists, with the files before it in the log as     *)
(* listed (Behind), and at a file that is in the log, or is not, as its    *)
(* program counter says (Here).                                            *)
(***************************************************************************)
EXTENDS ScriptDeployment, ServedDefinitions, FiniteSetTheorems, WellFoundedInduction, TLAPS

CONSTANT Requests                                                         (* Definitions *)
VARIABLES read, stepMap, pipelineMap, stepBuilders, initPipelines, serverPipelines, cache

Defs == INSTANCE Definitions
-----------------------------------------------------------------------------
(* What filter makes of a sequence. *)

(* Some number is the least. *)
LEMMA Least ==
  ASSUME NEW S \in SUBSET Nat, S # {}
  PROVE  \E n \in S : \A m \in S : n <= m
<1> DEFINE Less == {ss \in Nat \X Nat : ss[1] < ss[2]}
<1>1. IsWellFoundedOn(Less, Nat)
  BY NatLessThanWellFounded DEF OpToRel
<1> HIDE DEF Less
<1>2. PICK n \in S : \A m \in S : <<m, n>> \notin Less
  BY <1>1, WFMin
<1>3. ASSUME NEW m \in S
      PROVE  n <= m
  <2>1. <<m, n>> \in Less <=> m < n
    BY DEF Less
  <2> QED
    BY <1>2, <2>1
<1> QED
  BY <1>3

(* The loop of filter: an element more is kept, or left out. *)
LEMMA Loop ==
  ASSUME NEW S, NEW s \in Seq(S), NEW V
  PROVE  FilteredUpTo(s, V)
           = [n \in 0..Len(s) |->
                IF n = 0 THEN <<>>
                ELSE IF n \in V THEN Append(FilteredUpTo(s, V)[n - 1], s[n])
                     ELSE FilteredUpTo(s, V)[n - 1]]
<1> DEFINE Body(f, n) == IF n = 0 THEN <<>>
                         ELSE IF n \in V THEN Append(f[n - 1], s[n]) ELSE f[n - 1]
           Solves(f, l) == f = [n \in 0..l |-> Body(f, n)]
           Unsolved == {l \in Nat : ~\E f : Solves(f, l)}
<1>1. Unsolved = {}
  <2> SUFFICES ASSUME Unsolved # {}
               PROVE  FALSE
    OBVIOUS
  <2>1. PICK l \in Unsolved : \A k \in Unsolved : l <= k
    BY Least
  <2>2. CASE l = 0
    <3>1. Solves([n \in 0..0 |-> <<>>], 0)
      OBVIOUS
    <3> QED
      BY <2>1, <2>2, <3>1
  <2>3. CASE l # 0
    <3>1. PICK g : Solves(g, l - 1)
      <4> HIDE DEF Solves
      <4>1. l \in Nat /\ l - 1 \in Nat /\ ~(l <= l - 1)
        BY <2>1, <2>3
      <4>2. l - 1 \notin Unsolved
        BY <2>1, <4>1
      <4> QED
        BY <4>1, <4>2
    <3> DEFINE f == [n \in 0..l |-> IF n = l THEN Body(g, l) ELSE g[n]]
    <3>2. \A n \in 0..l : f[n] = Body(f, n)
      <4> TAKE n \in 0..l
      <4>1. CASE n = l
        <5>1. l \in Nat /\ l - 1 \in 0..l /\ l - 1 # l /\ f[l] = Body(g, l)
          BY <2>1, <2>3
        <5>2. f[l - 1] = g[l - 1]
          BY <5>1
        <5> QED
          BY <4>1, <5>1, <5>2, <2>3
      <4>2. CASE n # l
        <5>1. n \in 0..(l - 1) /\ g[n] = Body(g, n)
          <6> HIDE DEF Body
          <6>1. n \in 0..(l - 1)
            BY <4>2, <2>1
          <6>2. g[n] = Body(g, n)
            BY <3>1, <6>1
          <6> QED
            BY <6>1, <6>2
        <5>2. f[n] = g[n] /\ (n # 0 => f[n - 1] = g[n - 1])
          BY <4>2, <5>1
        <5> QED
          BY <5>1, <5>2
      <4> QED
        BY <4>1, <4>2
    <3>3. Solves(f, l)
      BY <3>2
    <3> QED
      BY <2>1, <3>3
  <2> QED
    BY <2>2, <2>3
<1>2. \E f : Solves(f, Len(s))
  BY <1>1
<1>3. FilteredUpTo(s, V) = CHOOSE f : Solves(f, Len(s))
  BY DEF FilteredUpTo
<1> HIDE DEF Solves
<1>4. Solves(FilteredUpTo(s, V), Len(s))
  BY <1>2, <1>3, Zenon
<1> QED
  BY <1>4 DEF Solves

(* One element more, at a place to keep or at another. *)
LEMMA LoopStep ==
  ASSUME NEW S, NEW s \in Seq(S), NEW V
  PROVE  /\ FilteredUpTo(s, V)[0] = <<>>
         /\ \A n \in 1..Len(s) :
              /\ n \in V => FilteredUpTo(s, V)[n] = Append(FilteredUpTo(s, V)[n - 1], s[n])
              /\ n \notin V => FilteredUpTo(s, V)[n] = FilteredUpTo(s, V)[n - 1]
<1> DEFINE kept == FilteredUpTo(s, V)
<1>1. Len(s) \in Nat
  OBVIOUS
<1>2. kept = [n \in 0..Len(s) |->
                IF n = 0 THEN <<>>
                ELSE IF n \in V THEN Append(kept[n - 1], s[n]) ELSE kept[n - 1]]
  BY Loop
<1> HIDE DEF kept
<1>3. kept[0] = <<>>
  BY <1>1, <1>2
<1>4. ASSUME NEW n \in 1..Len(s)
      PROVE  kept[n] = IF n \in V THEN Append(kept[n - 1], s[n]) ELSE kept[n - 1]
  <2>1. n \in 0..Len(s) /\ n # 0
    BY <1>1
  <2> QED
    BY <1>2, <2>1
<1> QED
  BY <1>3, <1>4 DEF kept

(* filter keeps the elements at its places, and no others. *)
LEMMA Elements ==
  ASSUME NEW S, NEW s \in Seq(S), NEW V, NEW n \in 0..Len(s)
  PROVE  /\ FilteredUpTo(s, V)[n] \in Seq(S)
         /\ \A i \in 1..Len(FilteredUpTo(s, V)[n]) :
              \E k \in V \cap 1..n : FilteredUpTo(s, V)[n][i] = s[k]
         /\ \A k \in V \cap 1..n :
              \E i \in 1..Len(FilteredUpTo(s, V)[n]) : FilteredUpTo(s, V)[n][i] = s[k]
<1> DEFINE kept == FilteredUpTo(s, V)
           Right(l) == /\ kept[l] \in Seq(S)
                       /\ \A i \in 1..Len(kept[l]) : \E k \in V \cap 1..l : kept[l][i] = s[k]
                       /\ \A k \in V \cap 1..l : \E i \in 1..Len(kept[l]) : kept[l][i] = s[k]
           Wrong == {l \in 0..Len(s) : ~Right(l)}
<1>1. Len(s) \in Nat
  OBVIOUS
<1>2. /\ kept[0] = <<>>
      /\ \A l \in 1..Len(s) : /\ l \in V => kept[l] = Append(kept[l - 1], s[l])
                              /\ l \notin V => kept[l] = kept[l - 1]
  BY LoopStep
<1> HIDE DEF kept
<1>3. Wrong = {}
  <2> SUFFICES ASSUME Wrong # {}
               PROVE  FALSE
    OBVIOUS
  <2> HIDE DEF Right
  <2>1. PICK l \in Wrong : \A m \in Wrong : l <= m
    <3>1. Wrong \in SUBSET Nat
      BY <1>1
    <3> QED
      BY <3>1, Least
  <2>2. Right(0)
    BY <1>2 DEF Right
  <2>3. l \in 1..Len(s) /\ l - 1 \in 0..Len(s) /\ ~(l <= l - 1)
    BY <1>1, <2>1, <2>2
  <2>4. Right(l - 1)
    BY <2>1, <2>3
  <2>5. s[l] \in S
    BY <2>3
  <2>6. CASE l \in V
    <3> DEFINE before == kept[l - 1]
    <3>1. kept[l] = Append(before, s[l]) /\ before \in Seq(S)
      BY <1>2, <2>3, <2>4, <2>6 DEF Right
    <3>2. /\ kept[l] \in Seq(S)
          /\ Len(kept[l]) = Len(before) + 1 /\ Len(before) \in Nat
          /\ kept[l][Len(before) + 1] = s[l]
          /\ \A i \in 1..Len(before) : kept[l][i] = before[i]
      <4> HIDE DEF before
      <4> QED
        BY <2>5, <3>1
    <3>3. V \cap 1..l = (V \cap 1..(l - 1)) \union {l}
      BY <1>1, <2>3, <2>6
    <3>4. /\ \A i \in 1..Len(before) : \E k \in V \cap 1..(l - 1) : before[i] = s[k]
          /\ \A k \in V \cap 1..(l - 1) : \E i \in 1..Len(before) : before[i] = s[k]
      BY <2>4 DEF Right
    <3> HIDE DEF before
    <3>5. ASSUME NEW i \in 1..Len(kept[l])
          PROVE  \E k \in V \cap 1..l : kept[l][i] = s[k]
      <4>1. CASE i = Len(before) + 1
        BY <3>2, <3>3, <4>1
      <4>2. CASE i # Len(before) + 1
        <5>1. i \in 1..Len(before)
          BY <3>2, <4>2
        <5> QED
          BY <3>2, <3>3, <3>4, <5>1
      <4> QED
        BY <4>1, <4>2
    <3>6. ASSUME NEW k \in V \cap 1..l
          PROVE  \E i \in 1..Len(kept[l]) : kept[l][i] = s[k]
      <4>1. CASE k = l
        <5>1. Len(before) + 1 \in 1..Len(kept[l])
          BY <3>2
        <5> QED
          BY <3>2, <4>1, <5>1
      <4>2. CASE k # l
        <5>1. PICK i \in 1..Len(before) : before[i] = s[k]
          BY <3>3, <3>4, <4>2
        <5>2. i \in 1..Len(kept[l])
          BY <3>2
        <5> QED
          BY <3>2, <5>1, <5>2
      <4> QED
        BY <4>1, <4>2
    <3>7. Right(l)
      BY <3>2, <3>5, <3>6 DEF Right
    <3> QED
      BY <2>1, <3>7
  <2>7. CASE l \notin V
    <3>1. kept[l] = kept[l - 1] /\ V \cap 1..l = V \cap 1..(l - 1)
      BY <1>1, <1>2, <2>3, <2>7
    <3>2. Right(l)
      BY <2>4, <3>1 DEF Right
    <3> QED
      BY <2>1, <3>2
  <2> QED
    BY <2>6, <2>7
<1>4. Right(n)
  BY <1>3
<1> QED
  BY <1>4 DEF kept

(* What is behind does not matter. *)
LEMMA SameSoFar ==
  ASSUME NEW S, NEW s \in Seq(S), NEW t \in Seq(S), NEW V, NEW W,
         NEW l \in 0..Len(s), l <= Len(t),
         \A n \in 1..l : s[n] = t[n] /\ (n \in V <=> n \in W)
  PROVE  FilteredUpTo(s, V)[l] = FilteredUpTo(t, W)[l]
<1> DEFINE kept == FilteredUpTo(s, V)
           same == FilteredUpTo(t, W)
           Differ == {n \in 0..l : kept[n] # same[n]}
<1>1. Len(s) \in Nat /\ Len(t) \in Nat
  OBVIOUS
<1>2. /\ kept[0] = <<>>
      /\ \A n \in 1..Len(s) : /\ n \in V => kept[n] = Append(kept[n - 1], s[n])
                              /\ n \notin V => kept[n] = kept[n - 1]
  BY LoopStep
<1>3. /\ same[0] = <<>>
      /\ \A n \in 1..Len(t) : /\ n \in W => same[n] = Append(same[n - 1], t[n])
                              /\ n \notin W => same[n] = same[n - 1]
  BY LoopStep
<1> HIDE DEF kept, same
<1>4. Differ = {}
  <2> SUFFICES ASSUME Differ # {}
               PROVE  FALSE
    OBVIOUS
  <2>1. PICK n \in Differ : \A m \in Differ : n <= m
    <3>1. Differ \in SUBSET Nat
      BY <1>1
    <3> QED
      BY <3>1, Least
  <2>2. n \in 1..l /\ n \in 1..Len(s) /\ n \in 1..Len(t) /\ n - 1 \in 0..l /\ ~(n <= n - 1)
    BY <1>1, <1>2, <1>3, <2>1
  <2>3. kept[n - 1] = same[n - 1]
    BY <2>1, <2>2
  <2>4. s[n] = t[n] /\ (n \in V <=> n \in W)
    BY <2>2
  <2>5. kept[n] = same[n]
    BY <1>2, <1>3, <2>2, <2>3, <2>4
  <2> QED
    BY <2>1, <2>5
<1>5. l \in 0..l
  BY <1>1
<1> QED
  BY <1>4, <1>5 DEF kept, same

(* filter of a sequence that got an element more. *)
LEMMA OneMore ==
  ASSUME NEW S, NEW s \in Seq(S), NEW e \in S, NEW V, NEW W,
         \A n \in 1..Len(s) : n \in V <=> n \in W
  PROVE  Filtered(Append(s, e), V)
           = IF Len(s) + 1 \in V THEN Append(Filtered(s, W), e) ELSE Filtered(s, W)
<1> DEFINE t == Append(s, e)
           l == Len(s)
<1>1. /\ t \in Seq(S) /\ l \in Nat /\ Len(t) = l + 1
      /\ t[l + 1] = e
      /\ \A n \in 1..l : t[n] = s[n]
  OBVIOUS
<1> HIDE DEF t
<1>2. l \in 0..Len(s) /\ l <= Len(t) /\ l + 1 \in 1..Len(t) /\ (l + 1) - 1 = l
  BY <1>1
<1>3. \A n \in 1..l : s[n] = t[n] /\ (n \in W <=> n \in V)
  BY <1>1
<1> HIDE DEF l
<1>4. FilteredUpTo(s, W)[l] = FilteredUpTo(t, V)[l]
  BY <1>1, <1>2, <1>3, SameSoFar
<1>5. \A n \in 1..Len(t) :
        /\ n \in V => FilteredUpTo(t, V)[n] = Append(FilteredUpTo(t, V)[n - 1], t[n])
        /\ n \notin V => FilteredUpTo(t, V)[n] = FilteredUpTo(t, V)[n - 1]
  BY <1>1, LoopStep
<1>6. /\ l + 1 \in V => FilteredUpTo(t, V)[l + 1] = Append(FilteredUpTo(t, V)[l], e)
      /\ l + 1 \notin V => FilteredUpTo(t, V)[l + 1] = FilteredUpTo(t, V)[l]
  BY <1>1, <1>2, <1>5
<1> QED
  BY <1>1, <1>4, <1>6 DEF Filtered, t, l

(* filter of a whole sequence. *)
LEMMA FilteredElements ==
  ASSUME NEW S, NEW s \in Seq(S), NEW V
  PROVE  /\ Filtered(s, V) \in Seq(S)
         /\ \A i \in 1..Len(Filtered(s, V)) : \E k \in V \cap 1..Len(s) : Filtered(s, V)[i] = s[k]
         /\ \A k \in V \cap 1..Len(s) :
              \E i \in 1..Len(Filtered(s, V)) : Filtered(s, V)[i] = s[k]
<1>1. Len(s) \in 0..Len(s)
  OBVIOUS
<1> QED
  BY <1>1, Elements DEF Filtered
-----------------------------------------------------------------------------
(* The start of the server, and its trigger steps. *)

LoadedDefs == {Defs!Load(key) : key \in DOMAIN Definition}
Codes == {Definition[key].code : key \in DOMAIN Definition}

PlacesRead == {k \in 1..read : IsPipeline(sources[k])}

(* The startup pipelines read so far that are enabled. *)
StartupRead == FilteredUpTo(sources, StartupPlaces)[read]

(* What a startup pipeline registers to be served. *)
Registers(key, text) ==
  /\ text \in ToSet(Definition[key].registers)
  /\ IsPipeline(text) /\ Definition[text].enabled

Configured ==
  /\ env \in Environments
  /\ sources \in SourceLists
  /\ read \in 0..Len(sources)
  /\ phase \in {"reading", "initializing", "launched", "failed"}
  /\ initPipelines \in Seq(LoadedDefs)
  /\ serverPipelines \in Seq(LoadedDefs)
  /\ initialized \in Seq(Codes)

ReadOnce ==
  /\ pipelineMap = {Definition[sources[k]].code : k \in PlacesRead}
  /\ \A j, k \in PlacesRead : Definition[sources[j]].code = Definition[sources[k]].code => j = k

(* What is still to perform is behind what was performed. *)
Performed ==
  /\ phase = "reading" =>
       /\ initialized = <<>>
       /\ Filtered(initPipelines, Defs!Enabled(initPipelines))
            = [n \in 1..Len(StartupRead) |-> Defs!Load(StartupRead[n])]
  /\ phase \in {"initializing", "launched"} =>
       /\ read = Len(sources)
       /\ Len(initialized) + Len(initPipelines) = Len(Startup)
       /\ initialized = [n \in 1..Len(initialized) |-> Definition[Startup[n]].code]
       /\ \A n \in 1..Len(initPipelines) :
            initPipelines[n] = Defs!Load(Startup[Len(initialized) + n])
  /\ phase = "launched" => initPipelines = <<>>

(* The pipelines to serve: first the sources', then the snippets'. *)
ToServe(m) ==
  /\ m \in 0..Len(serverPipelines)
  /\ \A i \in 1..m : \E k \in PlacesRead :
       ~Definition[sources[k]].initOnly /\ serverPipelines[i] = Defs!Load(sources[k])
  /\ \A k \in PlacesRead : ~Definition[sources[k]].initOnly =>
       \E i \in 1..m : serverPipelines[i] = Defs!Load(sources[k])
  /\ \A i \in (m + 1)..Len(serverPipelines) :
       \E n \in 1..Len(initialized) : \E text \in DOMAIN Definition :
         Registers(Startup[n], text) /\ serverPipelines[i] = Defs!Load(text)
  /\ \A n \in 1..Len(initialized) : \A text \in DOMAIN Definition : Registers(Startup[n], text) =>
       \E i \in (m + 1)..Len(serverPipelines) : serverPipelines[i] = Defs!Load(text)

Served ==
  pipelineBuilders =
    IF phase = "launched"
    THEN Defs!Registered(Defs!EmptyMap, serverPipelines, Defs!Enabled(serverPipelines))
    ELSE Defs!EmptyMap

(* What is performed or kept of a text is what the text says. *)
AsWritten(text, pipeline) ==
  text \in Texts /\ Definition[text] # Malformed /\ pipeline = Defs!Wrapped(Defs!Load(text))

Kept ==
  /\ DOMAIN trigger = Triggers
  /\ \A key \in DOMAIN cache : AsWritten(cache[key].md5, cache[key].def)
  /\ \A t \in Triggers :
       LET request == trigger[t].request
       IN /\ trigger[t].at = "reading" => request.content \in Texts
          /\ trigger[t].at = "performed" /\ request.code = Blank /\ request.content \in Texts =>
               AsWritten(request.content, trigger[t].pipeline)

StartInv ==
  /\ Configured /\ Served
  /\ phase # "failed" => /\ ReadOnce /\ Performed
                         /\ \E m \in 0..Len(serverPipelines) : ToServe(m)

DefinitionsInv == StartInv /\ Kept

(* load: what it keeps of a definition, and what it makes of the given. *)
LEMMA Loads ==
  ASSUME DefinitionsAssumption, NEW key \in DOMAIN Definition
  PROVE  /\ Definition[key] = Malformed => Defs!Load(key) = Malformed
         /\ Definition[key] # Malformed =>
              /\ Defs!Load(key) # Malformed
              /\ Defs!Load(key).type = Definition[key].type
              /\ Defs!Load(key).code = Definition[key].code
              /\ Defs!Load(key).enabled = Definition[key].enabled
              /\ Defs!Load(key).initOnly = Definition[key].initOnly
              /\ Defs!Load(key).registers = Definition[key].registers
              /\ Defs!Load(key).given = RedressedIn(env, Definition[key].given)
              /\ {"type", "code", "given"} \subseteq DOMAIN Defs!Load(key)
<1> DEFINE def == Definition[key]
<1>1. CASE def = Malformed
  BY <1>1 DEF Defs!Load
<1>2. CASE def # Malformed
  <2>1. /\ {"type", "code", "enabled", "initOnly", "given", "fails", "registers"} \subseteq DOMAIN def
        /\ "code" \notin DOMAIN Malformed
    BY <1>2 DEF DefinitionsAssumption
  <2>2. Defs!Load(key) = [def EXCEPT !.given = RedressedIn(env, def.given)]
    BY <1>2 DEF Defs!Load
  <2> HIDE DEF def
  <2>3. DOMAIN Defs!Load(key) = DOMAIN def
    BY <2>2
  <2> QED
    BY <2>1, <2>2, <2>3 DEF def
<1> QED
  BY <1>1, <1>2

(* A loaded step is a step, a loaded pipeline is a pipeline. *)
LEMMA LoadsPipelines ==
  ASSUME DefinitionsAssumption, NEW key \in DOMAIN Definition
  PROVE  IsPipeline(key) <=> Defs!Load(key) # Malformed /\ ~IsStep(Defs!Load(key))
BY Loads DEF IsPipeline, IsStep

(* The largest of some numbers up to a bound. *)
LEMMA Largest ==
  ASSUME NEW n \in Nat, NEW S \in SUBSET (1..n), S # {}
  PROVE  \E k \in S : \A j \in S : j <= k
<1> DEFINE T == {n - k : k \in S}
<1>1. T \in SUBSET Nat /\ T # {}
  <2>1. \A k \in S : n - k \in Nat
    OBVIOUS
  <2> QED
    BY <2>1
<1>2. PICK m \in T : \A l \in T : m <= l
  BY <1>1, Least
<1>3. PICK k \in S : m = n - k
  OBVIOUS
<1>4. ASSUME NEW j \in S
      PROVE  j <= k
  <2>1. n - k <= n - j
    BY <1>2, <1>3
  <2> QED
    BY <2>1
<1> QED
  BY <1>4

(* The last definition of a code is what is found under it. *)
LEMMA LastStays ==
  ASSUME NEW builder, NEW defs, NEW places, NEW map,
         map = Defs!Registered(builder, defs, places), NEW c,
         \E k \in places : defs[k].code = c /\ \A j \in places : defs[j].code = c => j <= k
  PROVE  \E k \in places :
           /\ defs[k].code = c
           /\ \A j \in places : defs[j].code = c => j <= k
           /\ map[c] = defs[k]
<1> DEFINE IsLast(k) == defs[k].code = c /\ \A j \in places : defs[j].code = c => j <= k
           last == CHOOSE k \in places : IsLast(k)
<1>1. last \in places /\ IsLast(last)
  <2>1. \E k \in places : IsLast(k)
    OBVIOUS
  <2> HIDE DEF IsLast
  <2> QED
    BY <2>1, Zenon
<1>2. map[c] = defs[last]
  <2>1. c \in {defs[k].code : k \in places}
    OBVIOUS
  <2> QED
    BY <2>1 DEF Defs!Registered
<1> HIDE DEF last
<1> QED
  BY <1>1, <1>2

(* What is registered is found under its code. *)
LEMMA RegisteredCodes ==
  ASSUME NEW builder, NEW defs, NEW places
  PROVE  DOMAIN Defs!Registered(builder, defs, places)
           = DOMAIN builder \union {defs[k].code : k \in places}
BY DEF Defs!Registered

(* The environment does not change what load makes of a text. *)
LEMMA LoadStays ==
  ASSUME env' = env
  PROVE  \A key : Defs!Load(key)' = Defs!Load(key)
BY DEF Defs!Load

(* The start does not move with a trigger. *)
LEMMA StartStays ==
  ASSUME StartInv, UNCHANGED <<env, sources, phase, Defs!start, Defs!builders>>
  PROVE  StartInv'
<1>1. /\ UNCHANGED <<env, sources, phase, read, stepMap, pipelineMap, initPipelines>>
      /\ UNCHANGED <<serverPipelines, initialized, stepBuilders, pipelineBuilders>>
  BY DEF Defs!start, Defs!builders
<1>2. \A key : Defs!Load(key)' = Defs!Load(key)
  BY <1>1, LoadStays
<1>3. /\ LoadedDefs' = LoadedDefs /\ PlacesRead' = PlacesRead /\ StartupPlaces' = StartupPlaces
  BY <1>1, <1>2 DEF LoadedDefs, PlacesRead, StartupPlaces
<1>4. StartupRead' = StartupRead /\ Startup' = Startup
  BY <1>1, <1>3 DEF StartupRead, Startup
<1>5. Configured' /\ Served'
  BY <1>1, <1>3 DEF StartInv, Configured, Served
<1>6. ASSUME phase # "failed"
      PROVE  ReadOnce' /\ Performed' /\ \E m \in 0..Len(serverPipelines) : ToServe(m)'
  <2>1. ReadOnce'
    BY <1>1, <1>3, <1>6 DEF StartInv, ReadOnce
  <2>2. Performed'
    BY <1>1, <1>2, <1>4, <1>6 DEF StartInv, Performed
  <2>3. PICK m \in 0..Len(serverPipelines) : ToServe(m)
    BY <1>6 DEF StartInv
  <2>4. ToServe(m)'
    BY <1>1, <1>2, <1>3, <1>4, <2>3 DEF ToServe
  <2> QED
    BY <2>1, <2>2, <2>4
<1> QED
  BY <1>1, <1>5, <1>6 DEF StartInv

(* What triggers performed and kept stays as it is written. *)
LEMMA KeptStays ==
  ASSUME Kept, UNCHANGED <<env, trigger, cache>>
  PROVE  Kept'
<1>1. \A key : Defs!Load(key)' = Defs!Load(key)
  BY LoadStays
<1>2. \A text, pipeline : AsWritten(text, pipeline)' <=> AsWritten(text, pipeline)
  BY <1>1 DEF AsWritten
<1> QED
  BY <1>2 DEF Kept

(* The server starts with nothing read. *)
LEMMA InitHoldsOfDefinitions ==
  ASSUME DefinitionsAssumption, Defs!Init
  PROVE  DefinitionsInv
<1>1. /\ env \in Environments /\ sources \in SourceLists /\ phase = "reading" /\ read = 0
      /\ pipelineMap = {} /\ initPipelines = <<>> /\ serverPipelines = <<>>
      /\ initialized = <<>> /\ pipelineBuilders = Defs!EmptyMap /\ cache = Defs!EmptyMap
      /\ DOMAIN trigger = Triggers /\ \A t \in Triggers : trigger[t].at = "idle"
  BY DEF Defs!Init
<1>2. sources \in Seq(DOMAIN Definition)
  BY <1>1 DEF DefinitionsAssumption
<1>3. Len(sources) \in Nat /\ PlacesRead = {}
  BY <1>1, <1>2 DEF PlacesRead
<1>4. StartupRead = <<>>
  BY <1>1, <1>2, LoopStep DEF StartupRead
<1>5. Filtered(<<>>, Defs!Enabled(<<>>)) = <<>>
  <2>1. <<>> \in Seq({}) /\ Len(<<>>) = 0
    OBVIOUS
  <2> QED
    BY <2>1, LoopStep DEF Filtered
<1>6. Configured /\ Served
  BY <1>1, <1>3 DEF Configured, Served
<1>7. ReadOnce
  BY <1>1, <1>3 DEF ReadOnce
<1>8. Performed
  <2>1. [n \in 1..Len(StartupRead) |-> Defs!Load(StartupRead[n])] = <<>>
    BY <1>4
  <2> QED
    BY <1>1, <1>5, <2>1 DEF Performed
<1>9. ToServe(0)
  BY <1>1, <1>3 DEF ToServe
<1>10. Kept
  BY <1>1 DEF Kept, Defs!EmptyMap
<1> QED
  BY <1>1, <1>6, <1>7, <1>8, <1>9, <1>10 DEF DefinitionsInv, StartInv

(* A start that fails serves nothing. *)
LEMMA FailKeeps ==
  ASSUME StartInv, phase # "launched", phase' = "failed",
         read' \in 0..Len(sources), UNCHANGED <<env, sources, pipelineBuilders>>,
         UNCHANGED <<initPipelines, serverPipelines, initialized>>
  PROVE  StartInv'
<1>1. LoadedDefs' = LoadedDefs
  BY LoadStays DEF LoadedDefs
<1>2. Configured' /\ Served'
  BY <1>1 DEF StartInv, Configured, Served
<1> QED
  BY <1>2 DEF StartInv

(* What the sources are while they are read. *)
LEMMA SourcesRead ==
  ASSUME DefinitionsAssumption, StartInv
  PROVE  /\ sources \in Seq(DOMAIN Definition) /\ Len(sources) \in Nat
         /\ read \in 0..Len(sources)
         /\ StartupPlaces \subseteq 1..Len(sources)
         /\ PlacesRead \subseteq 1..Len(sources)
         /\ StartupRead \in Seq(DOMAIN Definition)
         /\ Startup \in Seq(DOMAIN Definition)
         /\ \A k \in 1..Len(sources) : sources[k] \in DOMAIN Definition
         /\ \A n \in 1..Len(Startup) :
              /\ IsPipeline(Startup[n])
              /\ Definition[Startup[n]].enabled /\ Definition[Startup[n]].initOnly
              /\ \E k \in StartupPlaces : Startup[n] = sources[k]
         /\ \A k \in StartupPlaces : \E n \in 1..Len(Startup) : Startup[n] = sources[k]
<1>1. /\ sources \in Seq(DOMAIN Definition) /\ Len(sources) \in Nat
      /\ read \in 0..Len(sources)
  BY DEF StartInv, Configured, DefinitionsAssumption
<1>2. /\ StartupPlaces \subseteq 1..Len(sources)
      /\ PlacesRead \subseteq 1..Len(sources)
      /\ \A k \in 1..Len(sources) : sources[k] \in DOMAIN Definition
  BY <1>1 DEF StartupPlaces, PlacesRead
<1>3. StartupRead \in Seq(DOMAIN Definition)
  BY <1>1, Elements DEF StartupRead
<1>4. /\ Startup \in Seq(DOMAIN Definition)
      /\ \A i \in 1..Len(Startup) : \E k \in StartupPlaces \cap 1..Len(sources) : Startup[i] = sources[k]
      /\ \A k \in StartupPlaces \cap 1..Len(sources) : \E i \in 1..Len(Startup) : Startup[i] = sources[k]
  BY <1>1, FilteredElements DEF Startup
<1>5. ASSUME NEW n \in 1..Len(Startup)
      PROVE  /\ IsPipeline(Startup[n])
             /\ Definition[Startup[n]].enabled /\ Definition[Startup[n]].initOnly
             /\ \E k \in StartupPlaces : Startup[n] = sources[k]
  <2>1. PICK k \in StartupPlaces : Startup[n] = sources[k]
    BY <1>4
  <2> QED
    BY <2>1 DEF StartupPlaces
<1> QED
  BY <1>1, <1>2, <1>3, <1>4, <1>5

(* While the sources are read, the pipelines to serve are theirs. *)
LEMMA AllOfSources ==
  ASSUME DefinitionsAssumption, StartInv, phase = "reading"
  PROVE  ToServe(Len(serverPipelines))
<1>1. PICK m \in 0..Len(serverPipelines) : ToServe(m)
  BY DEF StartInv
<1>2. initialized = <<>> /\ Len(serverPipelines) \in Nat
  BY DEF StartInv, Performed, Configured
<1>3. ~\E n \in 1..Len(initialized) : TRUE
  BY <1>2
<1>4. m = Len(serverPipelines)
  <2> SUFFICES ASSUME m # Len(serverPipelines)
               PROVE  FALSE
    OBVIOUS
  <2>1. m + 1 \in (m + 1)..Len(serverPipelines)
    BY <1>2
  <2> QED
    BY <1>1, <1>3, <2>1 DEF ToServe
<1> QED
  BY <1>1, <1>4

(* A step more was read. *)
LEMMA StepReadKeeps ==
  ASSUME DefinitionsAssumption, StartInv, phase = "reading", read < Len(sources),
         read' = read + 1, ~IsPipeline(sources[read + 1]),
         UNCHANGED <<env, sources, phase, pipelineMap, initPipelines, serverPipelines>>,
         UNCHANGED <<initialized, pipelineBuilders>>
  PROVE  StartInv'
<1>1. /\ sources \in Seq(DOMAIN Definition) /\ Len(sources) \in Nat
      /\ read \in 0..Len(sources)
  BY SourcesRead
<1>2. /\ \A key : Defs!Load(key)' = Defs!Load(key)
      /\ LoadedDefs' = LoadedDefs
  BY LoadStays DEF LoadedDefs
<1>3. StartupPlaces' = StartupPlaces /\ Startup' = Startup
  BY DEF StartupPlaces, Startup
<1>4. PlacesRead' = PlacesRead
  BY <1>1 DEF PlacesRead
<1>5. StartupRead' = StartupRead
  <2>1. read + 1 \in 1..Len(sources) /\ (read + 1) - 1 = read
    BY <1>1
  <2>2. read + 1 \notin StartupPlaces
    BY DEF StartupPlaces
  <2>3. FilteredUpTo(sources, StartupPlaces)[read + 1] = FilteredUpTo(sources, StartupPlaces)[read]
    BY <1>1, <2>1, <2>2, LoopStep
  <2> QED
    BY <1>3, <2>3 DEF StartupRead
<1>6. Configured' /\ Served'
  BY <1>1, <1>2 DEF StartInv, Configured, Served
<1>7. ReadOnce'
  BY <1>4 DEF StartInv, ReadOnce
<1>8. Performed'
  BY <1>2, <1>5 DEF StartInv, Performed
<1>9. ToServe(Len(serverPipelines))'
  BY <1>2, <1>3, <1>4, AllOfSources DEF ToServe
<1>10. Len(serverPipelines) \in 0..Len(serverPipelines)
  BY DEF StartInv, Configured
<1> QED
  BY <1>6, <1>7, <1>8, <1>9, <1>10 DEF StartInv

(* What reading a pipeline does to what was read. *)
LEMMA PipelineRead ==
  ASSUME DefinitionsAssumption, StartInv, phase = "reading", read < Len(sources),
         read' = read + 1, IsPipeline(sources[read + 1]), UNCHANGED <<env, sources>>,
         Definition[sources[read + 1]].code \notin pipelineMap,
         pipelineMap' = pipelineMap \union {Definition[sources[read + 1]].code}
  PROVE  /\ PlacesRead' = PlacesRead \union {read + 1}
         /\ ReadOnce'
         /\ StartupRead' =
              IF Definition[sources[read + 1]].enabled /\ Definition[sources[read + 1]].initOnly
              THEN Append(StartupRead, sources[read + 1]) ELSE StartupRead
<1> DEFINE key == sources[read + 1]
<1>1. /\ sources \in Seq(DOMAIN Definition) /\ Len(sources) \in Nat
      /\ read \in 0..Len(sources)
      /\ read + 1 \in 1..Len(sources) /\ (read + 1) - 1 = read
  BY SourcesRead
<1>2. PlacesRead' = PlacesRead \union {read + 1}
  BY <1>1 DEF PlacesRead
<1>3. ReadOnce'
  <2>1. ReadOnce
    BY DEF StartInv
  <2>2. \A k \in PlacesRead : Definition[sources[k]].code # Definition[key].code
    BY <2>1 DEF ReadOnce
  <2>3. pipelineMap' = {Definition[sources[k]].code : k \in PlacesRead'}
    BY <1>2, <2>1 DEF ReadOnce
  <2>4. \A j, k \in PlacesRead \union {read + 1} :
          Definition[sources[j]].code = Definition[sources[k]].code => j = k
    BY <2>1, <2>2 DEF ReadOnce
  <2> QED
    BY <1>2, <2>3, <2>4 DEF ReadOnce
<1>4. StartupPlaces' = StartupPlaces
  BY DEF StartupPlaces
<1>5. read + 1 \in StartupPlaces <=> Definition[key].enabled /\ Definition[key].initOnly
  BY <1>1 DEF StartupPlaces
<1>6. /\ read + 1 \in StartupPlaces =>
           FilteredUpTo(sources, StartupPlaces)[read + 1] = Append(StartupRead, key)
      /\ read + 1 \notin StartupPlaces =>
           FilteredUpTo(sources, StartupPlaces)[read + 1] = StartupRead
  BY <1>1, LoopStep DEF StartupRead
<1>7. StartupRead' = FilteredUpTo(sources, StartupPlaces)[read + 1]
  BY <1>4 DEF StartupRead
<1> QED
  BY <1>2, <1>3, <1>5, <1>6, <1>7

(* A pipeline more was read. *)
LEMMA PipelineReadKeeps ==
  ASSUME DefinitionsAssumption, StartInv, phase = "reading", read < Len(sources),
         read' = read + 1, IsPipeline(sources[read + 1]), UNCHANGED <<env, sources>>,
         Defs!ParsePipeline(Defs!Load(sources[read + 1])),
         UNCHANGED <<initialized, pipelineBuilders>>
  PROVE  StartInv'
<1> DEFINE key == sources[read + 1]
           def == Defs!Load(key)
<1>1. /\ sources \in Seq(DOMAIN Definition) /\ Len(sources) \in Nat
      /\ read \in 0..Len(sources)
      /\ read + 1 \in 1..Len(sources)
      /\ StartupRead \in Seq(DOMAIN Definition)
      /\ key \in DOMAIN Definition
  BY SourcesRead
<1>2. /\ def.code = Definition[key].code
      /\ def.enabled = Definition[key].enabled
      /\ def.initOnly = Definition[key].initOnly
      /\ def \in LoadedDefs
  BY <1>1, Loads DEF IsPipeline, LoadedDefs
<1>3. /\ \A k : Defs!Load(k)' = Defs!Load(k)
      /\ LoadedDefs' = LoadedDefs
  BY LoadStays DEF LoadedDefs
<1>4. /\ initPipelines \in Seq(LoadedDefs) /\ serverPipelines \in Seq(LoadedDefs)
      /\ initialized = <<>>
      /\ Filtered(initPipelines, Defs!Enabled(initPipelines))
            = [n \in 1..Len(StartupRead) |-> Defs!Load(StartupRead[n])]
      /\ Configured /\ Served
  BY DEF StartInv, Configured, Performed
<1> HIDE DEF def
<1>5. CASE def.code \in pipelineMap
  <2>1. phase' = "failed" /\ UNCHANGED <<initPipelines, serverPipelines>>
    BY <1>5 DEF Defs!ParsePipeline, def
  <2> QED
    BY <1>1, <2>1, FailKeeps
<1>6. CASE def.code \notin pipelineMap
  <2>1. /\ def.initOnly => initPipelines' = Append(initPipelines, def) /\ UNCHANGED serverPipelines
        /\ ~def.initOnly => serverPipelines' = Append(serverPipelines, def) /\ UNCHANGED initPipelines
        /\ pipelineMap' = pipelineMap \union {def.code}
        /\ phase' = phase
    BY <1>6 DEF Defs!ParsePipeline, def
  <2>2. /\ PlacesRead' = PlacesRead \union {read + 1}
        /\ ReadOnce'
        /\ StartupRead' = IF def.enabled /\ def.initOnly
                          THEN Append(StartupRead, key) ELSE StartupRead
    BY <1>2, <1>6, <2>1, PipelineRead
  <2>3. Configured'
    <3>1. initPipelines' \in Seq(LoadedDefs) /\ serverPipelines' \in Seq(LoadedDefs)
      <4>1. /\ Append(initPipelines, def) \in Seq(LoadedDefs)
            /\ Append(serverPipelines, def) \in Seq(LoadedDefs)
        BY <1>2, <1>4
      <4> QED
        BY <1>4, <2>1, <4>1
    <3> QED
      BY <1>1, <1>3, <1>4, <2>1, <3>1 DEF Configured
  <2>4. Served'
    BY <1>4, <2>1 DEF Served
  <2>5. Filtered(initPipelines, Defs!Enabled(initPipelines))'
          = [n \in 1..Len(StartupRead') |-> Defs!Load(StartupRead'[n])]
    <3>1. CASE def.initOnly
      <4> DEFINE more == Append(initPipelines, def)
      <4>1. /\ Len(more) = Len(initPipelines) + 1 /\ Len(initPipelines) \in Nat
            /\ more[Len(initPipelines) + 1] = def
            /\ \A n \in 1..Len(initPipelines) : more[n] = initPipelines[n]
            /\ DOMAIN more = 1..(Len(initPipelines) + 1)
        BY <1>2, <1>4
      <4> HIDE DEF more
      <4>2. /\ \A n \in 1..Len(initPipelines) :
                 n \in Defs!Enabled(more) <=> n \in Defs!Enabled(initPipelines)
            /\ Len(initPipelines) + 1 \in Defs!Enabled(more) <=> def.enabled
        BY <1>4, <4>1 DEF Defs!Enabled
      <4>3. Filtered(more, Defs!Enabled(more))
              = IF def.enabled
                THEN Append(Filtered(initPipelines, Defs!Enabled(initPipelines)), def)
                ELSE Filtered(initPipelines, Defs!Enabled(initPipelines))
        <5> DEFINE V == Defs!Enabled(more)
                   W == Defs!Enabled(initPipelines)
        <5>1. \A n \in 1..Len(initPipelines) : n \in V <=> n \in W
          BY <4>2
        <5>2. Len(initPipelines) + 1 \in V <=> def.enabled
          BY <4>2
        <5> HIDE DEF V, W
        <5>3. Filtered(Append(initPipelines, def), V)
                = IF Len(initPipelines) + 1 \in V
                  THEN Append(Filtered(initPipelines, W), def) ELSE Filtered(initPipelines, W)
          BY <1>2, <1>4, <5>1, OneMore
        <5>4. Filtered(more, V)
                = IF def.enabled
                  THEN Append(Filtered(initPipelines, W), def) ELSE Filtered(initPipelines, W)
          BY <5>2, <5>3 DEF more
        <5> QED
          BY <5>4 DEF V, W
      <4>4. Filtered(initPipelines, Defs!Enabled(initPipelines))' = Filtered(more, Defs!Enabled(more))
        BY <2>1, <3>1 DEF more, Defs!Enabled
      <4>5. CASE def.enabled
        <5> DEFINE was == [n \in 1..Len(StartupRead) |-> Defs!Load(StartupRead[n])]
        <5>1. StartupRead' = Append(StartupRead, key)
          BY <2>2, <3>1, <4>5
        <5>2. Append(was, def) = [n \in 1..Len(StartupRead') |-> Defs!Load(StartupRead'[n])]
          BY <1>1, <5>1 DEF def
        <5> QED
          BY <1>4, <4>3, <4>4, <4>5, <5>2
      <4>6. CASE ~def.enabled
        BY <1>4, <2>2, <4>3, <4>4, <4>6
      <4> QED
        BY <4>5, <4>6
    <3>2. CASE ~def.initOnly
      BY <1>4, <2>1, <2>2, <3>2 DEF Defs!Enabled
    <3> QED
      BY <3>1, <3>2
  <2>6. Performed'
    BY <1>3, <1>4, <2>1, <2>5 DEF Performed
  <2>7. ToServe(Len(serverPipelines))'
    <3> DEFINE m == Len(serverPipelines)
    <3>1. ToServe(m) /\ m \in Nat
      BY <1>4, AllOfSources
    <3>2. ~\E n \in 1..Len(initialized') : TRUE
      BY <1>4
    <3>3. /\ Len(serverPipelines') = (IF def.initOnly THEN m ELSE m + 1)
          /\ \A i \in 1..m : serverPipelines'[i] = serverPipelines[i]
          /\ ~def.initOnly => serverPipelines'[m + 1] = def
      <4> DEFINE more == Append(serverPipelines, def)
      <4>1. /\ Len(more) = m + 1
            /\ \A i \in 1..m : more[i] = serverPipelines[i]
            /\ more[m + 1] = def
        BY <1>2, <1>4
      <4> HIDE DEF more
      <4>2. CASE def.initOnly
        BY <2>1, <4>2
      <4>3. CASE ~def.initOnly
        <5>1. serverPipelines' = more
          BY <2>1, <4>3 DEF more
        <5> QED
          BY <4>1, <4>3, <5>1
      <4> QED
        BY <4>2, <4>3
    <3> HIDE DEF m
    <3>4. ASSUME NEW i \in 1..Len(serverPipelines')
          PROVE  \E k \in PlacesRead' : ~Definition[sources[k]].initOnly
                                        /\ serverPipelines'[i] = Defs!Load(sources[k])
      <4>1. CASE i \in 1..m
        BY <2>2, <3>1, <3>3, <4>1 DEF ToServe
      <4>2. CASE i \notin 1..m
        <5>1. ~def.initOnly /\ i = m + 1
          BY <3>1, <3>3, <4>2
        <5> QED
          BY <1>2, <2>2, <3>3, <5>1 DEF def
      <4> QED
        BY <4>1, <4>2
    <3>5. ASSUME NEW k \in PlacesRead', ~Definition[sources[k]].initOnly
          PROVE  \E i \in 1..Len(serverPipelines') : serverPipelines'[i] = Defs!Load(sources[k])
      <4>1. CASE k \in PlacesRead
        <5>1. PICK i \in 1..m : serverPipelines[i] = Defs!Load(sources[k])
          BY <3>1, <3>5, <4>1 DEF ToServe
        <5>2. i \in 1..Len(serverPipelines')
          BY <3>1, <3>3
        <5> QED
          BY <3>3, <5>1, <5>2
      <4>2. CASE k \notin PlacesRead
        <5>1. k = read + 1
          BY <2>2, <4>2
        <5>2. ~def.initOnly /\ m + 1 \in 1..Len(serverPipelines')
          BY <1>2, <3>1, <3>3, <3>5, <5>1
        <5> QED
          BY <3>3, <5>1, <5>2 DEF def
      <4> QED
        BY <4>1, <4>2
    <3>6. Len(serverPipelines') \in Nat
      BY <3>1, <3>3
    <3> QED
      BY <1>3, <3>2, <3>4, <3>5, <3>6 DEF ToServe
  <2>8. Len(serverPipelines') \in 0..Len(serverPipelines')
    BY <2>3 DEF Configured
  <2> QED
    BY <2>2, <2>3, <2>4, <2>6, <2>7, <2>8 DEF StartInv
<1> QED
  BY <1>5, <1>6

(* Definitions.tla speaks of steps, of filter and of what is blank as its  *)
(* promise does.                                                           *)
LEMMA SameWords ==
  /\ \A def : Defs!IsStep(def) <=> IsStep(def)
  /\ \A s, places : Defs!Filtered(s, places) = Filtered(s, places)
  /\ Defs!Blank = Blank
BY DEF Defs!Blank, Blank, Defs!IsStep, IsStep, Defs!Filtered, Filtered, Defs!FilteredUpTo, FilteredUpTo

(* A definition more is read. *)
LEMMA ReadDefKeeps ==
  ASSUME DefinitionsAssumption, StartInv, Defs!ReadDef
  PROVE  StartInv'
<1> DEFINE key == sources[read + 1]
           def == Defs!Load(key)
<1>1. /\ phase = "reading" /\ read < Len(sources)
      /\ UNCHANGED <<env, sources>>
      /\ \/ def = Malformed /\ Defs!Fail
         \/ /\ def # Malformed /\ read' = read + 1
            /\ \/ IsStep(def) /\ Defs!ParseStep(def)
               \/ /\ ~IsStep(def) /\ Defs!ParsePipeline(def)
                  /\ UNCHANGED <<stepMap, initialized, Defs!builders>>
  BY SameWords DEF Defs!ReadDef
<1>2. /\ Len(sources) \in Nat /\ read \in 0..Len(sources)
      /\ read + 1 \in 0..Len(sources)
      /\ key \in DOMAIN Definition
  BY <1>1, SourcesRead
<1> HIDE DEF def
<1>3. CASE def = Malformed /\ Defs!Fail
  BY <1>1, <1>2, <1>3, FailKeeps DEF Defs!Fail, Defs!start, Defs!builders
<1>4. CASE /\ def # Malformed /\ read' = read + 1
           /\ IsStep(def) /\ Defs!ParseStep(def)
  <2>1. ~IsPipeline(key)
    BY <1>2, <1>4, LoadsPipelines DEF def
  <2>2. /\ UNCHANGED <<pipelineMap, initPipelines, serverPipelines, initialized, pipelineBuilders>>
        /\ phase' \in {phase, "failed"}
    BY <1>4 DEF Defs!ParseStep, Defs!builders
  <2>3. CASE phase' = "failed"
    BY <1>1, <1>2, <1>4, <2>2, <2>3, FailKeeps
  <2>4. CASE phase' = phase
    BY <1>1, <1>4, <2>1, <2>2, <2>4, StepReadKeeps
  <2> QED
    BY <2>2, <2>3, <2>4
<1>5. CASE /\ def # Malformed /\ read' = read + 1
           /\ ~IsStep(def) /\ Defs!ParsePipeline(def)
           /\ UNCHANGED <<stepMap, initialized, Defs!builders>>
  <2>1. IsPipeline(key)
    BY <1>2, <1>5, LoadsPipelines DEF def
  <2> QED
    BY <1>1, <1>5, <2>1, PipelineReadKeeps DEF def, Defs!builders
<1> QED
  BY <1>1, <1>3, <1>4, <1>5

(* The disabled startup pipelines are left out. *)
LEMMA ExecuteInitKeeps ==
  ASSUME DefinitionsAssumption, StartInv, Defs!ExecuteInitPipelines
  PROVE  StartInv'
<1>1. /\ phase = "reading" /\ read = Len(sources) /\ phase' = "initializing"
      /\ initPipelines' = Filtered(initPipelines, Defs!Enabled(initPipelines))
      /\ UNCHANGED <<env, sources, read, pipelineMap, serverPipelines, initialized, pipelineBuilders>>
  BY SameWords DEF Defs!ExecuteInitPipelines, Defs!builders
<1>2. /\ \A key : Defs!Load(key)' = Defs!Load(key)
      /\ LoadedDefs' = LoadedDefs
  BY <1>1, LoadStays DEF LoadedDefs
<1>3. /\ PlacesRead' = PlacesRead /\ StartupPlaces' = StartupPlaces /\ Startup' = Startup
  BY <1>1 DEF PlacesRead, StartupPlaces, Startup
<1>4. /\ StartupRead = Startup /\ Startup \in Seq(DOMAIN Definition)
      /\ initialized = <<>>
      /\ initPipelines' = [n \in 1..Len(Startup) |-> Defs!Load(Startup[n])]
  <2>1. StartupRead = Startup
    BY <1>1 DEF StartupRead, Startup, Filtered
  <2> QED
    BY <1>1, <2>1, SourcesRead DEF StartInv, Performed
<1>5. Configured' /\ Served'
  <2>1. initPipelines' \in Seq(LoadedDefs)
    BY <1>1, FilteredElements DEF StartInv, Configured
  <2> QED
    BY <1>1, <1>2, <2>1 DEF StartInv, Configured, Served
<1>6. ReadOnce'
  BY <1>1, <1>3 DEF StartInv, ReadOnce
<1>7. Performed'
  <2>1. /\ Len(initialized) = 0 /\ Len(Startup) \in Nat /\ Len(initPipelines') = Len(Startup)
        /\ initialized = [n \in 1..Len(initialized) |-> Definition[Startup[n]].code]
    BY <1>4
  <2>2. \A n \in 1..Len(initPipelines') :
          initPipelines'[n] = Defs!Load(Startup[Len(initialized) + n])
    BY <1>4, <2>1
  <2> QED
    BY <1>1, <1>2, <1>3, <2>1, <2>2 DEF Performed
<1>8. PICK m \in 0..Len(serverPipelines) : ToServe(m)
  BY <1>1 DEF StartInv
<1>9. ToServe(m)'
  BY <1>1, <1>2, <1>3, <1>8 DEF ToServe
<1> QED
  BY <1>1, <1>5, <1>6, <1>7, <1>8, <1>9 DEF StartInv

(* The pipelines are served. *)
LEMMA RegisterKeeps ==
  ASSUME DefinitionsAssumption, StartInv, Defs!RegisterMyself
  PROVE  StartInv'
<1>1. /\ phase = "initializing" /\ initPipelines = <<>> /\ phase' = "launched"
      /\ pipelineBuilders' = Defs!Registered(pipelineBuilders, serverPipelines,
                                             Defs!Enabled(serverPipelines))
      /\ UNCHANGED <<env, sources, read, pipelineMap, initPipelines, serverPipelines, initialized>>
  BY DEF Defs!RegisterMyself, Defs!start
<1>2. /\ \A key : Defs!Load(key)' = Defs!Load(key)
      /\ LoadedDefs' = LoadedDefs
  BY <1>1, LoadStays DEF LoadedDefs
<1>3. /\ PlacesRead' = PlacesRead /\ StartupPlaces' = StartupPlaces /\ Startup' = Startup
  BY <1>1 DEF PlacesRead, StartupPlaces, Startup
<1>4. Configured' /\ Served'
  <2>1. pipelineBuilders = Defs!EmptyMap
    BY <1>1 DEF StartInv, Served
  <2>2. Served'
    BY <1>1, <2>1 DEF Served
  <2> QED
    BY <1>1, <1>2, <2>2 DEF StartInv, Configured
<1>5. ReadOnce'
  BY <1>1, <1>3 DEF StartInv, ReadOnce
<1>6. Performed'
  BY <1>1, <1>2, <1>3 DEF StartInv, Performed
<1>7. PICK m \in 0..Len(serverPipelines) : ToServe(m)
  BY <1>1 DEF StartInv
<1>8. ToServe(m)'
  BY <1>1, <1>2, <1>3, <1>7 DEF ToServe
<1> QED
  BY <1>1, <1>4, <1>5, <1>6, <1>7, <1>8 DEF StartInv

(* What the snippets of a startup pipeline add to the pipelines to serve. *)
LEMMA Registering ==
  ASSUME DefinitionsAssumption, NEW key \in DOMAIN Definition, IsPipeline(key),
         NEW defs \in Seq(LoadedDefs), NEW places,
         Len(defs) = Len(Definition[key].registers),
         \A k \in 1..Len(defs) :
           /\ defs[k] = Defs!Load(Definition[key].registers[k]) /\ defs[k] # Malformed
           /\ k \in places <=> defs[k].enabled /\ ~IsStep(defs[k])
  PROVE  /\ Filtered(defs, places) \in Seq(LoadedDefs)
         /\ \A i \in 1..Len(Filtered(defs, places)) : \E text \in DOMAIN Definition :
              Registers(key, text) /\ Filtered(defs, places)[i] = Defs!Load(text)
         /\ \A text \in DOMAIN Definition : Registers(key, text) =>
              \E i \in 1..Len(Filtered(defs, places)) : Filtered(defs, places)[i] = Defs!Load(text)
<1> DEFINE texts == Definition[key].registers
           new == Filtered(defs, places)
<1>1. texts \in Seq(DOMAIN Definition)
  BY DEF IsPipeline, DefinitionsAssumption
<1> HIDE DEF texts
<1>2. /\ Len(texts) \in Nat /\ DOMAIN texts = 1..Len(texts)
      /\ \A k \in 1..Len(texts) : texts[k] \in DOMAIN Definition
  BY <1>1
<1>3. Len(defs) = Len(texts)
  BY DEF texts
<1>4. \A k \in 1..Len(texts) :
        /\ defs[k] = Defs!Load(texts[k]) /\ defs[k] # Malformed
        /\ k \in places <=> defs[k].enabled /\ ~IsStep(defs[k])
  BY <1>3 DEF texts
<1>5. ASSUME NEW k \in 1..Len(texts)
      PROVE  k \in places <=> IsPipeline(texts[k]) /\ Definition[texts[k]].enabled
  <2>1. defs[k] # Malformed
    BY <1>4
  <2>2. k \in places <=> defs[k].enabled /\ ~IsStep(defs[k])
    BY <1>4
  <2>3. IsPipeline(texts[k]) <=> ~IsStep(defs[k])
    BY <1>2, <1>4, <2>1, LoadsPipelines
  <2>4. Definition[texts[k]].enabled = defs[k].enabled
    <3>1. texts[k] \in DOMAIN Definition /\ defs[k] = Defs!Load(texts[k])
      BY <1>2, <1>4
    <3>2. Definition[texts[k]] # Malformed
      BY <2>1, <3>1, Loads
    <3> QED
      BY <3>1, <3>2, Loads
  <2> QED
    BY <2>2, <2>3, <2>4
<1>6. \A text : Registers(key, text) <=>
        \E k \in 1..Len(texts) : text = texts[k] /\ IsPipeline(text) /\ Definition[text].enabled
  BY <1>1, <1>2 DEF Registers, texts, ToSet
<1>7. /\ new \in Seq(LoadedDefs)
      /\ \A i \in 1..Len(new) : \E k \in places \cap 1..Len(texts) : new[i] = defs[k]
      /\ \A k \in places \cap 1..Len(texts) : \E i \in 1..Len(new) : new[i] = defs[k]
  <2>1. /\ new \in Seq(LoadedDefs)
        /\ \A i \in 1..Len(new) : \E k \in places \cap 1..Len(defs) : new[i] = defs[k]
        /\ \A k \in places \cap 1..Len(defs) : \E i \in 1..Len(new) : new[i] = defs[k]
    BY FilteredElements
  <2> HIDE DEF new
  <2> QED
    BY <1>3, <2>1
<1> HIDE DEF new
<1>8. ASSUME NEW i \in 1..Len(new)
      PROVE  \E text \in DOMAIN Definition : Registers(key, text) /\ new[i] = Defs!Load(text)
  <2>1. PICK k \in places \cap 1..Len(texts) : new[i] = defs[k]
    BY <1>7
  <2> QED
    BY <1>2, <1>4, <1>5, <1>6, <2>1
<1>9. ASSUME NEW text \in DOMAIN Definition, Registers(key, text)
      PROVE  \E i \in 1..Len(new) : new[i] = Defs!Load(text)
  <2>1. PICK k \in 1..Len(texts) : text = texts[k] /\ IsPipeline(text) /\ Definition[text].enabled
    BY <1>6, <1>9
  <2>2. k \in places \cap 1..Len(texts)
    BY <1>5, <2>1
  <2>3. PICK i \in 1..Len(new) : new[i] = defs[k]
    BY <1>7, <2>2
  <2>4. defs[k] = Defs!Load(text)
    BY <1>4, <2>1
  <2> QED
    BY <2>3, <2>4
<1> QED
  BY <1>7, <1>8, <1>9 DEF new

(* A startup pipeline was performed. *)
LEMMA PerformKeeps ==
  ASSUME DefinitionsAssumption, StartInv, Defs!PerformInitPipeline
  PROVE  StartInv'
<1> DEFINE def == Head(initPipelines)
           key == Startup[Len(initialized) + 1]
           defs == [k \in 1..Len(def.registers) |-> Defs!Load(def.registers[k])]
           places == {k \in Defs!Enabled(defs) : ~IsStep(defs[k])}
           new == Filtered(defs, places)
<1>1. /\ phase = "initializing" /\ initPipelines # <<>>
      /\ UNCHANGED <<env, sources>>
      /\ \/ Defs!Fail
         \/ /\ \A k \in DOMAIN defs : defs[k] # Malformed
            /\ serverPipelines' = serverPipelines \o new
            /\ initPipelines' = Tail(initPipelines)
            /\ initialized' = Append(initialized, def.code)
            /\ UNCHANGED <<phase, read, stepMap, pipelineMap, pipelineBuilders>>
  BY SameWords DEF Defs!PerformInitPipeline
<1>2. /\ initPipelines \in Seq(LoadedDefs) /\ serverPipelines \in Seq(LoadedDefs)
      /\ initialized \in Seq(Codes)
      /\ read = Len(sources)
      /\ Len(initialized) + Len(initPipelines) = Len(Startup)
      /\ initialized = [n \in 1..Len(initialized) |-> Definition[Startup[n]].code]
      /\ \A n \in 1..Len(initPipelines) :
           initPipelines[n] = Defs!Load(Startup[Len(initialized) + n])
      /\ Configured /\ Served
  BY <1>1 DEF StartInv, Configured, Performed
<1>3. /\ Len(sources) \in Nat /\ Startup \in Seq(DOMAIN Definition)
      /\ \A n \in 1..Len(Startup) : IsPipeline(Startup[n])
  BY SourcesRead
<1>4. CASE Defs!Fail
  BY <1>1, <1>2, <1>3, <1>4, FailKeeps DEF Defs!Fail, Defs!start, Defs!builders, Configured
<1>5. CASE /\ \A k \in DOMAIN defs : defs[k] # Malformed
           /\ serverPipelines' = serverPipelines \o new
           /\ initPipelines' = Tail(initPipelines)
           /\ initialized' = Append(initialized, def.code)
           /\ UNCHANGED <<phase, read, stepMap, pipelineMap, pipelineBuilders>>
  <2> DEFINE done == Len(initialized)
             m == Len(serverPipelines)
  <2>1. /\ done \in Nat /\ Len(initPipelines) \in Nat /\ Len(initPipelines) # 0
        /\ def = initPipelines[1] /\ done + 1 \in 1..Len(Startup)
    BY <1>1, <1>2
  <2>2. def = Defs!Load(key) /\ IsPipeline(key) /\ key \in DOMAIN Definition
    BY <1>2, <1>3, <2>1
  <2>3. /\ def.code = Definition[key].code /\ def.registers = Definition[key].registers
        /\ Definition[key].code \in Codes
    BY <2>2, Loads DEF IsPipeline, Codes
  <2>4. /\ new \in Seq(LoadedDefs)
        /\ \A i \in 1..Len(new) : \E text \in DOMAIN Definition :
             Registers(key, text) /\ new[i] = Defs!Load(text)
        /\ \A text \in DOMAIN Definition : Registers(key, text) =>
             \E i \in 1..Len(new) : new[i] = Defs!Load(text)
    <3> DEFINE texts == Definition[key].registers
    <3>1. texts \in Seq(DOMAIN Definition)
      BY <2>2 DEF IsPipeline, DefinitionsAssumption
    <3>2. \A k \in 1..Len(texts) : Defs!Load(texts[k]) \in LoadedDefs
      BY <3>1 DEF LoadedDefs
    <3>3. defs = [k \in 1..Len(texts) |-> Defs!Load(texts[k])]
      <4> HIDE DEF def, key
      <4> QED
        BY <2>3
    <3>4. \A k \in DOMAIN defs : defs[k] # Malformed
      BY <1>5
    <3> HIDE DEF def, key, texts
    <3>5. /\ defs \in Seq(LoadedDefs) /\ Len(defs) = Len(texts) /\ DOMAIN defs = 1..Len(texts)
          /\ \A k \in 1..Len(texts) : defs[k] = Defs!Load(texts[k])
      <4> HIDE DEF defs
      <4> QED
        BY <3>1, <3>2, <3>3
    <3>6. \A k \in 1..Len(defs) : k \in places <=> defs[k].enabled /\ ~IsStep(defs[k])
      <4> HIDE DEF defs
      <4> QED
        BY <3>5 DEF Defs!Enabled
    <3> HIDE DEF defs, places
    <3>7. \A k \in 1..Len(defs) :
            /\ defs[k] = Defs!Load(Definition[key].registers[k]) /\ defs[k] # Malformed
            /\ k \in places <=> defs[k].enabled /\ ~IsStep(defs[k])
      BY <3>4, <3>5, <3>6 DEF texts
    <3>8. Len(defs) = Len(Definition[key].registers)
      BY <3>5 DEF texts
    <3> QED
      BY <2>2, <3>5, <3>7, <3>8, Registering
  <2> HIDE DEF def, new, defs, places, key
  <2>5. /\ initialized' \in Seq(Codes) /\ Len(initialized') = done + 1
        /\ initialized'[done + 1] = def.code
        /\ \A n \in 1..done : initialized'[n] = initialized[n]
    BY <1>2, <1>5, <2>3
  <2>6. /\ initPipelines' \in Seq(LoadedDefs)
        /\ Len(initPipelines') = Len(initPipelines) - 1
        /\ \A n \in 1..Len(initPipelines') : initPipelines'[n] = initPipelines[n + 1]
    BY <1>1, <1>2, <1>5, <2>1
  <2>7. /\ serverPipelines' \in Seq(LoadedDefs) /\ m \in Nat /\ Len(new) \in Nat
        /\ Len(serverPipelines') = m + Len(new)
        /\ \A i \in 1..m : serverPipelines'[i] = serverPipelines[i]
        /\ \A i \in 1..Len(new) : serverPipelines'[m + i] = new[i]
    BY <1>2, <1>5, <2>4
  <2>8. /\ \A k : Defs!Load(k)' = Defs!Load(k)
        /\ LoadedDefs' = LoadedDefs /\ Codes' = Codes
        /\ PlacesRead' = PlacesRead /\ StartupPlaces' = StartupPlaces /\ Startup' = Startup
    BY <1>1, <1>5, LoadStays DEF LoadedDefs, Codes, PlacesRead, StartupPlaces, Startup
  <2>9. Configured' /\ Served'
    BY <1>1, <1>2, <1>5, <2>5, <2>6, <2>7, <2>8 DEF Configured, Served
  <2>10. ReadOnce'
    BY <1>1, <1>5, <2>8 DEF StartInv, ReadOnce
  <2>11. Performed'
    <3>1. ASSUME NEW n \in 1..(done + 1)
          PROVE  initialized'[n] = Definition[Startup[n]].code
      <4>1. CASE n = done + 1
        BY <2>3, <2>5, <4>1 DEF key
      <4>2. CASE n # done + 1
        <5>1. n \in 1..done
          BY <2>1, <4>2
        <5> QED
          BY <1>2, <2>5, <5>1
      <4> QED
        BY <4>1, <4>2
    <3>2. initialized' = [n \in 1..Len(initialized') |-> Definition[Startup[n]].code]
      <4>1. DOMAIN initialized' = 1..(done + 1)
        BY <2>1, <2>5
      <4>2. initialized' = [n \in DOMAIN initialized' |-> initialized'[n]]
        BY <2>5
      <4> QED
        BY <2>5, <3>1, <4>1, <4>2
    <3>3. ASSUME NEW n \in 1..Len(initPipelines')
          PROVE  initPipelines'[n] = Defs!Load(Startup[Len(initialized') + n])
      <4>1. n + 1 \in 1..Len(initPipelines) /\ done + (n + 1) = Len(initialized') + n
        BY <2>1, <2>5, <2>6
      <4>2. initPipelines'[n] = Defs!Load(Startup[done + (n + 1)])
        BY <1>2, <2>6, <4>1
      <4> QED
        BY <4>1, <4>2
    <3>4. Len(initialized') + Len(initPipelines') = Len(Startup)
      <4>1. /\ Len(initialized') = done + 1
            /\ Len(initPipelines') = Len(initPipelines) - 1
            /\ done + Len(initPipelines) = Len(Startup)
        BY <1>2, <2>5, <2>6
      <4> HIDE DEF done
      <4> QED
        BY <2>1, <4>1
    <3> QED
      BY <1>1, <1>2, <1>5, <2>8, <3>2, <3>3, <3>4 DEF Performed
  <2>12. PICK b \in 0..m : ToServe(b)
    BY <1>1 DEF StartInv
  <2>13. ToServe(b)'
    <3>1. b \in 0..Len(serverPipelines')
      BY <2>7
    <3>2. ASSUME NEW i \in 1..b
          PROVE  \E k \in PlacesRead : ~Definition[sources[k]].initOnly
                                       /\ serverPipelines'[i] = Defs!Load(sources[k])
      <4>1. i \in 1..m
        BY <2>7
      <4> QED
        BY <2>7, <2>12, <4>1 DEF ToServe
    <3>3. ASSUME NEW k \in PlacesRead, ~Definition[sources[k]].initOnly
          PROVE  \E i \in 1..b : serverPipelines'[i] = Defs!Load(sources[k])
      <4>1. PICK i \in 1..b : serverPipelines[i] = Defs!Load(sources[k])
        BY <2>12, <3>3 DEF ToServe
      <4>2. i \in 1..m
        BY <2>7
      <4> QED
        BY <2>7, <4>1, <4>2
    <3>4. ASSUME NEW i \in (b + 1)..Len(serverPipelines')
          PROVE  \E n \in 1..Len(initialized') : \E text \in DOMAIN Definition :
                   Registers(Startup[n], text) /\ serverPipelines'[i] = Defs!Load(text)
      <4>1. CASE i <= m
        <5>1. i \in (b + 1)..m /\ i \in 1..m
          BY <2>7, <4>1
        <5>2. PICK n \in 1..done, text \in DOMAIN Definition :
                Registers(Startup[n], text) /\ serverPipelines[i] = Defs!Load(text)
          BY <2>12, <5>1 DEF ToServe
        <5>3. n \in 1..Len(initialized')
          BY <2>1, <2>5
        <5> QED
          BY <2>7, <5>1, <5>2, <5>3
      <4>2. CASE ~(i <= m)
        <5>1. i - m \in 1..Len(new) /\ m + (i - m) = i
          BY <2>7, <4>2
        <5>2. PICK text \in DOMAIN Definition :
                Registers(key, text) /\ new[i - m] = Defs!Load(text)
          BY <2>4, <5>1
        <5>3. done + 1 \in 1..Len(initialized') /\ serverPipelines'[i] = new[i - m]
          BY <2>1, <2>5, <2>7, <5>1
        <5> QED
          BY <5>2, <5>3 DEF key
      <4> QED
        BY <4>1, <4>2
    <3>5. ASSUME NEW n \in 1..Len(initialized'), NEW text \in DOMAIN Definition,
                 Registers(Startup[n], text)
          PROVE  \E i \in (b + 1)..Len(serverPipelines') : serverPipelines'[i] = Defs!Load(text)
      <4>1. CASE n = done + 1
        <5>1. PICK i \in 1..Len(new) : new[i] = Defs!Load(text)
          BY <2>4, <3>5, <4>1 DEF key
        <5>2. m + i \in (b + 1)..Len(serverPipelines')
          BY <2>7
        <5> QED
          BY <2>7, <5>1, <5>2
      <4>2. CASE n # done + 1
        <5>1. n \in 1..done
          BY <2>1, <2>5, <4>2
        <5>2. PICK i \in (b + 1)..m : serverPipelines[i] = Defs!Load(text)
          BY <2>12, <3>5, <5>1 DEF ToServe
        <5>3. i \in 1..m /\ i \in (b + 1)..Len(serverPipelines')
          BY <2>7
        <5> QED
          BY <2>7, <5>2, <5>3
      <4> QED
        BY <4>1, <4>2
    <3>6. \A key2, text : Registers(key2, text)' <=> Registers(key2, text)
      BY DEF Registers
    <3> QED
      BY <1>1, <2>8, <3>1, <3>2, <3>3, <3>4, <3>5, <3>6 DEF ToServe
  <2>14. b \in 0..Len(serverPipelines')
    BY <2>7
  <2> QED
    BY <1>1, <1>5, <2>9, <2>10, <2>11, <2>13, <2>14 DEF StartInv
<1> QED
  BY <1>1, <1>4, <1>5

(* A trigger that goes on with this request, and this pipeline if it       *)
(* performs one, leaves what the others are at.                            *)
LEMMA TriggerGoesOn ==
  ASSUME Kept, NEW t \in Triggers, NEW v, env' = env,
         trigger' = [trigger EXCEPT ![t] = v],
         \A key \in DOMAIN cache' : AsWritten(cache'[key].md5, cache'[key].def),
         v.at = "reading" => v.request.content \in Texts,
         v.at = "performed" /\ v.request.code = Blank /\ v.request.content \in Texts =>
           AsWritten(v.request.content, v.pipeline)
  PROVE  Kept'
<1>1. /\ DOMAIN trigger' = Triggers /\ trigger'[t] = v
      /\ \A u \in Triggers \ {t} : trigger'[u] = trigger[u]
  BY DEF Kept
<1>2. \A text, pipeline : AsWritten(text, pipeline)' <=> AsWritten(text, pipeline)
  BY LoadStays DEF AsWritten
<1>3. ASSUME NEW u \in Triggers
      PROVE  /\ trigger'[u].at = "reading" => trigger'[u].request.content \in Texts
             /\ trigger'[u].at = "performed" /\ trigger'[u].request.code = Blank
                  /\ trigger'[u].request.content \in Texts =>
                  AsWritten(trigger'[u].request.content, trigger'[u].pipeline)
  <2>1. CASE u = t
    BY <1>1, <2>1
  <2>2. CASE u # t
    BY <1>1, <2>2 DEF Kept
  <2> QED
    BY <2>1, <2>2
<1> QED
  BY <1>1, <1>2, <1>3 DEF Kept

(* A trigger is answered with what its content says. *)
LEMMA AnswerKeeps ==
  ASSUME Kept, NEW t \in Triggers, NEW request, NEW pipeline, env' = env,
         Defs!Answer(t, request, pipeline),
         \A key \in DOMAIN cache' : AsWritten(cache'[key].md5, cache'[key].def),
         request.code # Blank \/ request.content \notin Texts \/ pipeline = Defs!None
           \/ AsWritten(request.content, pipeline)
  PROVE  Kept'
<1> DEFINE v == [at |-> IF pipeline = Defs!None THEN "failed" ELSE "performed",
                 request |-> request, pipeline |-> pipeline]
<1>1. trigger' = [trigger EXCEPT ![t] = v]
  BY DEF Defs!Answer
<1>2. /\ v.request = request /\ v.pipeline = pipeline /\ v.at # "reading"
      /\ v.at = "performed" => pipeline # Defs!None
  OBVIOUS
<1> HIDE DEF v
<1> QED
  BY <1>1, <1>2, TriggerGoesOn

(* A trigger looks for its pipeline. *)
LEMMA FindPipelineKeeps ==
  ASSUME DefinitionsInv, NEW t \in Triggers, NEW request, Defs!FindPipeline(t, request)
  PROVE  DefinitionsInv'
<1>1. /\ UNCHANGED <<env, sources, phase, Defs!start, Defs!builders>>
      /\ cache' = cache
  BY DEF Defs!FindPipeline
<1>2. StartInv'
  BY <1>1, StartStays DEF DefinitionsInv
<1>3. /\ Kept
      /\ \A key \in DOMAIN cache' : AsWritten(cache'[key].md5, cache'[key].def)
  BY <1>1 DEF DefinitionsInv, Kept
<1>4. CASE request.code # Blank
  <2>1. PICK pipeline : Defs!Answer(t, request, pipeline)
    BY <1>4, SameWords DEF Defs!FindPipeline
  <2> QED
    BY <1>1, <1>2, <1>3, <1>4, <2>1, AnswerKeeps DEF DefinitionsInv
<1>5. CASE request.code = Blank /\ request.content = Blank
  <2>1. Defs!Answer(t, request, Defs!None)
    BY <1>5, SameWords DEF Defs!FindPipeline
  <2> QED
    BY <1>1, <1>2, <1>3, <2>1, AnswerKeeps DEF DefinitionsInv
<1>6. CASE request.code = Blank /\ request.content \notin {Blank} \union Texts
  <2>1. PICK pipeline : Defs!Answer(t, request, pipeline)
    BY <1>6, SameWords DEF Defs!FindPipeline
  <2> QED
    BY <1>1, <1>2, <1>3, <1>6, <2>1, AnswerKeeps DEF DefinitionsInv
<1>7. CASE request.code = Blank /\ request.content \in Texts \ {Blank}
  <2>1. \/ Defs!Cached(request) # Defs!None /\ Defs!Answer(t, request, Defs!Cached(request))
        \/ trigger' = [trigger EXCEPT ![t] = [at |-> "reading", request |-> request,
                                              pipeline |-> Defs!None]]
    BY <1>7, SameWords DEF Defs!FindPipeline
  <2>2. CASE Defs!Cached(request) # Defs!None /\ Defs!Answer(t, request, Defs!Cached(request))
    <3>1. AsWritten(request.content, Defs!Cached(request))
      BY <1>1, <1>3, <2>2 DEF Defs!Cached
    <3> QED
      BY <1>1, <1>2, <1>3, <2>2, <3>1, AnswerKeeps DEF DefinitionsInv
  <2>3. CASE trigger' = [trigger EXCEPT ![t] = [at |-> "reading", request |-> request,
                                                pipeline |-> Defs!None]]
    <3> DEFINE v == [at |-> "reading", request |-> request, pipeline |-> Defs!None]
    <3>1. /\ v.at = "reading" /\ v.request = request
          /\ trigger' = [trigger EXCEPT ![t] = v]
      BY <2>3
    <3> HIDE DEF v
    <3> QED
      BY <1>1, <1>2, <1>3, <1>7, <3>1, TriggerGoesOn DEF DefinitionsInv
  <2> QED
    BY <2>1, <2>2, <2>3
<1> QED
  BY <1>4, <1>5, <1>6, <1>7

(* A content is read, and kept under its cache key. *)
LEMMA ReadContentKeeps ==
  ASSUME DefinitionsAssumption, DefinitionsInv, NEW t \in Triggers, Defs!ReadContent(t)
  PROVE  DefinitionsInv'
<1> DEFINE request == trigger[t].request
           loaded == Defs!Load(request.content)
<1>1. /\ UNCHANGED <<env, sources, phase, Defs!start, Defs!builders>>
      /\ trigger[t].at = "reading"
      /\ \/ loaded = Malformed /\ Defs!Answer(t, request, Defs!None) /\ cache' = cache
         \/ /\ loaded # Malformed /\ Defs!Answer(t, request, Defs!Wrapped(loaded))
            /\ \/ cache' = cache
               \/ cache' = Defs!Put(cache, request.cacheKey,
                             [md5 |-> request.content, def |-> Defs!Wrapped(loaded)])
  BY DEF Defs!ReadContent
<1>2. StartInv'
  BY <1>1, StartStays DEF DefinitionsInv
<1>3. /\ Kept /\ request.content \in Texts /\ request.content \in DOMAIN Definition
      /\ \A key \in DOMAIN cache : AsWritten(cache[key].md5, cache[key].def)
  BY <1>1 DEF DefinitionsInv, Kept, DefinitionsAssumption
<1> HIDE DEF request
<1>4. CASE loaded = Malformed /\ Defs!Answer(t, request, Defs!None) /\ cache' = cache
  BY <1>1, <1>2, <1>3, <1>4, AnswerKeeps DEF DefinitionsInv
<1>5. CASE /\ loaded # Malformed /\ Defs!Answer(t, request, Defs!Wrapped(loaded))
           /\ \/ cache' = cache
              \/ cache' = Defs!Put(cache, request.cacheKey,
                            [md5 |-> request.content, def |-> Defs!Wrapped(loaded)])
  <2>1. AsWritten(request.content, Defs!Wrapped(loaded))
    <3>1. Definition[request.content] # Malformed
      BY <1>3, <1>5, Loads
    <3> QED
      BY <1>3, <3>1 DEF AsWritten
  <2> HIDE DEF loaded
  <2>2. \A key \in DOMAIN cache' : AsWritten(cache'[key].md5, cache'[key].def)
    BY <1>3, <1>5, <2>1 DEF Defs!Put
  <2> QED
    BY <1>1, <1>2, <1>3, <1>5, <2>1, <2>2, AnswerKeeps DEF DefinitionsInv
<1> QED
  BY <1>1, <1>4, <1>5

(* Every step of the start and of a trigger keeps the invariant. *)
LEMMA NextHoldsOfDefinitions ==
  ASSUME DefinitionsAssumption, DefinitionsInv, [Defs!Next]_Defs!vars
  PROVE  DefinitionsInv'
<1>1. CASE Defs!ReadDef
  BY <1>1, ReadDefKeeps, KeptStays DEF DefinitionsInv, Defs!ReadDef
<1>2. CASE Defs!ExecuteInitPipelines
  BY <1>2, ExecuteInitKeeps, KeptStays DEF DefinitionsInv, Defs!ExecuteInitPipelines
<1>3. CASE Defs!PerformInitPipeline
  BY <1>3, PerformKeeps, KeptStays DEF DefinitionsInv, Defs!PerformInitPipeline
<1>4. CASE Defs!RegisterMyself
  BY <1>4, RegisterKeeps, KeptStays DEF DefinitionsInv, Defs!RegisterMyself
<1>5. ASSUME NEW t \in Triggers, NEW request \in Requests, Defs!FindPipeline(t, request)
      PROVE  DefinitionsInv'
  BY <1>5, FindPipelineKeeps
<1>6. ASSUME NEW t \in Triggers, Defs!ReadContent(t)
      PROVE  DefinitionsInv'
  BY <1>6, ReadContentKeeps
<1>7. CASE UNCHANGED Defs!vars
  BY <1>7, StartStays, KeptStays DEF DefinitionsInv, Defs!vars
<1> QED
  BY <1>1, <1>2, <1>3, <1>4, <1>5, <1>6, <1>7 DEF Defs!Next, Defs!Failed

-----------------------------------------------------------------------------
(* What the invariant says of what is performed and served. *)

LEMMA RunsAsMeant ==
  ASSUME DefinitionsAssumption, RedressAssumption, Configured,
         NEW key \in DOMAIN Definition, Definition[key] # Malformed
  PROVE  RunsAt(Defs!Load(key).given) = MeantAt(env, Definition[key].given)
BY Loads DEF RedressAssumption, Configured

(* A wrapped step is what its text says, with a code of its own. *)
LEMMA WrappedAsWritten ==
  ASSUME DefinitionsAssumption, NEW key \in DOMAIN Definition, Definition[key] # Malformed
  PROVE  /\ Defs!Wrapped(Defs!Load(key)).given = Defs!Load(key).given
         /\ Defs!Wrapped(Defs!Load(key)).code
              \in {Definition[key].code, "TemporaryPipelineForStep" \o Definition[key].code}
<1> DEFINE def == Defs!Load(key)
<1>1. /\ def.code = Definition[key].code
      /\ {"type", "code", "given"} \subseteq DOMAIN def
  BY Loads
<1> HIDE DEF def
<1>2. CASE def.type = "pipeline"
  BY <1>1, <1>2 DEF Defs!Wrapped, def
<1>3. CASE def.type # "pipeline"
  <2> DEFINE wrapped == [def EXCEPT !.type = "pipeline",
                                    !.code = "TemporaryPipelineForStep" \o def.code]
  <2>1. wrapped.given = def.given /\ wrapped.code = "TemporaryPipelineForStep" \o def.code
    BY <1>1
  <2>2. Defs!Wrapped(def) = wrapped
    BY <1>3 DEF Defs!Wrapped
  <2> HIDE DEF wrapped
  <2> QED
    BY <1>1, <2>1, <2>2 DEF def
<1> QED
  BY <1>2, <1>3

(* What is kept as written is performed as written. *)
LEMMA TriggeredHolds ==
  ASSUME DefinitionsAssumption, RedressAssumption, DefinitionsInv
  PROVE  TriggeredAsWritten
<1> SUFFICES ASSUME NEW t \in Triggers, trigger[t].at = "performed",
                    trigger[t].request.code = Blank, trigger[t].request.content \in Texts
             PROVE  LET def == Definition[trigger[t].request.content]
                    IN /\ def # Malformed
                       /\ trigger[t].pipeline.code
                            \in {def.code, "TemporaryPipelineForStep" \o def.code}
                       /\ RunsAt(trigger[t].pipeline.given) = MeantAt(env, def.given)
  BY DEF TriggeredAsWritten
<1> DEFINE content == trigger[t].request.content
<1>1. /\ content \in DOMAIN Definition /\ Definition[content] # Malformed
      /\ trigger[t].pipeline = Defs!Wrapped(Defs!Load(content))
  BY DEF DefinitionsInv, Kept, AsWritten, DefinitionsAssumption
<1> HIDE DEF content
<1>2. Configured
  BY DEF DefinitionsInv, StartInv
<1> QED
  BY <1>1, <1>2, WrappedAsWritten, RunsAsMeant DEF content

(* Served only after all of the startup pipelines. *)
LEMMA AfterInitHolds ==
  ASSUME DefinitionsAssumption, DefinitionsInv
  PROVE  ServedAfterInit
<1> SUFFICES ASSUME DOMAIN pipelineBuilders # {}
             PROVE  /\ phase = "launched"
                    /\ initialized = [n \in 1..Len(Startup) |-> Definition[Startup[n]].code]
  BY DEF ServedAfterInit
<1>1. phase = "launched"
  BY DEF DefinitionsInv, StartInv, Served, Defs!EmptyMap
<1>2. Performed /\ initialized \in Seq(Codes)
  BY <1>1 DEF DefinitionsInv, StartInv, Configured
<1>3. Len(initialized) = Len(Startup)
  <2>1. Len(initialized) + Len(<<>>) = Len(Startup) /\ Len(initialized) \in Nat
    BY <1>1, <1>2 DEF Performed
  <2> QED
    BY <2>1
<1> QED
  BY <1>1, <1>2, <1>3 DEF Performed

(* What the sources have to serve, and what the snippets registered. *)
Written == {def \in PipelinesOf(sources) : ~def.initOnly}
RegisteredBySnippets ==
  UNION {PipelinesOf(def.registers) : def \in {d \in PipelinesOf(sources) : d.initOnly /\ d.enabled}}

(* The pipelines of the sources, and the places they are read at. *)
LEMMA PlacesOfSources ==
  ASSUME DefinitionsAssumption, StartInv, phase = "launched"
  PROVE  PipelinesOf(sources) = {Definition[sources[k]] : k \in PlacesRead}
<1>1. /\ sources \in Seq(DOMAIN Definition) /\ Len(sources) \in Nat /\ read = Len(sources)
  BY SourcesRead DEF StartInv, Performed
<1>2. \A key : key \in ToSet(sources) <=> \E k \in 1..Len(sources) : key = sources[k]
  BY <1>1 DEF ToSet
<1>3. \A k : k \in PlacesRead <=> k \in 1..Len(sources) /\ IsPipeline(sources[k])
  BY <1>1 DEF PlacesRead
<1> QED
  BY <1>2, <1>3 DEF PipelinesOf

(* The pipelines the snippets register, and the texts they are of. *)
LEMMA RegisteredTexts ==
  ASSUME DefinitionsAssumption, StartInv, phase = "launched"
  PROVE  /\ \A n \in 1..Len(Startup), text \in DOMAIN Definition :
              Registers(Startup[n], text) => Definition[text] \in RegisteredBySnippets
         /\ \A def \in RegisteredBySnippets : def.enabled =>
              \E n \in 1..Len(Startup), text \in DOMAIN Definition :
                Registers(Startup[n], text) /\ def = Definition[text]
<1>1. /\ PipelinesOf(sources) = {Definition[sources[k]] : k \in PlacesRead}
      /\ PlacesRead \subseteq 1..Len(sources)
  BY PlacesOfSources, SourcesRead
<1>2. read = Len(sources)
  BY DEF StartInv, Performed
<1>3. ASSUME NEW n \in 1..Len(Startup), NEW text \in DOMAIN Definition, Registers(Startup[n], text)
      PROVE  Definition[text] \in RegisteredBySnippets
  <2>1. PICK k \in StartupPlaces : Startup[n] = sources[k]
    BY SourcesRead
  <2> DEFINE def == Definition[sources[k]]
  <2>2. def \in PipelinesOf(sources) /\ def.initOnly /\ def.enabled
    <3>1. k \in PlacesRead
      BY <1>2, SourcesRead DEF StartupPlaces, PlacesRead
    <3> QED
      BY <1>1, <3>1 DEF StartupPlaces
  <2>3. Definition[text] \in PipelinesOf(def.registers)
    BY <1>3, <2>1 DEF Registers, PipelinesOf
  <2> HIDE DEF def
  <2> QED
    BY <2>2, <2>3 DEF RegisteredBySnippets
<1>4. ASSUME NEW def \in RegisteredBySnippets, def.enabled
      PROVE  \E n \in 1..Len(Startup), text \in DOMAIN Definition :
               Registers(Startup[n], text) /\ def = Definition[text]
  <2>1. PICK d \in PipelinesOf(sources) : d.initOnly /\ d.enabled /\ def \in PipelinesOf(d.registers)
    BY DEF RegisteredBySnippets
  <2>2. PICK k \in PlacesRead : d = Definition[sources[k]]
    BY <1>1, <2>1
  <2>3. k \in StartupPlaces
    BY <1>1, <2>1, <2>2, SourcesRead DEF StartupPlaces, PlacesRead
  <2>4. PICK n \in 1..Len(Startup) : Startup[n] = sources[k]
    BY <2>3, SourcesRead
  <2>5. PICK text \in ToSet(d.registers) : IsPipeline(text) /\ def = Definition[text]
    BY <2>1 DEF PipelinesOf
  <2>6. text \in DOMAIN Definition
    <3>1. sources[k] \in DOMAIN Definition /\ IsPipeline(sources[k])
      BY <1>1, <2>2, SourcesRead DEF PlacesRead
    <3>2. d.registers \in Seq(DOMAIN Definition)
      BY <2>2, <3>1 DEF DefinitionsAssumption, IsPipeline
    <3> QED
      BY <2>5, <3>2 DEF ToSet
  <2>7. Registers(Startup[n], text)
    BY <1>4, <2>2, <2>4, <2>5 DEF Registers
  <2> QED
    BY <2>5, <2>6, <2>7
<1> QED
  BY <1>3, <1>4

(* The state of a server that was launched. *)
LEMMA Launched ==
  ASSUME DefinitionsInv, phase = "launched"
  PROVE  /\ serverPipelines \in Seq(LoadedDefs) /\ Len(serverPipelines) \in Nat
         /\ Defs!Enabled(serverPipelines)
              = {i \in 1..Len(serverPipelines) : serverPipelines[i].enabled}
         /\ pipelineBuilders = Defs!Registered(Defs!EmptyMap, serverPipelines,
                                               Defs!Enabled(serverPipelines))
         /\ DOMAIN pipelineBuilders
              = {serverPipelines[i].code : i \in Defs!Enabled(serverPipelines)}
         /\ Len(initialized) = Len(Startup)
<1>1. serverPipelines \in Seq(LoadedDefs) /\ Len(serverPipelines) \in Nat
  BY DEF DefinitionsInv, StartInv, Configured
<1>2. Len(initialized) = Len(Startup)
  <2>1. /\ initPipelines = <<>> /\ Len(initialized) + Len(initPipelines) = Len(Startup)
        /\ Len(initialized) \in Nat
    BY DEF DefinitionsInv, StartInv, Performed, Configured
  <2> QED
    BY <2>1
<1>3. Defs!Enabled(serverPipelines)
        = {i \in 1..Len(serverPipelines) : serverPipelines[i].enabled}
  BY <1>1 DEF Defs!Enabled
<1> DEFINE enabled == Defs!Enabled(serverPipelines)
<1>4. pipelineBuilders = Defs!Registered(Defs!EmptyMap, serverPipelines, enabled)
  BY DEF DefinitionsInv, StartInv, Served
<1> HIDE DEF enabled
<1>5. DOMAIN Defs!Registered(Defs!EmptyMap, serverPipelines, enabled)
        = DOMAIN Defs!EmptyMap \union {serverPipelines[i].code : i \in enabled}
  BY RegisteredCodes
<1>6. DOMAIN Defs!EmptyMap = {}
  BY DEF Defs!EmptyMap
<1>7. DOMAIN pipelineBuilders = {serverPipelines[i].code : i \in enabled}
  BY <1>4, <1>5, <1>6
<1> QED
  BY <1>1, <1>2, <1>3, <1>4, <1>7 DEF enabled

(* What is served under a code is the last definition with that code, and  *)
(* what the sources serve comes first.                                     *)
LEMMA LastServed ==
  ASSUME DefinitionsAssumption, DefinitionsInv, phase = "launched",
         NEW c \in DOMAIN pipelineBuilders
  PROVE  \/ \E def \in RegisteredBySnippets, key \in DOMAIN Definition :
              /\ def.code = c /\ def.enabled /\ def = Definition[key] /\ def # Malformed
              /\ pipelineBuilders[c] = Defs!Load(key)
         \/ /\ ~\E def \in RegisteredBySnippets : def.code = c /\ def.enabled
            /\ \E k \in PlacesRead :
                 /\ Definition[sources[k]] \in Written
                 /\ Definition[sources[k]].code = c /\ Definition[sources[k]].enabled
                 /\ pipelineBuilders[c] = Defs!Load(sources[k])
<1>1. PICK m \in 0..Len(serverPipelines) : ToServe(m)
  BY DEF DefinitionsInv, StartInv
<1>2. Len(serverPipelines) \in Nat /\ m \in Nat /\ Len(initialized) = Len(Startup)
  BY Launched
<1>3. Defs!Enabled(serverPipelines)
        = {i \in 1..Len(serverPipelines) : serverPipelines[i].enabled}
  BY Launched
<1>4. /\ c \in {serverPipelines[i].code : i \in Defs!Enabled(serverPipelines)}
      /\ pipelineBuilders = Defs!Registered(Defs!EmptyMap, serverPipelines,
                                            Defs!Enabled(serverPipelines))
  BY Launched
<1>5. PICK k \in Defs!Enabled(serverPipelines) :
        /\ serverPipelines[k].code = c
        /\ \A j \in Defs!Enabled(serverPipelines) : serverPipelines[j].code = c => j <= k
        /\ pipelineBuilders[c] = serverPipelines[k]
  <2> DEFINE enabled == Defs!Enabled(serverPipelines)
             n == Len(serverPipelines)
  <2>1. n \in Nat /\ enabled \in SUBSET (1..n)
    BY <1>2, <1>3
  <2>2. /\ \E i \in enabled : serverPipelines[i].code = c
        /\ pipelineBuilders = Defs!Registered(Defs!EmptyMap, serverPipelines, enabled)
    BY <1>4
  <2> HIDE DEF enabled, n
  <2>3. \E k \in enabled :
          /\ serverPipelines[k].code = c
          /\ \A j \in enabled : serverPipelines[j].code = c => j <= k
          /\ pipelineBuilders[c] = serverPipelines[k]
    <3>1. \E k \in enabled : /\ serverPipelines[k].code = c
                             /\ \A j \in enabled : serverPipelines[j].code = c => j <= k
      <4> DEFINE S == {i \in enabled : serverPipelines[i].code = c}
      <4>1. S \in SUBSET (1..n) /\ S # {}
        BY <2>1, <2>2
      <4>2. PICK k \in S : \A j \in S : j <= k
        <5> HIDE DEF S
        <5> QED
          BY <2>1, <4>1, Largest
      <4> QED
        BY <4>2
    <3> QED
      BY <2>2, <3>1, LastStays
  <2> QED
    BY <2>3 DEF enabled
<1>6. k \in 1..Len(serverPipelines) /\ serverPipelines[k].enabled
  BY <1>3, <1>5
<1>7. ASSUME NEW key \in DOMAIN Definition, IsPipeline(key), serverPipelines[k] = Defs!Load(key)
      PROVE  Definition[key] # Malformed /\ Definition[key].code = c /\ Definition[key].enabled
  BY <1>5, <1>6, <1>7, Loads DEF IsPipeline
<1>8. CASE k > m
  <2>1. k \in (m + 1)..Len(serverPipelines)
    BY <1>2, <1>6, <1>8
  <2>2. PICK n \in 1..Len(Startup), text \in DOMAIN Definition :
          Registers(Startup[n], text) /\ serverPipelines[k] = Defs!Load(text)
    BY <1>1, <1>2, <2>1 DEF ToServe
  <2>3. Definition[text] \in RegisteredBySnippets /\ IsPipeline(text)
    BY <2>2, RegisteredTexts DEF DefinitionsInv, Registers
  <2> QED
    BY <1>5, <1>7, <2>2, <2>3
<1>9. CASE ~(k > m)
  <2>1. k \in 1..m
    BY <1>2, <1>6, <1>9
  <2>2. PICK j \in PlacesRead : ~Definition[sources[j]].initOnly
                                /\ serverPipelines[k] = Defs!Load(sources[j])
    BY <1>1, <2>1 DEF ToServe
  <2>3. /\ sources[j] \in DOMAIN Definition /\ IsPipeline(sources[j])
        /\ Definition[sources[j]] \in Written
    BY <2>2, SourcesRead, PlacesOfSources DEF DefinitionsInv, PlacesRead, Written
  <2>4. ASSUME NEW def \in RegisteredBySnippets, def.code = c, def.enabled
        PROVE  FALSE
    <3>1. PICK n \in 1..Len(Startup), text \in DOMAIN Definition :
            Registers(Startup[n], text) /\ def = Definition[text]
      BY <2>4, RegisteredTexts DEF DefinitionsInv
    <3>2. PICK i \in (m + 1)..Len(serverPipelines) : serverPipelines[i] = Defs!Load(text)
      BY <1>1, <1>2, <3>1 DEF ToServe
    <3>3. serverPipelines[i].code = c /\ serverPipelines[i].enabled
      BY <2>4, <3>1, <3>2, Loads DEF Registers, IsPipeline
    <3>4. i \in Defs!Enabled(serverPipelines)
      BY <1>2, <1>3, <3>3
    <3>5. i <= k
      BY <1>5, <3>3, <3>4
    <3> QED
      BY <1>2, <1>6, <1>9, <3>2, <3>5
  <2> QED
    BY <1>5, <1>7, <2>2, <2>3, <2>4
<1> QED
  BY <1>8, <1>9

(* The codes that are served are those of the enabled definitions. *)
LEMMA CodesServed ==
  ASSUME DefinitionsAssumption, DefinitionsInv, phase = "launched"
  PROVE  {def.code : def \in {d \in Written \union RegisteredBySnippets : d.enabled}}
           = DOMAIN pipelineBuilders
<1>1. PICK m \in 0..Len(serverPipelines) : ToServe(m)
  BY DEF DefinitionsInv, StartInv
<1>2. /\ Len(serverPipelines) \in Nat /\ Len(initialized) = Len(Startup)
      /\ Defs!Enabled(serverPipelines)
           = {i \in 1..Len(serverPipelines) : serverPipelines[i].enabled}
      /\ DOMAIN pipelineBuilders
           = {serverPipelines[i].code : i \in Defs!Enabled(serverPipelines)}
  BY Launched
<1>3. ASSUME NEW def \in Written \union RegisteredBySnippets, def.enabled
      PROVE  def.code \in DOMAIN pipelineBuilders
  <2>1. \E i \in 1..Len(serverPipelines), key \in DOMAIN Definition :
          def = Definition[key] /\ IsPipeline(key) /\ serverPipelines[i] = Defs!Load(key)
    <3>1. CASE def \in Written
      <4>1. PICK k \in PlacesRead : def = Definition[sources[k]]
        BY <3>1, PlacesOfSources DEF DefinitionsInv, Written
      <4>2. PICK i \in 1..m : serverPipelines[i] = Defs!Load(sources[k])
        BY <1>1, <3>1, <4>1 DEF ToServe, Written
      <4>3. sources[k] \in DOMAIN Definition /\ IsPipeline(sources[k])
        BY SourcesRead DEF DefinitionsInv, PlacesRead
      <4>4. i \in 1..Len(serverPipelines)
        BY <1>2
      <4> QED
        BY <4>1, <4>2, <4>3, <4>4
    <3>2. CASE def \in RegisteredBySnippets
      <4>1. PICK n \in 1..Len(Startup), text \in DOMAIN Definition :
              Registers(Startup[n], text) /\ def = Definition[text]
        BY <1>3, <3>2, RegisteredTexts DEF DefinitionsInv
      <4>2. PICK i \in (m + 1)..Len(serverPipelines) : serverPipelines[i] = Defs!Load(text)
        BY <1>1, <1>2, <4>1 DEF ToServe
      <4>3. i \in 1..Len(serverPipelines)
        BY <1>2
      <4> QED
        BY <4>1, <4>2, <4>3 DEF Registers
    <3> QED
      BY <3>1, <3>2
  <2>2. PICK i \in 1..Len(serverPipelines), key \in DOMAIN Definition :
          def = Definition[key] /\ IsPipeline(key) /\ serverPipelines[i] = Defs!Load(key)
    BY <2>1
  <2>3. serverPipelines[i].code = def.code /\ serverPipelines[i].enabled
    BY <1>3, <2>2, Loads DEF IsPipeline
  <2>4. i \in Defs!Enabled(serverPipelines)
    BY <1>2, <2>3
  <2> QED
    BY <1>2, <2>3, <2>4
<1>4. ASSUME NEW c \in DOMAIN pipelineBuilders
      PROVE  \E def \in Written \union RegisteredBySnippets : def.enabled /\ def.code = c
  BY LastServed
<1> QED
  BY <1>3, <1>4

(* What is served under a code is what one definition says. *)
LEMMA ServedHolds ==
  ASSUME DefinitionsAssumption, RedressAssumption, DefinitionsInv
  PROVE  ServedAsDefined
<1> SUFFICES ASSUME phase = "launched"
             PROVE  ServedAsDefined
  BY DEF ServedAsDefined
<1> DEFINE Of(defs, c) == {def \in defs : def.code = c /\ def.enabled}
<1>1. Configured /\ ReadOnce
  BY DEF DefinitionsInv, StartInv
<1>2. ASSUME NEW c \in DOMAIN pipelineBuilders
      PROVE  /\ RunsAt(pipelineBuilders[c].given) \in
                  {MeantAt(env, def.given) :
                     def \in Of(IF Of(RegisteredBySnippets, c) # {}
                                THEN RegisteredBySnippets ELSE Written, c)}
             /\ Of(RegisteredBySnippets, c) = {} => Cardinality(Of(Written, c)) = 1
  <2>1. CASE \E def \in RegisteredBySnippets, key \in DOMAIN Definition :
               /\ def.code = c /\ def.enabled /\ def = Definition[key] /\ def # Malformed
               /\ pipelineBuilders[c] = Defs!Load(key)
    <3>1. PICK def \in RegisteredBySnippets, key \in DOMAIN Definition :
            /\ def.code = c /\ def.enabled /\ def = Definition[key] /\ def # Malformed
            /\ pipelineBuilders[c] = Defs!Load(key)
      BY <2>1
    <3>2. def \in Of(RegisteredBySnippets, c)
      BY <3>1
    <3>3. RunsAt(pipelineBuilders[c].given) = MeantAt(env, def.given)
      BY <1>1, <3>1, RunsAsMeant
    <3> HIDE DEF Of
    <3> QED
      BY <3>2, <3>3
  <2>2. CASE /\ ~\E def \in RegisteredBySnippets : def.code = c /\ def.enabled
             /\ \E k \in PlacesRead :
                  /\ Definition[sources[k]] \in Written
                  /\ Definition[sources[k]].code = c /\ Definition[sources[k]].enabled
                  /\ pipelineBuilders[c] = Defs!Load(sources[k])
    <3>1. PICK k \in PlacesRead :
            /\ Definition[sources[k]] \in Written
            /\ Definition[sources[k]].code = c /\ Definition[sources[k]].enabled
            /\ pipelineBuilders[c] = Defs!Load(sources[k])
      BY <2>2
    <3> DEFINE def == Definition[sources[k]]
    <3>2. def \in Of(Written, c) /\ Of(RegisteredBySnippets, c) = {}
      BY <2>2, <3>1
    <3>3. RunsAt(pipelineBuilders[c].given) = MeantAt(env, def.given)
      <4>1. sources[k] \in DOMAIN Definition /\ Definition[sources[k]] # Malformed
        BY SourcesRead DEF DefinitionsInv, PlacesRead, IsPipeline
      <4> QED
        BY <1>1, <3>1, <4>1, RunsAsMeant
    <3>4. Of(Written, c) = {def}
      <4>1. ASSUME NEW d \in Of(Written, c)
            PROVE  d = def
        <5>1. PICK j \in PlacesRead : d = Definition[sources[j]]
          BY PlacesOfSources DEF DefinitionsInv, Written
        <5>2. j = k
          BY <1>1, <3>1, <5>1 DEF ReadOnce
        <5> QED
          BY <5>1, <5>2
      <4> QED
        BY <3>2, <4>1
    <3> HIDE DEF Of, def
    <3>5. Cardinality(Of(Written, c)) = 1
      BY <3>4, FS_Singleton
    <3> QED
      BY <3>2, <3>3, <3>5
  <2> QED
    BY <2>1, <2>2, LastServed
<1>3. {def.code : def \in {d \in Written \union RegisteredBySnippets : d.enabled}}
        = DOMAIN pipelineBuilders
  BY CodesServed
<1> QED
  BY <1>2, <1>3 DEF ServedAsDefined, Written, RegisteredBySnippets

-----------------------------------------------------------------------------
(* The invariant of the start of the server and of its trigger steps.      *)
THEOREM DefinitionsAlwaysHold == Defs!Spec => []DefinitionsInv
<1>1. Defs!Init => DefinitionsInv
  BY InitHoldsOfDefinitions, DefinitionsAssumption
<1>2. DefinitionsInv /\ [Defs!Next]_Defs!vars => DefinitionsInv'
  BY NextHoldsOfDefinitions, DefinitionsAssumption
<1> QED
  BY <1>1, <1>2, PTL DEF Defs!Spec

(* A trigger performs the content it was given, whatever others parsed,    *)
(* cached and replaced under its key meanwhile (findPipeline), for any     *)
(* number of triggers and requests, any definitions that the redress is    *)
(* right about, any sources and any environment.                           *)
THEOREM AlwaysTriggeredAsWritten == Defs!Spec => []TriggeredAsWritten
<1>1. DefinitionsInv => TriggeredAsWritten
  BY TriggeredHolds, DefinitionsAssumption, RedressAssumption
<1> QED
  BY <1>1, DefinitionsAlwaysHold, PTL

(* Nothing is served before every enabled startup pipeline was performed,  *)
(* in the order they were read (executeInitPipelines), for any definitions *)
(* and any order of the sources.                                           *)
THEOREM AlwaysServedAfterInit == Defs!Spec => []ServedAfterInit
<1>1. DefinitionsInv => ServedAfterInit
  BY AfterInitHolds, DefinitionsAssumption
<1> QED
  BY <1>1, DefinitionsAlwaysHold, PTL

(* What is served under a code is what one definition says, and every      *)
(* enabled definition is served (parseDef, load, putPipeline), for any     *)
(* definitions that the redress is right about, any order of the sources   *)
(* and any texts the startup pipelines register.                           *)
THEOREM AlwaysServedAsDefined == Defs!Spec => []ServedAsDefined
<1>1. DefinitionsInv => ServedAsDefined
  BY ServedHolds, DefinitionsAssumption, RedressAssumption
<1> QED
  BY <1>1, DefinitionsAlwaysHold, PTL
-----------------------------------------------------------------------------
(* The deployment of database scripts. *)

USE FilesAssumption, ReleasesAssumption, DeploymentsAssumption

AtFile(d) == pc[d] \in {"lookup"} \union InTry

Behind ==
  \A d \in Deployers : AtFile(d) =>
    /\ at[d] \in Files
    /\ release[d][at[d]] \in Contents
    /\ \A g \in 1..(at[d] - 1) : release[d][g] # None => log[g] = <<release[d][g]>>

Here ==
  \A d \in Deployers :
    /\ pc[d] \in InTry => log[at[d]] = <<>>
    /\ pc[d] = "record" /\ at[d] \in Ddl =>
         /\ applied[at[d]] # <<>>
         /\ applied[at[d]][Len(applied[at[d]])] = release[d][at[d]]
    /\ pc[d] = "commit" => at[d] \notin Ddl

IInv == TypeOK /\ OneDeployer /\ LogTellsWhatRan /\ LockIsGivenBack /\ Behind /\ Here

Working == {"load", "lookup", "unlock"} \union InTry

(* What a statement does to the database, whether or not it took effect. *)
LEMMA Effects ==
  ASSUME IInv, NEW d \in Deployers, Effect(d) \/ UNCHANGED db
  PROVE  /\ lockTable' \in BOOLEAN /\ logTable' \in BOOLEAN
         /\ lock' \in {"absent", "free", "held"}
         /\ log' \in [Files -> Seq(Contents)]
         /\ applied' \in [Files -> Seq(Contents)]
         /\ LogTellsWhatRan'
         /\ log' # log \/ applied' # applied => pc[d] \in InTry
         /\ lock = "held" /\ lock' # "held" => pc[d] = "unlock"
<1>1. CASE UNCHANGED db
  BY <1>1 DEF IInv, TypeOK, db, LogTellsWhatRan
<1>2. CASE Effect(d) /\ pc[d] \notin InTry
  <2>1. UNCHANGED <<log, applied>>
    BY <1>2 DEF Effect, InTry
  <2> QED
    BY <1>2, <2>1 DEF Effect, IInv, TypeOK, LogTellsWhatRan, Unlocked, InTry
<1>3. CASE Effect(d) /\ pc[d] \in InTry
  <2> DEFINE f == at[d]
             c == release[d][f]
  <2>1. f \in Files /\ c \in Contents /\ log[f] = <<>>
    BY <1>3 DEF IInv, Behind, Here, AtFile
  <2>2. log \in [Files -> Seq(Contents)] /\ applied \in [Files -> Seq(Contents)]
    BY DEF IInv, TypeOK
  <2>3. UNCHANGED <<lockTable, logTable, lock>>
    BY <1>3 DEF Effect, InTry
  <2>4. CASE pc[d] = "run"
    <3>1. f \in Ddl /\ log' = log /\ applied' = [applied EXCEPT ![f] = Append(@, c)]
      BY <1>3, <2>4 DEF Effect, OutsideTransaction
    <3>2. Append(applied[f], c) \in Seq(Contents)
      BY <2>1, <2>2
    <3>3. LogTellsWhatRan'
      BY <2>1, <2>2, <3>1 DEF LogTellsWhatRan, IInv
    <3> QED
      BY <1>3, <2>1, <2>2, <2>3, <3>1, <3>2, <3>3 DEF IInv, TypeOK
  <2>5. CASE pc[d] = "record"
    <3>1. f \in Ddl /\ applied' = applied /\ log' = [log EXCEPT ![f] = Append(@, c)]
      BY <1>3, <2>5 DEF Effect, OutsideTransaction
    <3>2. Append(log[f], c) = <<c>> /\ <<c>> \in Seq(Contents)
      BY <2>1
    <3>3. applied[f] # <<>> /\ applied[f][Len(applied[f])] = c
      BY <2>5, <3>1 DEF IInv, Here
    <3>4. LogTellsWhatRan'
      BY <2>1, <2>2, <3>1, <3>2, <3>3 DEF LogTellsWhatRan, IInv
    <3> QED
      BY <1>3, <2>1, <2>2, <2>3, <3>1, <3>2, <3>4 DEF IInv, TypeOK
  <2>6. CASE pc[d] = "commit"
    <3>1. /\ log' = [log EXCEPT ![f] = Append(@, c)]
          /\ applied' = [applied EXCEPT ![f] = Append(@, c)]
      BY <1>3, <2>6 DEF Effect
    <3>2. f \notin Ddl
      BY <2>6 DEF IInv, Here
    <3>3. applied[f] = <<>>
      BY <2>1, <3>2 DEF IInv, LogTellsWhatRan
    <3>4. Append(log[f], c) = <<c>> /\ Append(applied[f], c) = <<c>>
      BY <2>1, <3>3
    <3>5. Len(<<c>>) = 1 /\ <<c>> # <<>> /\ <<c>>[1] = c /\ <<c>> \in Seq(Contents)
      BY <2>1
    <3>6. LogTellsWhatRan'
      BY <2>1, <2>2, <3>1, <3>4, <3>5 DEF LogTellsWhatRan, IInv
    <3> QED
      BY <1>3, <2>1, <2>2, <2>3, <3>1, <3>4, <3>5, <3>6 DEF IInv, TypeOK
  <2> QED
    BY <1>3, <2>4, <2>5, <2>6 DEF InTry
<1> QED
  BY <1>1, <1>2, <1>3

(* A step of d keeps the invariant when d itself is where it may be.       *)
(* When d comes to work it takes the lock, and others then do not work.    *)
LEMMA Preserved ==
  ASSUME IInv, NEW d \in Deployers, Effect(d) \/ UNCHANGED db,
         NEW p \in {"idle"} \union Statements, pc' = [pc EXCEPT ![d] = p],
         release' \in [Deployers -> [Files -> Contents \union {None}]],
         at' \in [Deployers -> 0..NumFiles],
         \A e \in Deployers : e # d => release'[e] = release[e] /\ at'[e] = at[e],
         abandoned' \in BOOLEAN, deployments' \in 0..MaxDeployments,
         p \in Working => lock' = "held" /\ (Critical(d) \/ lock # "held"),
         abandoned => abandoned',
         lock' = "held" /\ (Critical(d) \/ lock # "held") => p \in Working \/ abandoned',
         p \in {"lookup"} \union InTry =>
           /\ at'[d] \in Files
           /\ release'[d][at'[d]] \in Contents
           /\ \A g \in 1..(at'[d] - 1) :
                release'[d][g] # None => log'[g] = <<release'[d][g]>>,
         p \in InTry => log'[at'[d]] = <<>>,
         p = "record" /\ at'[d] \in Ddl =>
           /\ applied'[at'[d]] # <<>>
           /\ applied'[at'[d]][Len(applied'[at'[d]])] = release'[d][at'[d]],
         p = "commit" => at'[d] \notin Ddl
  PROVE  IInv'
<1>1. /\ pc' \in [Deployers -> {"idle"} \union Statements]
      /\ pc'[d] = p
      /\ \A e \in Deployers : e # d => pc'[e] = pc[e]
  BY DEF IInv, TypeOK
<1>2. TypeOK'
  BY <1>1, Effects DEF IInv, TypeOK
<1>3. LogTellsWhatRan'
  BY Effects
<1>4. \A e \in Deployers : Critical(e) <=> pc[e] \in Working
  BY DEF Critical, Working
<1>5. \A e \in Deployers : Critical(e)' <=> pc'[e] \in Working
  BY DEF Critical, Working
<1>6. \A e \in Deployers : e # d /\ Critical(e) =>
        ~Critical(d) /\ lock = "held" /\ lock' = "held" /\ log' = log /\ applied' = applied
  <2> SUFFICES ASSUME NEW e \in Deployers, e # d, Critical(e)
               PROVE  ~Critical(d) /\ lock = "held" /\ lock' = "held" /\ log' = log /\ applied' = applied
    OBVIOUS
  <2>1. ~Critical(d) /\ lock = "held"
    BY DEF IInv, OneDeployer
  <2>2. pc[d] # "unlock" /\ pc[d] \notin InTry
    BY <2>1, <1>4 DEF Working
  <2> QED
    BY <2>1, <2>2, Effects
<1>7. OneDeployer'
  <2> SUFFICES ASSUME NEW e \in Deployers, Critical(e)', NEW x \in Deployers, Critical(x)'
               PROVE  lock' = "held" /\ x = e
    BY DEF OneDeployer
  <2>1. CASE e = d /\ x = d
    BY <2>1, <1>1, <1>5
  <2>2. CASE e # d /\ x # d
    BY <2>2, <1>1, <1>4, <1>5, <1>6 DEF IInv, OneDeployer
  <2>3. CASE e = d /\ x # d
    BY <2>3, <1>1, <1>4, <1>5, <1>6
  <2>4. CASE e # d /\ x = d
    BY <2>4, <1>1, <1>4, <1>5, <1>6
  <2> QED
    BY <2>1, <2>2, <2>3, <2>4
<1>8. LockIsGivenBack'
  <2> SUFFICES ASSUME lock' = "held", ~abandoned'
               PROVE  \E e \in Deployers : Critical(e)'
    BY DEF LockIsGivenBack
  <2>1. CASE lock # "held" \/ Critical(d)
    BY <2>1, <1>1, <1>5
  <2>2. CASE lock = "held" /\ ~Critical(d)
    <3>1. PICK e \in Deployers : Critical(e)
      BY <2>2 DEF IInv, LockIsGivenBack
    <3> QED
      BY <2>2, <3>1, <1>1, <1>4, <1>5
  <2> QED
    BY <2>1, <2>2
<1>9. \A e \in Deployers : e # d /\ pc'[e] \in {"lookup"} \union InTry =>
        pc[e] = pc'[e] /\ log' = log /\ applied' = applied
  BY <1>1, <1>4, <1>6 DEF Working
<1>10. Behind'
  <2> SUFFICES ASSUME NEW e \in Deployers, AtFile(e)'
               PROVE  /\ at'[e] \in Files
                      /\ release'[e][at'[e]] \in Contents
                      /\ \A g \in 1..(at'[e] - 1) :
                           release'[e][g] # None => log'[g] = <<release'[e][g]>>
    BY DEF Behind
  <2>1. CASE e = d
    BY <2>1, <1>1 DEF AtFile
  <2>2. CASE e # d
    BY <2>2, <1>9 DEF AtFile, IInv, Behind
  <2> QED
    BY <2>1, <2>2
<1>11. Here'
  <2> SUFFICES ASSUME NEW e \in Deployers
               PROVE  /\ pc'[e] \in InTry => log'[at'[e]] = <<>>
                      /\ pc'[e] = "record" /\ at'[e] \in Ddl =>
                           /\ applied'[at'[e]] # <<>>
                           /\ applied'[at'[e]][Len(applied'[at'[e]])] = release'[e][at'[e]]
                      /\ pc'[e] = "commit" => at'[e] \notin Ddl
    BY DEF Here
  <2>1. CASE e = d
    BY <2>1, <1>1
  <2>2. CASE e # d
    BY <2>2, <1>9 DEF IInv, Here, InTry
  <2> QED
    BY <2>1, <2>2
<1> QED
  BY <1>2, <1>3, <1>7, <1>8, <1>10, <1>11 DEF IInv

(* A step of d that stays at the script it was at. *)
LEMMA Stays ==
  ASSUME IInv, NEW d \in Deployers, Effect(d) \/ UNCHANGED db,
         NEW p \in {"idle"} \union Statements, Goes(d, p), deployments' \in 0..MaxDeployments,
         p \in Working => lock' = "held" /\ (Critical(d) \/ lock # "held"),
         lock' = "held" /\ (Critical(d) \/ lock # "held") => p \in Working,
         p \in {"lookup"} \union InTry => AtFile(d) /\ log' = log,
         p \in InTry => log[at[d]] = <<>>,
         p = "record" /\ at[d] \in Ddl =>
           applied'[at[d]] = Append(applied[at[d]], release[d][at[d]]),
         p = "commit" => at[d] \notin Ddl
  PROVE  IInv'
<1>1. pc' = [pc EXCEPT ![d] = p] /\ UNCHANGED <<release, at, abandoned>>
  BY DEF Goes
<1>2. /\ release \in [Deployers -> [Files -> Contents \union {None}]]
      /\ at \in [Deployers -> 0..NumFiles]
      /\ abandoned \in BOOLEAN
      /\ applied \in [Files -> Seq(Contents)]
  BY DEF IInv, TypeOK
<1>3. p \in {"lookup"} \union InTry =>
        /\ at[d] \in Files
        /\ release[d][at[d]] \in Contents
        /\ \A g \in 1..(at[d] - 1) : release[d][g] # None => log[g] = <<release[d][g]>>
  BY DEF IInv, Behind
<1>4. p = "record" /\ at[d] \in Ddl =>
        /\ applied'[at[d]] # <<>>
        /\ applied'[at[d]][Len(applied'[at[d]])] = release[d][at[d]]
  <2> SUFFICES ASSUME p = "record", at[d] \in Ddl
               PROVE  /\ applied'[at[d]] # <<>>
                      /\ applied'[at[d]][Len(applied'[at[d]])] = release[d][at[d]]
    OBVIOUS
  <2>1. applied[at[d]] \in Seq(Contents) /\ release[d][at[d]] \in Contents
    BY <1>2, <1>3 DEF InTry
  <2> QED
    BY <2>1
<1> QED
  BY <1>1, <1>2, <1>3, <1>4, Preserved DEF InTry

(* The each that goes on has the scripts up to f of its release in the log. *)
LEMMA GoesOn ==
  ASSUME IInv, NEW d \in Deployers, Effect(d) \/ UNCHANGED db,
         NEW r \in [Files -> Contents \union {None}], NEW f \in 0..NumFiles, GoOn(d, r, f),
         release' \in [Deployers -> [Files -> Contents \union {None}]],
         \A e \in Deployers : e # d => release'[e] = release[e], release'[d] = r,
         Critical(d), lock' = "held",
         \A g \in 1..f : r[g] # None => log'[g] = <<r[g]>>
  PROVE  IInv'
<1>1. /\ at \in [Deployers -> 0..NumFiles]
      /\ abandoned \in BOOLEAN /\ deployments \in 0..MaxDeployments
  BY DEF IInv, TypeOK
<1>2. CASE Rest(r, f) = {} /\ pc' = [pc EXCEPT ![d] = "unlock"] /\ UNCHANGED at
  BY <1>1, <1>2, Preserved DEF GoOn, Working, Statements, InTry
<1>3. CASE \E g \in Rest(r, f) : /\ \A h \in Rest(r, f) : g <= h
                                 /\ pc' = [pc EXCEPT ![d] = "lookup"]
                                 /\ at' = [at EXCEPT ![d] = g]
  <2>1. PICK g \in Rest(r, f) : /\ \A h \in Rest(r, f) : g <= h
                                /\ pc' = [pc EXCEPT ![d] = "lookup"]
                                /\ at' = [at EXCEPT ![d] = g]
    BY <1>3
  <2>2. g \in Files /\ r[g] \in Contents
    BY DEF Rest
  <2>3. \A h \in 1..(g - 1) : r[h] # None => log'[h] = <<r[h]>>
    <3> SUFFICES ASSUME NEW h \in 1..(g - 1), r[h] # None
                 PROVE  log'[h] = <<r[h]>>
      OBVIOUS
    <3>1. h \in Files /\ h < g
      BY <2>2 DEF Files
    <3>2. h \notin Rest(r, f)
      BY <2>1, <2>2, <3>1 DEF Files
    <3> QED
      BY <3>1, <3>2 DEF Rest, Files
  <2>4. /\ at' \in [Deployers -> 0..NumFiles] /\ at'[d] = g
        /\ \A e \in Deployers : e # d => at'[e] = at[e]
    BY <1>1, <2>1, <2>2 DEF Files
  <2> QED
    BY <1>1, <2>1, <2>2, <2>3, <2>4, Preserved DEF GoOn, Working, Statements, InTry
<1> QED
  BY <1>2, <1>3 DEF GoOn
-----------------------------------------------------------------------------
(* One step per action keeps the invariant. *)
LEMMA StartKeeps ==
  ASSUME IInv, NEW d \in Deployers, Start(d)
  PROVE  IInv'
<1>1. UNCHANGED db /\ ~Critical(d) /\ Goes(d, "check") /\ lock' = lock
  BY DEF Start, Critical, InTry, db
<1>2. deployments' \in 0..MaxDeployments
  BY DEF Start, IInv, TypeOK
<1>3. "check" \in {"idle"} \union Statements /\ "check" \notin Working \union {"lookup"} \union InTry
  BY DEF Statements, Working, InTry
<1> QED
  BY <1>1, <1>2, <1>3, Stays DEF InTry

LEMMA CreatesKeep ==
  ASSUME IInv, NEW d \in Deployers, CheckExisting(d) \/ CreateIfNotExists(d)
  PROVE  IInv'
<1>1. deployments' \in 0..MaxDeployments /\ ~Critical(d)
  BY DEF CheckExisting, CreateIfNotExists, IInv, TypeOK, Critical, InTry, Creating
<1>2. lock' = "held" => lock = "held"
  BY DEF CheckExisting, CreateIfNotExists, Effect, Creating, db
<1>3. PICK p \in Creating \union {"update lock"} : Goes(d, p)
  BY DEF CheckExisting, CreateIfNotExists, Creating
<1>4. p \in {"idle"} \union Statements /\ p \notin Working \union {"lookup"} \union InTry
  BY DEF Creating, Statements, Working, InTry
<1>5. Effect(d) \/ UNCHANGED db
  BY DEF CheckExisting, CreateIfNotExists
<1> QED
  BY <1>1, <1>2, <1>3, <1>4, <1>5, Stays DEF InTry

LEMMA TryToLockKeeps ==
  ASSUME IInv, NEW d \in Deployers, TryToLock(d)
  PROVE  IInv'
<1>1. deployments' \in 0..MaxDeployments /\ ~Critical(d)
  BY DEF TryToLock, IInv, TypeOK, Critical, InTry
<1>2. CASE pc[d] \in {"update lock", "insert lock"} /\ Effect(d) /\ Goes(d, "load")
  <2>1. lock # "held" /\ lock' = "held"
    BY <1>2 DEF Effect, Unlocked
  <2> QED
    BY <1>1, <1>2, <2>1, Stays DEF Statements, Working, InTry
<1>3. CASE pc[d] = "update lock" /\ Goes(d, "insert lock") /\ UNCHANGED db
  <2>1. lock' = lock
    BY <1>3 DEF db
  <2> QED
    BY <1>1, <1>3, <2>1, Stays DEF Statements, Working, InTry
<1> QED
  BY <1>2, <1>3 DEF TryToLock

LEMMA LoadScriptsKeeps ==
  ASSUME IInv, NEW d \in Deployers, LoadScripts(d)
  PROVE  IInv'
<1>1. PICK r \in Releases : release' = [release EXCEPT ![d] = r] /\ GoOn(d, r, 0)
  BY DEF LoadScripts
<1>2. UNCHANGED db /\ Critical(d) /\ lock' = "held"
  BY DEF LoadScripts, Critical, IInv, OneDeployer, db
<1>3. /\ release' \in [Deployers -> [Files -> Contents \union {None}]] /\ release'[d] = r
      /\ \A e \in Deployers : e # d => release'[e] = release[e]
  BY <1>1 DEF IInv, TypeOK
<1> QED
  BY <1>1, <1>2, <1>3, GoesOn

LEMMA SelectMd5Keeps ==
  ASSUME IInv, NEW d \in Deployers, SelectMd5(d)
  PROVE  IInv'
<1>1. UNCHANGED db /\ Critical(d) /\ AtFile(d) /\ pc[d] = "lookup"
  BY DEF SelectMd5, Critical, AtFile
<1>2. lock' = "held" /\ log' = log
  BY <1>1 DEF IInv, OneDeployer, db
<1>3. CASE NotFound(d) /\ Goes(d, "run") /\ UNCHANGED deployments
  BY <1>1, <1>2, <1>3, Stays DEF NotFound, Statements, Working, InTry, IInv, TypeOK
<1>4. CASE Semaphore(d) /\ UNCHANGED deployments
  BY <1>1, <1>2, <1>4, Stays DEF Semaphore, Statements, Working, InTry, IInv, TypeOK
<1>5. CASE ~NotFound(d) /\ SameMd5(d) /\ GoOn(d, release[d], at[d]) /\ UNCHANGED release
  <2> DEFINE f == at[d]
             c == release[d][f]
  <2>1. f \in Files /\ c \in Contents /\ f \in 0..NumFiles
    BY <1>1 DEF IInv, Behind, Files
  <2>2. log[f] \in Seq(Contents) /\ Len(log[f]) <= 1 /\ log[f] # <<>> /\ log[f][1] = c
    BY <1>5, <2>1 DEF IInv, TypeOK, LogTellsWhatRan, NotFound, SameMd5
  <2>3. log[f] = <<c>>
    BY <2>2
  <2>4. \A g \in 1..f : release[d][g] # None => log'[g] = <<release[d][g]>>
    BY <1>1, <1>2, <2>1, <2>3 DEF IInv, Behind, Files
  <2> QED
    BY <1>1, <1>2, <1>5, <2>1, <2>4, GoesOn DEF IInv, TypeOK
<1> QED
  BY <1>3, <1>4, <1>5 DEF SelectMd5

LEMMA ExecuteKeeps ==
  ASSUME IInv, NEW d \in Deployers, Execute(d)
  PROVE  IInv'
<1>1. /\ Effect(d) \/ UNCHANGED db
      /\ Goes(d, "record") /\ Critical(d) /\ AtFile(d) /\ pc[d] = "run"
      /\ deployments' \in 0..MaxDeployments /\ log[at[d]] = <<>>
      /\ at[d] \in Files /\ applied \in [Files -> Seq(Contents)]
  BY DEF Execute, Critical, AtFile, InTry, IInv, TypeOK, Here, Behind
<1>2. lock' = "held" /\ log' = log
  BY <1>1 DEF IInv, OneDeployer, Effect, db
<1>3. at[d] \in Ddl => applied'[at[d]] = Append(applied[at[d]], release[d][at[d]])
  BY <1>1 DEF Execute, Effect, OutsideTransaction
<1> QED
  BY <1>1, <1>2, <1>3, Stays DEF Statements, Working, InTry

LEMMA RecordKeeps ==
  ASSUME IInv, NEW d \in Deployers, Record(d) \/ Commit(d)
  PROVE  IInv'
<1>1. /\ Effect(d) \/ UNCHANGED db
      /\ Critical(d) /\ AtFile(d) /\ pc[d] \in {"record", "commit"}
      /\ log[at[d]] = <<>> /\ log \in [Files -> Seq(Contents)]
      /\ at[d] \in Files /\ at[d] \in 0..NumFiles /\ release[d][at[d]] \in Contents
      /\ release \in [Deployers -> [Files -> Contents \union {None}]]
      /\ deployments \in 0..MaxDeployments
  BY DEF Record, Commit, Critical, AtFile, InTry, IInv, TypeOK, Here, Behind
<1>2. lock' = "held"
  BY <1>1 DEF IInv, OneDeployer, Effect, db
<1>3. CASE UNCHANGED db /\ ~OutsideTransaction(at[d]) /\ Goes(d, "commit") /\ UNCHANGED deployments
  <2>1. log' = log /\ at[d] \notin Ddl
    BY <1>3 DEF db, OutsideTransaction
  <2> QED
    BY <1>1, <1>2, <1>3, <2>1, Stays DEF Statements, Working, InTry
<1>4. CASE /\ Effect(d) /\ GoOn(d, release[d], at[d]) /\ UNCHANGED release
  <2>1. log' = [log EXCEPT ![at[d]] = Append(@, release[d][at[d]])]
    BY <1>1, <1>4 DEF Effect
  <2>2. \A g \in 1..at[d] : release[d][g] # None => log'[g] = <<release[d][g]>>
    <3> SUFFICES ASSUME NEW g \in 1..at[d], release[d][g] # None
                 PROVE  log'[g] = <<release[d][g]>>
      OBVIOUS
    <3>1. Append(log[at[d]], release[d][at[d]]) = <<release[d][at[d]]>>
      BY <1>1
    <3>2. CASE g = at[d]
      BY <1>1, <2>1, <3>1, <3>2
    <3>3. CASE g # at[d]
      <4>1. g \in 1..(at[d] - 1) /\ g \in Files
        BY <1>1, <3>3 DEF Files
      <4> QED
        BY <1>1, <2>1, <3>3, <4>1 DEF IInv, Behind
    <3> QED
      BY <3>2, <3>3
  <2> QED
    BY <1>1, <1>2, <1>4, <2>2, GoesOn
<1> QED
  BY <1>3, <1>4 DEF Record, Commit

(* A deployer that ends, and is counted when it ends with the lock. *)
LEMMA EndsKeeps ==
  ASSUME IInv, NEW d \in Deployers, Effect(d) \/ UNCHANGED db, Ends(d), UNCHANGED deployments,
         abandoned' \in BOOLEAN, abandoned => abandoned',
         lock' = "held" /\ (Critical(d) \/ lock # "held") => abandoned'
  PROVE  IInv'
<1>1. NoRelease \in [Files -> Contents \union {None}] /\ 0 \in 0..NumFiles
  BY DEF NoRelease
<1>2. /\ release' \in [Deployers -> [Files -> Contents \union {None}]]
      /\ at' \in [Deployers -> 0..NumFiles]
      /\ \A e \in Deployers : e # d => release'[e] = release[e] /\ at'[e] = at[e]
      /\ deployments' \in 0..MaxDeployments
  BY <1>1 DEF Ends, IInv, TypeOK
<1>3. "idle" \notin Working \union {"lookup"} \union InTry
  BY DEF Working, InTry
<1> QED
  BY <1>2, <1>3, Preserved DEF Ends, InTry

LEMMA FailsKeeps ==
  ASSUME IInv, NEW d \in Deployers, Unlock(d) \/ Fails(d) \/ Crash(d)
  PROVE  IInv'
<1>1. CASE Unlock(d)
  <2>1. Effect(d) /\ Ends(d) /\ UNCHANGED <<abandoned, deployments>> /\ lock' = "free"
    BY <1>1 DEF Unlock, Effect
  <2> QED
    BY <2>1, EndsKeeps DEF IInv, TypeOK
<1>2. CASE /\ Effect(d) \/ UNCHANGED db
           /\ Abandons(d) /\ UNCHANGED deployments
  <2>1. /\ abandoned' \in BOOLEAN /\ (abandoned => abandoned')
        /\ lock' = "held" /\ (Critical(d) \/ lock # "held") => abandoned'
    BY <1>2 DEF Abandons, EndsWithLock, IInv, TypeOK
  <2> QED
    BY <1>2, <2>1, EndsKeeps DEF Abandons
<1>3. CASE /\ Effect(d) \/ UNCHANGED db
           /\ pc[d] = "check" /\ Goes(d, "create lock") /\ UNCHANGED deployments
  <2>1. ~Critical(d) /\ lock' = lock
    BY <1>3 DEF Critical, InTry, Effect, db
  <2> QED
    BY <1>3, <2>1, Stays DEF Statements, Creating, Working, InTry, IInv, TypeOK
<1>4. CASE /\ Effect(d) \/ UNCHANGED db
           /\ pc[d] \in InTry /\ Semaphore(d) /\ UNCHANGED deployments
  <2>1. Critical(d) /\ lock' = "held"
    BY <1>4 DEF Critical, InTry, Effect, db, IInv, OneDeployer
  <2> QED
    BY <1>4, <2>1, Stays DEF Semaphore, Statements, Working, InTry, IInv, TypeOK
<1> QED
  BY <1>1, <1>2, <1>3, <1>4 DEF Fails, Crash

LEMMA OperatorKeeps ==
  ASSUME IInv, OperatorUnlocks
  PROVE  IInv'
<1>1. UNCHANGED <<lockTable, logTable, log, applied, pc, release, at, deployments>>
      /\ lock' = "free" /\ abandoned' = FALSE
  BY DEF OperatorUnlocks
<1>2. /\ TypeOK'
      /\ LogTellsWhatRan'
      /\ LockIsGivenBack'
      /\ Behind' /\ Here'
  <2>1. TypeOK'
    BY <1>1 DEF IInv, TypeOK
  <2>2. LogTellsWhatRan' /\ LockIsGivenBack'
    BY <1>1 DEF IInv, LogTellsWhatRan, LockIsGivenBack
  <2>3. Behind' /\ Here'
    BY <1>1 DEF IInv, Behind, Here, AtFile
  <2> QED
    BY <2>1, <2>2, <2>3
<1>3. OneDeployer'
  BY <1>1 DEF OneDeployer, OperatorUnlocks, Critical
<1> QED
  BY <1>2, <1>3 DEF IInv

LEMMA InitHolds ==
  ASSUME Init
  PROVE  IInv
<1>1. NoRelease \in [Files -> Contents \union {None}] /\ 0 \in 0..NumFiles /\ 0 \in 0..MaxDeployments
  BY DEF NoRelease
<1>2. TypeOK
  <2>1. <<>> \in Seq(Contents)
    OBVIOUS
  <2>2. log \in [Files -> Seq(Contents)] /\ applied \in [Files -> Seq(Contents)]
    BY <2>1 DEF Init
  <2> QED
    BY <1>1, <2>2 DEF Init, TypeOK
<1>3. OneDeployer /\ LockIsGivenBack /\ Behind /\ Here
  BY DEF Init, OneDeployer, LockIsGivenBack, Behind, Here, AtFile, Critical, InTry
<1>4. LogTellsWhatRan
  BY DEF Init, LogTellsWhatRan
<1> QED
  BY <1>2, <1>3, <1>4 DEF IInv

LEMMA NextHolds ==
  ASSUME IInv, [Next]_vars
  PROVE  IInv'
<1>1. CASE UNCHANGED vars
  <2>1. UNCHANGED <<lockTable, logTable, lock, log, applied, pc, release, at, abandoned,
                    deployments>>
    BY <1>1 DEF vars, db
  <2>2. TypeOK' /\ LogTellsWhatRan'
    BY <2>1 DEF IInv, TypeOK, LogTellsWhatRan
  <2>3. OneDeployer' /\ LockIsGivenBack'
    BY <2>1 DEF IInv, OneDeployer, LockIsGivenBack, Critical
  <2>4. Behind' /\ Here'
    BY <2>1 DEF IInv, Behind, Here, AtFile
  <2> QED
    BY <2>2, <2>3, <2>4 DEF IInv
<1>2. CASE OperatorUnlocks
  BY <1>2, OperatorKeeps
<1>3. CASE \E d \in Deployers : Start(d) \/ Deploy(d) \/ Crash(d)
  <2> PICK d \in Deployers : Start(d) \/ Deploy(d) \/ Crash(d)
    BY <1>3
  <2> QED
    BY StartKeeps, CreatesKeep, TryToLockKeeps, LoadScriptsKeeps, SelectMd5Keeps,
       ExecuteKeeps, RecordKeeps, FailsKeeps DEF Deploy
<1> QED
  BY <1>1, <1>2, <1>3 DEF Next

(* The invariant holds in every state of the specification. *)
THEOREM Invariant == Spec => []IInv
BY InitHolds, NextHolds, PTL DEF Spec

(* The variables keep their types, whatever the instance. *)
THEOREM Typed == Spec => []TypeOK
<1>1. IInv => TypeOK
  BY DEF IInv
<1> QED
  BY <1>1, Invariant, PTL

(* At most one deployer works under the lock, for any number of deployers  *)
(* that start on a database without tables, crash and start again.         *)
THEOREM Exclusive == Spec => []OneDeployer
<1>1. IInv => OneDeployer
  BY DEF IInv
<1> QED
  BY <1>1, Invariant, PTL

(* The log holds a file once, with what was executed last, and a DML       *)
(* script had its effect exactly when it is there, for any releases.       *)
THEOREM Tells == Spec => []LogTellsWhatRan
<1>1. IInv => LogTellsWhatRan
  BY DEF IInv
<1> QED
  BY <1>1, Invariant, PTL

(* Only a crash, or an error outside of the script's try, leaves the lock. *)
THEOREM GivenBack == Spec => []LockIsGivenBack
<1>1. IInv => LockIsGivenBack
  BY DEF IInv
<1> QED
  BY <1>1, Invariant, PTL

(* Only the effect of a statement changes the log and the scripts' effects. *)
LEMMA OnlyStatements ==
  ASSUME [Next]_vars, log' # log \/ applied' # applied
  PROVE  \E d \in Deployers : Effect(d) /\ pc[d] \in InTry
<1>1. PICK d \in Deployers : Start(d) \/ Deploy(d) \/ Crash(d)
  BY DEF Next, OperatorUnlocks, vars, db
<1>2. Effect(d)
  BY <1>1 DEF Start, Deploy, CheckExisting, CreateIfNotExists, TryToLock, LoadScripts, SelectMd5,
              Execute, Record, Commit, Unlock, Fails, Crash, db
<1>3. pc[d] \in InTry
  BY <1>2 DEF Effect, InTry
<1> QED
  BY <1>2, <1>3

(* No deployment, of whatever release, executes again what is in the log.  *)
THEOREM Final == Spec => RecordedIsFinal
<1>1. ASSUME IInv, [Next]_vars
      PROVE  [\A f \in Files : log[f] # <<>> => applied'[f] = applied[f] /\ log'[f] = log[f]]_vars
  <2> SUFFICES ASSUME NEW f \in Files, log[f] # <<>>
               PROVE  applied'[f] = applied[f] /\ log'[f] = log[f]
    OBVIOUS
  <2>1. CASE log' = log /\ applied' = applied
    BY <2>1
  <2>2. CASE log' # log \/ applied' # applied
    <3>1. PICK d \in Deployers : Effect(d) /\ pc[d] \in InTry
      BY <1>1, <2>2, OnlyStatements
    <3>2. at[d] # f
      BY <1>1, <3>1 DEF IInv, Here
    <3> QED
      BY <1>1, <3>1, <3>2 DEF Effect, InTry, IInv, TypeOK
  <2> QED
    BY <2>1, <2>2
<1> QED
  BY <1>1, Invariant, PTL DEF Spec, RecordedIsFinal

(* A script has its effect only after those its release lists before it    *)
(* are in the log as listed, for any releases.                             *)
THEOREM Ordered == Spec => InReleaseOrder
<1>1. ASSUME IInv, [Next]_vars
      PROVE  [\A f \in Files : applied'[f] # applied[f] =>
                \E d \in Deployers :
                  /\ at[d] = f
                  /\ \A g \in 1..(f - 1) :
                       release[d][g] # None => log[g] = <<release[d][g]>>]_vars
  <2> SUFFICES ASSUME NEW f \in Files, applied'[f] # applied[f]
               PROVE  \E d \in Deployers :
                        /\ at[d] = f
                        /\ \A g \in 1..(f - 1) :
                             release[d][g] # None => log[g] = <<release[d][g]>>
    OBVIOUS
  <2>1. PICK d \in Deployers : Effect(d) /\ pc[d] \in InTry
    BY <1>1, OnlyStatements
  <2>2. at[d] = f
    BY <1>1, <2>1 DEF Effect, InTry, IInv, TypeOK
  <2> QED
    BY <1>1, <2>1, <2>2 DEF IInv, Behind, AtFile
<1> QED
  BY <1>1, Invariant, PTL DEF Spec, InReleaseOrder
=============================================================================
