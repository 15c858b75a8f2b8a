----------------------------- MODULE Definitions -----------------------------
(***************************************************************************)
(* From the texts of definitions to the pipelines that run: the start of   *)
(* the server reads every definition, performs the startup pipelines and   *)
(* registers the others (init, repo and dynamic-module); afterwards trigger*)
(* steps perform pipelines by code or by a content of their own, with a    *)
(* cache of what was parsed (trigger-pipeline-step.ts).                    *)
(*                                                                         *)
(* The start runs alone.  Trigger steps interleave at the await of their   *)
(* reader; what is between two waits is one action.                        *)
(***************************************************************************)
EXTENDS ServedDefinitions

CONSTANT Requests    (* what a trigger is given: code, content and cacheKey   *)

VARIABLES
  read,              (* how many of the sources were read                      *)
  stepMap,           (* the codes of the steps read                            *)
  pipelineMap,       (* the codes of the pipelines read                        *)
  stepBuilders,      (* PipelineRepository.STEP_BUILDERS                       *)
  initPipelines,     (* the startup pipelines still to perform                 *)
  serverPipelines,   (* the pipelines to serve                                 *)
  cache              (* PIPELINE_CACHE: the content its md5 is of, and its def *)

start == <<read, stepMap, pipelineMap, initPipelines, serverPipelines, initialized>>
builders == <<stepBuilders, pipelineBuilders>>
vars == <<env, sources, phase, start, builders, trigger, cache>>

None == [is |-> "none"]
EmptyMap == [c \in {} |-> None]
Put(map, key, value) ==
  [k \in DOMAIN map \union {key} |-> IF k = key THEN value ELSE map[k]]

Init ==
  /\ env \in Environments
  /\ sources \in SourceLists
  /\ phase = "reading"
  /\ read = 0
  /\ stepMap = {} /\ pipelineMap = {}
  /\ stepBuilders = EmptyMap /\ pipelineBuilders = EmptyMap
  /\ initPipelines = <<>> /\ serverPipelines = <<>> /\ initialized = <<>>
  /\ trigger = [t \in Triggers |-> [at |-> "idle", request |-> None, pipeline |-> None]]
  /\ cache = EmptyMap
-----------------------------------------------------------------------------
(* load: parse, redress, read. *)
Load(text) ==
  LET def == Definition[text]
  IN IF def = Malformed THEN Malformed
     ELSE [def EXCEPT !.given = RedressedIn(env, def.given)]

Enabled(defs) == {k \in DOMAIN defs : defs[k].enabled}

Fail ==
  /\ phase' = "failed"
  /\ UNCHANGED <<start, builders>>

(* parseDef of a step: a disabled one is ignored, a second one of its code *)
(* ends the start.                                                         *)
ParseStep(def) ==
  CASE ~def.enabled -> UNCHANGED <<phase, stepMap, pipelineMap, initPipelines,
                                   serverPipelines, initialized, builders>>
    [] def.enabled /\ def.code \in stepMap ->
         phase' = "failed" /\ UNCHANGED <<stepMap, pipelineMap, initPipelines,
                                          serverPipelines, initialized, builders>>
    [] OTHER ->
         /\ stepBuilders' = Put(stepBuilders, def.code, def)
         /\ stepMap' = stepMap \union {def.code}
         /\ UNCHANGED <<phase, pipelineMap, initPipelines, serverPipelines,
                        initialized, pipelineBuilders>>

\* Mutant: the code of a pipeline is not remembered.
ParsePipelineForgotten(def) ==
  IF def.code \in pipelineMap
  THEN phase' = "failed" /\ UNCHANGED <<pipelineMap, initPipelines, serverPipelines>>
  ELSE /\ IF def.initOnly
          THEN initPipelines' = Append(initPipelines, def) /\ UNCHANGED serverPipelines
          ELSE serverPipelines' = Append(serverPipelines, def) /\ UNCHANGED initPipelines
       /\ UNCHANGED <<phase, pipelineMap>>

(* parseDef of a pipeline: a second one of its code ends the start, a      *)
(* disabled one counts.                                                    *)
ParsePipeline(def) ==
  IF def.code \in pipelineMap
  THEN phase' = "failed" /\ UNCHANGED <<pipelineMap, initPipelines, serverPipelines>>
  ELSE /\ IF def.initOnly
          THEN initPipelines' = Append(initPipelines, def) /\ UNCHANGED serverPipelines
          ELSE serverPipelines' = Append(serverPipelines, def) /\ UNCHANGED initPipelines
       /\ pipelineMap' = pipelineMap \union {def.code}
       /\ UNCHANGED phase

(* readDefs, one definition. *)
ReadDef ==
  /\ phase = "reading" /\ read < Len(sources)
  /\ LET def == Load(sources[read + 1])
     IN IF def = Malformed THEN Fail
        ELSE /\ read' = read + 1
             /\ IF IsStep(def) THEN ParseStep(def)
                ELSE /\ ParsePipeline(def)
                     /\ UNCHANGED <<stepMap, initialized, builders>>
  /\ UNCHANGED <<env, sources, trigger, cache>>

(* executeInitPipelines: the disabled ones are left out. *)
ExecuteInitPipelines ==
  /\ phase = "reading" /\ read = Len(sources)
  /\ phase' = "initializing"
  /\ initPipelines' = Filtered(initPipelines, Enabled(initPipelines))
  /\ UNCHANGED <<env, sources, read, stepMap, pipelineMap, serverPipelines,
                 initialized, builders, trigger, cache>>

(* putStep and putPipeline, one after the other: of the definitions at     *)
(* these places the last one of a code stays.                              *)
Registered(builder, defs, places) ==
  LET codes == {defs[k].code : k \in places}
      last(c) == CHOOSE k \in places : /\ defs[k].code = c
                                       /\ \A j \in places : defs[j].code = c => j <= k
  IN [c \in DOMAIN builder \union codes |-> IF c \in codes THEN defs[last(c)] ELSE builder[c]]

(* The snippets of a startup pipeline register what its texts say, after   *)
(* all of them were read.                                                  *)
PerformInitPipeline ==
  /\ phase = "initializing" /\ initPipelines # <<>>
  /\ LET def == Head(initPipelines)
         defs == [k \in 1..Len(def.registers) |-> Load(def.registers[k])]
     IN IF def.fails \/ \E k \in DOMAIN defs : defs[k] = Malformed THEN Fail
        ELSE /\ stepBuilders' = Registered(stepBuilders, defs, {k \in DOMAIN defs : IsStep(defs[k])})
             /\ serverPipelines' = serverPipelines
                  \o Filtered(defs, {k \in Enabled(defs) : ~IsStep(defs[k])})
             /\ initPipelines' = Tail(initPipelines)
             /\ initialized' = Append(initialized, def.code)
             /\ UNCHANGED <<phase, read, stepMap, pipelineMap, pipelineBuilders>>
  /\ UNCHANGED <<env, sources, trigger, cache>>

\* Mutant: the startup pipelines are not awaited.
RegisterMyselfAtOnce ==
  /\ phase = "initializing"
  /\ pipelineBuilders' = Registered(pipelineBuilders, serverPipelines, Enabled(serverPipelines))
  /\ phase' = "launched"
  /\ UNCHANGED <<env, sources, start, stepBuilders, trigger, cache>>

(* The end of load, and putPipeline of what is enabled.                 *)
RegisterMyself ==
  /\ phase = "initializing" /\ initPipelines = <<>>
  /\ pipelineBuilders' = Registered(pipelineBuilders, serverPipelines, Enabled(serverPipelines))
  /\ phase' = "launched"
  /\ UNCHANGED <<env, sources, start, stepBuilders, trigger, cache>>
-----------------------------------------------------------------------------
(* A parsed step is wrapped into a pipeline of its own. *)
Wrapped(def) ==
  IF def.type = "pipeline" THEN def
  ELSE [def EXCEPT !.type = "pipeline",
                   !.code = "TemporaryPipelineForStep" \o def.code]

Answer(t, request, def) ==
  trigger' = [trigger EXCEPT ![t] = [at |-> IF def = None THEN "failed" ELSE "performed",
                                     request |-> request, pipeline |-> def]]

\* Mutant: what is kept under the key is of any content.
CachedOfAnyContent(request) ==
  IF request.cacheKey \in DOMAIN cache THEN cache[request.cacheKey].def ELSE None

(* The definition kept under the key, if it is of this content. *)
Cached(request) ==
  IF request.cacheKey \in DOMAIN cache /\ cache[request.cacheKey].md5 = request.content
  THEN cache[request.cacheKey].def
  ELSE None

(* findPipeline up to its first wait. *)
FindPipeline(t, request) ==
  /\ phase = "launched" /\ trigger[t].at \in {"idle", "performed", "failed"}
  /\ CASE request.code # Blank ->
            Answer(t, request, IF request.code \in DOMAIN pipelineBuilders
                               THEN pipelineBuilders[request.code] ELSE None)
       [] request.code = Blank /\ request.content = Blank -> Answer(t, request, None)
       [] request.code = Blank /\ request.content \notin {Blank} \union Texts ->
            Answer(t, request, Wrapped(Definition[request.content]))
       [] OTHER ->
            IF Cached(request) # None THEN Answer(t, request, Cached(request))
            ELSE trigger' = [trigger EXCEPT ![t] = [at |-> "reading", request |-> request,
                                                    pipeline |-> None]]
  /\ UNCHANGED <<env, sources, phase, start, builders, cache>>

(* The reader has come: load, wrap, keep, perform. *)
ReadContent(t) ==
  /\ trigger[t].at = "reading"
  /\ LET request == trigger[t].request
         loaded == Load(request.content)
     IN IF loaded = Malformed
        THEN Answer(t, request, None) /\ UNCHANGED cache
        ELSE /\ Answer(t, request, Wrapped(loaded))
             /\ cache' = IF request.cacheKey = Blank THEN cache
                         ELSE Put(cache, request.cacheKey,
                                  [md5 |-> request.content, def |-> Wrapped(loaded)])
  /\ UNCHANGED <<env, sources, phase, start, builders>>

(* A start that failed ends the process. *)
Failed == phase = "failed" /\ UNCHANGED vars

Next ==
  \/ ReadDef \/ ExecuteInitPipelines \/ PerformInitPipeline \/ RegisterMyself
  \/ \E t \in Triggers : \/ \E request \in Requests : FindPipeline(t, request)
                         \/ ReadContent(t)
  \/ Failed

Spec == Init /\ [][Next]_vars
=============================================================================
