------------------------------- MODULE Planning -------------------------------
(***************************************************************************)
(* POST /generate for the tools that are planned first: listing_photoshoot *)
(* and model_shoot.  The request is checked, its images are uploaded, a    *)
(* vision model plans one prompt for each output, the batch is created,    *)
(* and the worker turns each job into a request to fal.  The tool's row is *)
(* read at the start, for the batch, and for each job, and may be edited   *)
(* between any two of them.  Prices are left to CreditLedger.              *)
(*                                                                         *)
(* A definition marked "Slip" is a wrong version of the one below it.      *)
(***************************************************************************)
EXTENDS Naturals, SequencesExt

CONSTANTS
    Asks,           \* the requests, see Ask
    ToolRows,       \* the rows the tool may have, see Tool
    Answers,        \* what the vision model may answer, see Listed and Shot
    MaxShots,       \* MAX_OUTPUT_COUNT of the planned tools
    MaxOutputCount, \* MAX_OUTPUT_COUNT of /generate
    ShotTypes       \* default_shot_types, at least one

\* A request: the tool, where the model's picture comes from, how many
\* uploads and Library images each slot has, in the order of the form, how
\* many references, and the number of outputs (0 if it is not given).  A
\* listing has one slot and no model.
Ask(tool, models, slots, refs, asked) ==
    [tool |-> tool, models |-> models, slots |-> slots, refs |-> refs, asked |-> asked]

Slot(up, lib) == [up |-> up, lib |-> lib]

\* The columns that matter: visible, image limit, default number of outputs,
\* a size for the aspect ratio and resolution, and whether an uncertain age
\* blocks.
Tool(open, maxImages, default, sized, careful) ==
    [open |-> open, maxImages |-> maxImages, default |-> default, sized |-> sized,
     careful |-> careful]

\* Answers of the vision model: a list of n shots (for a listing), a
\* classification with n prompts (for a shoot), text nobody can read, or a
\* value that makes the parser raise an error of another kind.
Listed(n) == [is |-> "shots", n |-> n]
Shot(category, age, n) == [is |-> "plan", category |-> category, age |-> age, n |-> n]
NotJson == [is |-> "unreadable"]
Raising == [is |-> "raising"]

\* What a slot, or the references, may hold.
Slots == [up : Nat, lib : Nat]

ASSUME PlanningAssumption ==
    /\ Asks \subseteq [tool : {"shoot", "listing"}, models : Nat, slots : Seq(Slots),
                       refs : Slots, asked : Nat]
    /\ \A a \in Asks : a.tool = "listing" => a.refs = Slot(0, 0)
    /\ ToolRows \subseteq [open : BOOLEAN, maxImages : Nat, default : Nat,
                           sized : BOOLEAN, careful : BOOLEAN]
    /\ Answers \subseteq [is : {"shots"}, n : Nat]
                        \union [is : {"plan"}, category : STRING, age : STRING, n : Nat]
                        \union {NotJson, Raising}
    /\ MaxShots \in Nat \ {0} /\ MaxOutputCount \in Nat /\ MaxShots <= MaxOutputCount
    /\ ShotTypes # <<>>

VARIABLES
    stage,      \* where the request stands
    ask,        \* the request
    toolRow,    \* the tool's row now
    checked,    \* the row the request was checked with
    labelled,   \* the images in the order the planner numbered them
    answer,     \* what the vision model said
    prompts,    \* the planned prompts
    userLock,   \* the user's generation lock is this request's
    jobs,       \* the batch: the prompt of each job
    sent        \* what fal got for each job

planVars == <<labelled, answer, prompts>>
planningVars == <<stage, ask, toolRow, checked, planVars, userLock, jobs, sent>>

PlanningInit ==
    /\ stage = "new" /\ ask \in Asks /\ toolRow \in ToolRows /\ checked = toolRow
    /\ labelled = <<>> /\ answer = NotJson /\ prompts = <<>>
    /\ userLock = FALSE /\ jobs = <<>> /\ sent = <<>>
-----------------------------------------------------------------------------
(* Images.                                                                 *)

\* The images of a slot (the references are number 0): uploads first, then
\* those of the Library.
ImagesOf(slot, number) ==
    [i \in 1 .. slot.up |-> <<number, "upload", i>>]
        \o [i \in 1 .. slot.lib |-> <<number, "library", i>>]

\* input_params: the model's picture, a group for every slot in use, and the
\* references; a listing has its image_urls only.
ModelImage == <<"model">>
Groups ==
    LET upTo[i \in 0 .. Len(ask.slots)] ==
            IF i = 0 THEN <<>>
            ELSE IF ask.slots[i].up + ask.slots[i].lib > 0 THEN Append(upTo[i - 1], i)
            ELSE upTo[i - 1]
    IN  upTo[Len(ask.slots)]
GarmentUrls(group) == ImagesOf(ask.slots[group], group)
References == ImagesOf(ask.refs, 0)

ImageCount ==
    LET upTo[i \in 0 .. Len(ask.slots)] ==
            IF i = 0 THEN 0 ELSE upTo[i - 1] + ask.slots[i].up + ask.slots[i].lib
    IN  upTo[Len(ask.slots)]

\* plan_model_shoot numbers the images one by one, each slot in its turn.
Labelled ==
    LET next[i \in 0 .. Len(Groups)] ==
            IF i = 0 THEN (IF ask.tool = "shoot" THEN <<ModelImage>> ELSE <<>>)
            ELSE next[i - 1] \o GarmentUrls(Groups[i])
    IN  next[Len(Groups)] \o References

\* flatten_garment_image_urls.
Flattened == FlattenSeq([i \in DOMAIN Groups |-> GarmentUrls(Groups[i])])

\* Slip: the references go before the garments.
SentReferencesFirst ==
    (IF ask.tool = "shoot" THEN <<ModelImage>> ELSE <<>>) \o References \o Flattened

\* _translate_fal_params.
ImagesSent ==
    (IF ask.tool = "shoot" THEN <<ModelImage>> ELSE <<>>) \o Flattened \o References
-----------------------------------------------------------------------------
StageGoes(from, to) == stage = from /\ stage' = to

Outputs(row) == IF ask.asked > 0 THEN ask.asked ELSE row.default

\* The checks of the route that come before the first upload.
Wellformed ==
    /\ toolRow.open
    /\ ask.asked <= MaxOutputCount
    /\ ask.tool = "shoot" =>
          /\ ask.models = 1 /\ ImageCount > 0
          /\ 1 + ImageCount + ask.refs.up + ask.refs.lib <= toolRow.maxImages
    /\ ask.tool = "listing" => ask.asked <= MaxShots /\ ImageCount <= toolRow.maxImages

\* The first read of the tool; a Library image or a preset that is not
\* there is refused here, too.
CheckRequest ==
    /\ \/ Wellformed /\ StageGoes("new", "checked")
       \/ StageGoes("new", "refused")
    /\ checked' = toolRow
    /\ UNCHANGED <<ask, toolRow, planVars, userLock, jobs, sent>>

\* _read_and_upload_images, slot by slot; a file that is too large or of
\* another type ends the request.
Upload ==
    /\ StageGoes("checked", "uploaded") \/ StageGoes("checked", "refused")
    /\ UNCHANGED <<ask, toolRow, checked, planVars, userLock, jobs, sent>>

\* The lock, before the vision call.
LockUser ==
    /\ \/ StageGoes("uploaded", "planning") /\ userLock' = TRUE
       \/ StageGoes("uploaded", "refused") /\ UNCHANGED userLock
    /\ UNCHANGED <<ask, toolRow, checked, planVars, jobs, sent>>

\* _fallback_shots.
FallbackShots(n) ==
    LET types == FlattenSeq([i \in 1 .. (n \div Len(ShotTypes)) + 1 |-> ShotTypes])
    IN  [i \in 1 .. n |-> <<"standard", types[i]>>]

Planned(n) == [i \in 1 .. n |-> <<"planned", i>>]

\* _parse_shots.
ParseShots(a, n) ==
    IF a.is # "shots" \/ a.n = 0 THEN FallbackShots(n)
    ELSE IF a.n > n THEN SubSeq(Planned(a.n), 1, n)
    ELSE Planned(a.n) \o FallbackShots(n - a.n)

BlockingAges(row) ==
    {"underage"} \union (IF row.careful THEN {"adult_uncertain"} ELSE {})

\* _parse_plan.
PlanBlocked(a, row, n) ==
    \/ a.is # "plan"
    \/ a.category \notin {"intimate", "general"}
    \/ a.age \notin {"adult", "underage", "adult_uncertain"}
    \/ a.category = "intimate" /\ a.age \in BlockingAges(row)
    \/ a.n # n

\* The vision model answers, or the call fails: then the lock is freed.
PlanRaises ==
    /\ StageGoes("planning", "refused") /\ userLock' = FALSE
    /\ labelled' = Labelled
    /\ answer' \in {a \in Answers : a.is = "raising"}
    /\ UNCHANGED <<ask, toolRow, checked, prompts, jobs, sent>>

\* plan_listing_shots.
PlanListing ==
    /\ ask.tool = "listing"
    /\ StageGoes("planning", "planned")
    /\ labelled' = Labelled
    /\ answer' \in {a \in Answers : a.is \in {"shots", "unreadable"}}
    /\ prompts' = ParseShots(answer', Outputs(checked))
    /\ UNCHANGED <<ask, toolRow, checked, userLock, jobs, sent>>

\* plan_model_shoot.
PlanShoot ==
    /\ ask.tool = "shoot"
    /\ labelled' = Labelled
    /\ \E a \in Answers :
          /\ a.is \in {"plan", "unreadable"} /\ answer' = a
          /\ IF PlanBlocked(a, checked, Outputs(checked))
             THEN StageGoes("planning", "refused") /\ userLock' = FALSE /\ UNCHANGED prompts
             ELSE /\ StageGoes("planning", "planned") /\ UNCHANGED userLock
                  /\ prompts' = Planned(a.n)
    /\ UNCHANGED <<ask, toolRow, checked, jobs, sent>>

InRange(n) == n \in 1 .. MaxShots

\* create_generation_batch, with the tool's row of that moment: as many jobs
\* as the team can pay, with the first prompts.
CreateBatch ==
    LET n == Len(prompts) IN
    /\ toolRow.open /\ InRange(n) /\ toolRow.sized
    /\ StageGoes("planned", "created")
    /\ \E granted \in 1 .. n :
          jobs' = SubSeq(prompts, 1, granted)
    /\ sent' = [i \in DOMAIN jobs' |-> <<>>]
    /\ UNCHANGED <<ask, toolRow, checked, planVars, userLock>>

\* The tool is closed or has no such size, there are too many outputs, or
\* not even one can be paid.
RefuseBatch ==
    /\ StageGoes("planned", "refused") /\ userLock' = FALSE
    /\ UNCHANGED <<ask, toolRow, checked, planVars, jobs, sent>>

\* submit_generation_to_fal, with the row of that moment, whose default
\* number of outputs must be in range, too.
SubmitPlanned(i) ==
    /\ stage = "created" /\ sent[i] = <<>>
    /\ toolRow.sized /\ InRange(toolRow.default)
    /\ sent' = [sent EXCEPT ![i] = <<jobs[i], ImagesSent>>]
    /\ UNCHANGED <<stage, ask, toolRow, checked, planVars, userLock, jobs>>

EditTool ==
    /\ toolRow' \in ToolRows
    /\ UNCHANGED <<stage, ask, checked, planVars, userLock, jobs, sent>>

PlanningNext ==
    \/ CheckRequest \/ Upload \/ LockUser \/ PlanRaises \/ PlanListing \/ PlanShoot
    \/ CreateBatch \/ RefuseBatch \/ EditTool
    \/ \E i \in DOMAIN jobs : SubmitPlanned(i)

PlanningSpec == PlanningInit /\ [][PlanningNext]_planningVars
-----------------------------------------------------------------------------
PlanningTypeOK ==
    /\ stage \in {"new", "checked", "uploaded", "planning", "planned", "created", "refused"}
    /\ ask \in Asks /\ {toolRow, checked} \subseteq ToolRows
    /\ answer \in Answers \union {NotJson}
    /\ userLock \in BOOLEAN
    /\ DOMAIN sent = DOMAIN jobs

\* What fal gets is what was planned, however the tool's row is edited under
\* way: every job its own prompt, as many prompts as outputs were wanted when
\* the request was checked; the images in the order in which the planner
\* numbered them ("so the two orderings can never drift apart"), no more than
\* the tool takes; an intimate garment on somebody who may be a minor never
\* gets this far.  And a request that is refused does not keep the user's
\* lock.
FalGetsThePlan ==
    /\ jobs # <<>> =>
          /\ Len(prompts) = Outputs(checked)
          /\ ask.tool = "shoot" => ~ /\ answer.category = "intimate"
                                     /\ answer.age # "adult"
                                     /\ answer.age = "adult_uncertain" => checked.careful
    /\ \A i \in DOMAIN sent : sent[i] # <<>> =>
          /\ sent[i] = <<prompts[i], labelled>>
          /\ Len(labelled) <= checked.maxImages
    /\ stage = "refused" => ~userLock
=============================================================================
