------------------------------ MODULE DatePlan ------------------------------
(* The date-animation command: it makes the plan of a clip that shows two to *)
(* four years one after the other.  An approved plan for four sample years   *)
(* is cut to the number of years, or rebuilt around them, and the schedule   *)
(* of its layers has to keep showing the right year at the right time.       *)
(*                                                                           *)
(* A year is a sequence of digits; opacities are per cent.  Backgrounds,     *)
(* rails and typography carry no schedule and are left out.  The styles      *)
(* 03, 04, 08 and 10 have the layers of 01_timeline_progress.                *)
EXTENDS Integers, SequencesExt

CONSTANT DateRequests    \* what the command is called with: its words, and if they are a text

VARIABLES request,       \* the call being served
          clipStage,     \* "idle", "asked", "planned", "written", "rendered", "refused", "failed"
          clipPlan       \* the materialized plan: style, years, duration, layers

dateVars == <<request, clipStage, clipPlan>>

NoRequest == [words |-> <<>>, text |-> FALSE]
NoClip == [style |-> "none"]
TimelineStyle == "01_timeline_progress"
RollingStyle == "12_rolling_year"
DateStyles == {TimelineStyle, "02_year_morph", "05_calendar_flip", "06_date_stack", "07_split_date",
               "09_moving_point", "11_date_bridge", RollingStyle, "13_focus_shift"}

IsYear(w) == w \in [1..4 -> 0..9]
Prefix(y) == SubSeq(y, 1, 2)
Suffix(y) == SubSeq(y, 3, 4)

\* The years of a text in the order of their first mention: only the centuries the
\* pattern knows, and each once.
DatesFromText(words) ==
  LET known == SelectSeq(words, LAMBDA w : IsYear(w) /\ Prefix(w) \in {<<1, 8>>, <<1, 9>>, <<2, 0>>, <<2, 1>>})
  IN FoldLeft(LAMBDA found, y : IF y \in ToSet(found) THEN found ELSE Append(found, y), <<>>, known)

\* Any style may be drawn for a sequence; the draw is a hash of the plan and the dates.
SelectStyles(dates) == IF Len(dates) < 2 THEN {TimelineStyle} ELSE DateStyles

NormalizePlanDates(dates) == (\A i \in DOMAIN dates : IsYear(dates[i])) /\ IsInjective(dates)

-----------------------------------------------------------------------------
(* Schedules *)

PlanDuration(style, n) ==
  IF style = RollingStyle THEN (CASE n = 2 -> 140 [] n = 3 -> 220 [] OTHER -> 320)
  ELSE (CASE n = 2 -> 120 [] n = 3 -> 192 [] OTHER -> 240)

Enter == <<0, 60, 132, 204>>
Hold == <<48, 120, 192, 240>>
RollStarts == <<0, 60, 140, 220>>

Mark(f, v) == [frame |-> f, value |-> v]

\* The opacity of the year of one slot, out of n: dim, lit, dim again unless it is the last.
OpacityKeyframes(slot, n, d, dim) ==
  LET entry == <<Mark(0, dim), Mark(Enter[slot] - 12, dim), Mark(Enter[slot], 100)>>
  IN IF slot = 1 THEN <<Mark(0, 100), Mark(48, 100), Mark(60, dim), Mark(d - 1, dim)>>
     ELSE IF slot = n THEN Append(entry, Mark(d - 1, 100))
     ELSE entry \o <<Mark(Hold[slot], 100), Mark(Hold[slot] + 12, dim), Mark(d - 1, dim)>>

\* A wheel moves by one step at the start of every slot but the first.
RollingTrack(n, d, step) ==
  LET roll(slot) == <<Mark(RollStarts[slot], (slot - 2) * step), Mark(RollStarts[slot] + 28, (slot - 1) * step)>>
  IN <<Mark(0, 0)>> \o FlattenSeq([i \in 1..(n - 1) |-> roll(i + 1)]) \o <<Mark(d - 1, (n - 1) * step)>>

PrefixTrack(start, d) ==
  IF start < 0 THEN <<>> ELSE <<Mark(0, 0), Mark(start, 0), Mark(start + 28, -380), Mark(d - 1, -380)>>

\* MUTANT: a keyframe just past the clip is kept.
KeepsTheBoundary(keys, d) ==
  LET kept == SelectSeq(keys, LAMBDA k : k.frame <= d)
  IN IF kept = <<>> /\ keys # <<>> THEN <<Mark(0, keys[1].value)>> ELSE kept
\* Keyframes behind the end of the clip go; a track never becomes empty.
FilterLayerTracks(keys, d) ==
  LET kept == SelectSeq(keys, LAMBDA k : k.frame < d)
  IN IF kept = <<>> /\ keys # <<>> THEN <<Mark(0, keys[1].value)>> ELSE kept

-----------------------------------------------------------------------------
(* The approved plans *)

\* A layer shows its text in a column of the large year, or beside it (column 0).  It is
\* in the window where home and its move add up to zero.
DateLayer(name, slot, column, text, fade) ==
  [name |-> name, slot |-> slot, column |-> column, text |-> text, home |-> 0, fade |-> fade, move |-> <<>>]

SampleYears == <<<<1, 9, 4, 8>>, <<1, 9, 6, 9>>, <<1, 9, 9, 8>>, <<2, 0, 2, 6>>>>
Sampled(name, column, slots, dim) ==
  {DateLayer(name, i, column, SampleYears[i], OpacityKeyframes(i, 4, 240, dim)) : i \in slots}
Still(name) == {DateLayer(name, i, 0, SampleYears[i], <<>>) : i \in 1..4}
Pointer(name, keys) == [DateLayer(name, 0, 0, <<>>, <<>>) EXCEPT !.move = keys]

StackMarker ==
  Pointer("stack_marker", <<Mark(0, 0), Mark(60, 0), Mark(132, 120), Mark(192, 240), Mark(204, 360), Mark(239, 360)>>)
PointTick ==
  Pointer("point_tick", <<Mark(0, 0), Mark(48, 0), Mark(60, 280), Mark(120, 280), Mark(132, 560), Mark(192, 560),
                          Mark(204, 840), Mark(239, 840)>>)

ApprovedLayers(style) ==
  CASE style = TimelineStyle -> Sampled("date", 1, 1..4, 0) \cup Still("axis")
    [] style = "05_calendar_flip" -> UNION {Sampled("cal", c, 1..4, 0) : c \in 1..4}
    [] style = "06_date_stack" -> Sampled("date", 1, 1..4, 0) \cup Still("stack_row")
                                  \cup Sampled("stack_active", 0, 1..4, 0) \cup {StackMarker}
    [] style = "07_split_date" -> Sampled("split_p", 1, 1..4, 0) \cup Sampled("split_s", 2, 1..4, 0)
    [] style = "09_moving_point" -> Sampled("date", 1, 1..4, 0) \cup Still("axis") \cup {PointTick}
    [] style = "11_date_bridge" -> Sampled("date", 1, 1..4, 0) \cup Sampled("prev", 0, 2..4, 0)
                                   \cup Sampled("next", 0, 1..3, 0)
    [] style = "13_focus_shift" -> Sampled("focus_date", 1, 1..4, 22)

-----------------------------------------------------------------------------
(* Rewriting *)

DateAt(dates, i) == IF i \in DOMAIN dates THEN dates[i] ELSE <<>>

\* MUTANT: the last year announces a next one.
PointsPastTheEnd(l, dates) == l.slot <= Len(dates)
\* Layers of unused slots go, and so does the announcement of a year after the last.
KeepsLayer(l, dates) == IF l.name = "next" THEN l.slot < Len(dates) ELSE l.slot <= Len(dates)

TextFor(l, dates) ==
  CASE l.name = "prev" -> DateAt(dates, l.slot - 1)
    [] l.name = "next" -> DateAt(dates, l.slot + 1)
    [] l.name = "split_p" -> Prefix(dates[l.slot])
    [] l.name = "split_s" -> Suffix(dates[l.slot])
    [] l.name = "cal" -> <<dates[l.slot][l.column]>>
    [] OTHER -> DateAt(dates, l.slot)

AdjustStackMarker(keys, n, d) ==
  LET target == CASE n = 2 -> Mark(132, 120) [] n = 3 -> Mark(192, 240) [] OTHER -> Mark(-1, 0)
  IN [i \in DOMAIN keys |-> IF keys[i].frame = target.frame THEN Mark(d - 1, target.value) ELSE keys[i]]

RewriteTimelinePlan(style, dates, d) ==
  {[l EXCEPT !.text = IF l.slot = 0 \/ TextFor(l, dates) = <<>> THEN @ ELSE TextFor(l, dates),
             !.move = IF l.name = "stack_marker" THEN AdjustStackMarker(@, Len(dates), d) ELSE @] :
     l \in {m \in ApprovedLayers(style) : KeepsLayer(m, dates)}}

RebuildYearMorph(dates, d) ==
  {DateLayer("d", i, c, <<dates[i][c]>>, OpacityKeyframes(i, Len(dates), d, 0)) : c \in 1..4, i \in DOMAIN dates}

\* The century wheel has two positions, the smaller century above.
UniquePrefixes(dates) ==
  SetToSortSeq({Prefix(y) : y \in ToSet(dates)}, LAMBDA p, q : 10 * p[1] + p[2] < 10 * q[1] + q[2])
CenturyChanges(dates) == {i \in 2..Len(dates) : Prefix(dates[i]) # Prefix(dates[i - 1])}
RollingYearRange(dates) == Len(UniquePrefixes(dates)) > 2 \/ \E i, k \in CenturyChanges(dates) : i # k

\* MUTANT: the century rolls with the year before.
RollsEarly(dates) ==
  IF CenturyChanges(dates) = {} THEN -1 ELSE RollStarts[(CHOOSE i \in CenturyChanges(dates) : TRUE) - 1]
PrefixRoll(dates) ==
  IF CenturyChanges(dates) = {} THEN -1 ELSE RollStarts[CHOOSE i \in CenturyChanges(dates) : TRUE]

RebuildRollingYear(dates, d) ==
  LET n == Len(dates)
      centuries == UniquePrefixes(dates)
      wheel(name, column, i, text, keys) == [DateLayer(name, i, column, text, <<>>) EXCEPT !.home = (i - 1) * 380, !.move = keys]
  IN {wheel("prefix", 1, i, centuries[i], PrefixTrack(PrefixRoll(dates), d)) : i \in DOMAIN centuries}
     \cup {wheel("suffix", 2, i, Suffix(dates[i]), RollingTrack(n, d, -380)) : i \in DOMAIN dates}
     \cup {DateLayer("axis", i, 0, dates[i], <<>>) : i \in DOMAIN dates}
     \cup {Pointer("active_underline", RollingTrack(n, d, 280))}

Layers(style, dates, d) ==
  LET made == CASE style = "02_year_morph" -> RebuildYearMorph(dates, d)
                [] style = RollingStyle -> RebuildRollingYear(dates, d)
                [] OTHER -> RewriteTimelinePlan(style, dates, d)
  IN {[l EXCEPT !.fade = FilterLayerTracks(@, d), !.move = FilterLayerTracks(@, d)] : l \in made}

\* No keyframe after the clip, and every year written out in the styles that do not take
\* it apart.
ValidPlan(plan) ==
  /\ \A l \in plan.layers : \A k \in ToSet(l.fade \o l.move) : k.frame < plan.duration
  /\ plan.style \in {"02_year_morph", "05_calendar_flip", "07_split_date", RollingStyle}
       \/ ToSet(plan.dates) \subseteq {l.text : l \in plan.layers}

Refusal(reason) == [refusal |-> reason, plan |-> NoClip]
MaterializeStyle(style, dates) ==
  LET n == Len(dates)
      d == PlanDuration(style, n)
      plan == [style |-> style, dates |-> dates, duration |-> d, layers |-> Layers(style, dates, d)]
  IN IF ~NormalizePlanDates(dates) \/ n \notin 2..4 THEN Refusal("dates")
     ELSE IF style = RollingStyle /\ RollingYearRange(dates) THEN Refusal("range")
     ELSE IF ~ValidPlan(plan) THEN Refusal("invalid")
     ELSE [refusal |-> "", plan |-> plan]

-----------------------------------------------------------------------------
DateInit == request = NoRequest /\ clipStage = "idle" /\ clipPlan = NoClip

AskForDates(r) ==
  /\ clipStage = "idle"
  /\ request' = r /\ clipStage' = "asked"
  /\ UNCHANGED clipPlan

RequestedDates == IF request.text THEN DatesFromText(request.words) ELSE request.words

\* A sequence the odometer cannot show gets the timeline instead.
Materialize ==
  /\ clipStage = "asked"
  /\ \E style \in SelectStyles(RequestedDates) :
       LET first == MaterializeStyle(style, RequestedDates)
           made == IF first.refusal = "range" THEN MaterializeStyle(TimelineStyle, RequestedDates) ELSE first
       IN clipPlan' = made.plan /\ clipStage' = IF made.refusal = "" THEN "planned" ELSE "refused"
  /\ UNCHANGED request

WritePlanFile ==
  /\ clipStage = "planned" /\ clipStage' \in {"written", "failed"}
  /\ UNCHANGED <<request, clipPlan>>

RenderPlanFile ==
  /\ clipStage = "written" /\ clipStage' \in {"rendered", "failed"}
  /\ UNCHANGED <<request, clipPlan>>

\* The command ends; a call without -render ends with the plan.
CommandEnds ==
  /\ clipStage \in {"written", "rendered", "refused", "failed"}
  /\ request' = NoRequest /\ clipStage' = "idle" /\ clipPlan' = NoClip

DateNext ==
  \/ clipStage = "idle" /\ \E r \in DateRequests : AskForDates(r)
  \/ Materialize \/ WritePlanFile \/ RenderPlanFile \/ CommandEnds

-----------------------------------------------------------------------------
\* What a track says at a frame; between two keyframes that differ it moves, which is
\* none of their values.
Moving == -1
ValueAt(keys, f) ==
  LET before == {i \in DOMAIN keys : keys[i].frame <= f}
      after == {i \in DOMAIN keys : keys[i].frame >= f}
      left == keys[CHOOSE i \in before : \A k \in before : k <= i].value
      right == keys[CHOOSE i \in after : \A k \in after : i <= k].value
  IN IF after = {} THEN left ELSE IF before = {} THEN right
     ELSE IF left = right THEN left ELSE Moving

LitAt(l, f) ==
  /\ l.fade = <<>> \/ ValueAt(l.fade, f) = 100
  /\ l.move = <<>> \/ ValueAt(l.move, f) = -l.home

\* The frames between the arrival of the i-th year and its departure: both ends, and all
\* keyframes between them.
SettledFrames(p, i) ==
  LET rolling == p.style = RollingStyle
      from == IF ~rolling THEN Enter[i] ELSE IF i = 1 THEN 0 ELSE RollStarts[i] + 28
      to == IF i = Len(p.dates) THEN p.duration - 1 ELSE IF rolling THEN RollStarts[i + 1] ELSE Hold[i]
      keyed == {k.frame : k \in UNION {ToSet(l.fade \o l.move) : l \in p.layers}}
  IN {from, to} \cup {f \in keyed : from <= f /\ f <= to}

LitLayers(p, f) == {l \in p.layers : LitAt(l, f)}
Column(p, f, c) == {l \in LitLayers(p, f) : l.column = c}
Columns(p) == {l.column : l \in p.layers} \ {0}
ReadsAt(p, f) ==
  FlattenSeq([c \in 1..Cardinality(Columns(p)) |-> (CHOOSE l \in Column(p, f, c) : TRUE).text])

\* The large year is one year, the i-th, whatever it is put together from.
ShowsYear(p, i) ==
  \A f \in SettledFrames(p, i) :
    /\ \A c \in Columns(p) : Cardinality(Column(p, f, c)) = 1
    /\ ReadsAt(p, f) = p.dates[i]

\* What stands beside it belongs to it: its neighbours, its row, the pointer under it.
SurroundingsAgree(p, i) ==
  \A f \in SettledFrames(p, i), l \in p.layers :
    CASE l.name = "prev" -> LitAt(l, f) => i > 1 /\ l.text = p.dates[i - 1]
      [] l.name = "next" -> LitAt(l, f) => i < Len(p.dates) /\ l.text = p.dates[i + 1]
      [] l.name = "stack_active" -> LitAt(l, f) <=> l.slot = i
      [] l.name \in {"axis", "stack_row"} -> l.text = p.dates[l.slot]
      [] l.name \in {"point_tick", "active_underline"} -> ValueAt(l.move, f) = (i - 1) * 280
      [] l.name = "stack_marker" -> f = p.duration - 1 => ValueAt(l.move, f) = (i - 1) * 120
      [] OTHER -> TRUE

KeysAdvance(p) ==
  \A l \in p.layers : \A keys \in {l.fade, l.move} :
    \A i \in 2..Len(keys) : keys[i - 1].frame < keys[i].frame

CenturiesAscend(dates) == CenturyChanges(dates) = {} \/ Prefix(dates[1]) = UniquePrefixes(dates)[1]

\* Whatever style MaterializeStyle cuts or rebuilds for two to four years, each year is
\* alone on the screen in its turn with what belongs to it, and the last one holds to the
\* end; only sequences that are not two to four different years are refused.  A rolling
\* year whose century goes backwards is left out: its wheel is sorted.
DatesAreShown ==
  /\ clipStage \in {"planned", "written", "rendered"} =>
       /\ KeysAdvance(clipPlan)
       /\ clipPlan.style = RollingStyle => Len(UniquePrefixes(clipPlan.dates)) <= 2
       /\ (clipPlan.style = RollingStyle => CenturiesAscend(clipPlan.dates)) =>
            \A i \in DOMAIN clipPlan.dates : ShowsYear(clipPlan, i) /\ SurroundingsAgree(clipPlan, i)
  /\ clipStage = "refused" =>
       ~(Len(RequestedDates) \in 2..4 /\ IsInjective(RequestedDates) /\ \A i \in DOMAIN RequestedDates : IsYear(RequestedDates[i]))
=============================================================================
