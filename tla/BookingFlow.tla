---------------------------- MODULE BookingFlow -----------------------------
(***************************************************************************)
(* The booking flow in detail: runStepGraph over the weighted step graph   *)
(* of the booking steps, and inside SelectPeriod the search for a stay,    *)
(* one request after another.  It takes only the steps that GuestJourney   *)
(* allows.                                                                 *)
(*                                                                         *)
(* An instant is a number of hours, a date a number of days.  The cottage  *)
(* service answers as it likes, differently each time: other guests book   *)
(* meanwhile.  A cottage is the rank of its name.                          *)
(***************************************************************************)
EXTENDS StepSelector

CONSTANTS Cottages,
          numberOfNights,     \* {3, 5, 7, 10, 14} in the code
          searchWindows,      \* <<3, 5, 7, 10, 14, 21, 30>>
          minSearchLeadDays,  \* 5
          maxPeriodAttempts,  \* 5
          HoursPerDay,        \* 24
          Nows,               \* what the clock may answer
          Answers,            \* sequences of periods the service may answer
          Graphs              \* step graphs: a weighted list for each step

ASSUME BookingAssumption ==
  /\ Cottages \subseteq Nat \ {0} /\ IsFiniteSet(Cottages)
  /\ numberOfNights \subseteq Nat \ {0}
  /\ minSearchLeadDays \in Nat /\ maxPeriodAttempts \in Nat \ {0}
  /\ HoursPerDay \in Nat \ {0} /\ Nows \subseteq Nat
  /\ searchWindows \in Seq(Nat)
  /\ Answers \subseteq Seq([start : Int, end : Int])

VARIABLES
  step,      \* of runStepGraph; "End", or "failed" when it returned an error
  ctxDone,
  graph,     \* stateMap
  names,     \* state.CottageNames
  cache,     \* the booking part of the cached context
  search,    \* SelectPeriod: its locals
  bookings   \* made by the cottage service

vars == <<step, ctxDone, graph, names, cache, search, bookings>>

Steps == {"ListCottages", "SelectCottage", "SelectPeriod", "BookCottage"}

\* The edges of DefaultBookingFlow, the only graph the flow is run with.
DefaultBookingFlow ==
  [ListCottages |-> {"SelectCottage", "End"},
   SelectCottage |-> {"SelectPeriod", "ListCottages", "End"},
   SelectPeriod |-> Steps \cup {"End"},
   BookCottage |-> {"End"}]

\* Its weights, and which of its edges a list has, are left open; none has an
\* edge twice.
ASSUME GraphsAssumption ==
  \A g \in Graphs, s \in Steps :
    /\ g[s] \in Seq([value : DefaultBookingFlow[s], weight : Int]) /\ g[s] # <<>>
    /\ \A i, j \in DOMAIN g[s] : g[s][i].value = g[s][j].value => i = j

None == 0
NoStay == [cottage |-> None, start |-> 0, nights |-> 0]
Idle == [phase |-> "idle", now |-> 0, asked |-> 0, offered |-> {}, candidates |-> {}]

Init ==
  /\ step = "ListCottages" /\ ctxDone = FALSE /\ graph \in Graphs /\ names = <<>>
  /\ cache = [cottage |-> None, period |-> NoStay, bookingId |-> FALSE]
  /\ search = Idle /\ bookings = <<>>
-----------------------------------------------------------------------------
(* The arithmetic of SelectPeriod.                                          *)

startOfUTCDay(t) == t \div HoursPerDay
searchStart(now) == startOfUTCDay(now) + minSearchLeadDays

candidateStart(now, p) == Max({startOfUTCDay(p.start), searchStart(now)})

\* Mutation: a stay that ends with the period does not fit.
Fits_strict(now, p, nights) ==
  candidateStart(now, p) + nights < startOfUTCDay(p.end)

Fits(now, p, nights) ==
  candidateStart(now, p) + nights <= startOfUTCDay(p.end)

\* The start of the stay, if there is one.
pickNearestSuitablePeriod(now, periods, nights) ==
  LET starts == {candidateStart(now, p) : p \in
                   {q \in Range(periods) : Fits(now, q, nights)}}
  IN  IF starts = {} THEN {} ELSE {Min(starts)}

\* The options are tried from the shortest up to the first that fits.
bestOption(now, periods) ==
  LET fit == {n \in numberOfNights : pickNearestSuitablePeriod(now, periods, n) # {}}
  IN  IF fit = {} THEN {} ELSE {Min(fit)}

stayCandidates(c, now, periods) ==
  UNION {{[cottage |-> c, start |-> s, nights |-> n] :
            s \in pickNearestSuitablePeriod(now, periods, n)} :
         n \in bestOption(now, periods)}

\* The order of the ranking: distance, nights, name.
Before(a, b) ==
  \/ a.start < b.start
  \/ a.start = b.start /\ a.nights < b.nights
  \/ a.start = b.start /\ a.nights = b.nights /\ a.cottage < b.cottage

\* Sorted and cut: the i-th has i - 1 before it.  A set holds no candidate
\* twice.
ranked(candidates) ==
  [i \in 1..Min({Cardinality(candidates), maxPeriodAttempts}) |->
     CHOOSE c \in candidates : Cardinality({d \in candidates : Before(d, c)}) = i - 1]
-----------------------------------------------------------------------------
(* runStepGraph and the steps.                                              *)

\* A flow that finds its context cancelled returns nil.
flowCancelled ==
  /\ step \in Steps /\ search = Idle /\ ctxDone
  /\ step' = "End"
  /\ UNCHANGED <<ctxDone, graph, names, cache, search, bookings>>

\* A step is not valid, or one of its calls fails without an effect.
stepFails ==
  /\ step \in Steps
  /\ \/ search = Idle
     \/ search.phase = "ask" /\ search.asked < Len(names) * Len(searchWindows)
  /\ step' = "failed" /\ search' = Idle
  /\ UNCHANGED <<ctxDone, graph, names, cache, bookings>>

\* cache.Save, the last call of a step; then the next step is picked.
Save(v) ==
  \/ ~ctxDone /\ cache' = v /\ step' \in Picks(graph[step])
  \/ cache' \in (IF ctxDone THEN {cache} ELSE {cache, v}) /\ step' = "failed"

ListCottages ==
  /\ step = "ListCottages" /\ ~ctxDone
  /\ names' \in UNION {Injection(1..n, Cottages) : n \in 0..Cardinality(Cottages)}
  /\ step' \in Picks(graph[step])
  /\ UNCHANGED <<ctxDone, graph, cache, search, bookings>>

SelectCottage ==
  /\ step = "SelectCottage" /\ ~ctxDone
  /\ \E i \in DOMAIN names : Save([cache EXCEPT !.cottage = names[i]])
  /\ UNCHANGED <<ctxDone, graph, names, search, bookings>>

\* Execute up to collectStayCandidates: the clock and the cache are read once.
beginSearch ==
  /\ step = "SelectPeriod" /\ search = Idle /\ ~ctxDone
  /\ cache.cottage # None /\ names # <<>>
  /\ \E t \in Nows : search' = [Idle EXCEPT !.phase = "ask", !.now = t]
  /\ UNCHANGED <<step, ctxDone, graph, names, cache, bookings>>
-----------------------------------------------------------------------------
Requests == Len(names) * Len(searchWindows)

\* The service knows the window and answers with periods that touch it.
AvailableDates(from, to) ==
  {ps \in Answers : \A i \in DOMAIN ps :
     startOfUTCDay(ps[i].start) <= to /\ startOfUTCDay(ps[i].end) >= from}

\* One round of the loops over the cottages and the search windows.  offered
\* is a history of the answers.
loadAvailablePeriods ==
  /\ search.phase = "ask" /\ search.asked < Requests /\ ~ctxDone
  /\ LET W == Len(searchWindows)
         c == names[(search.asked \div W) + 1]
         from == searchStart(search.now)
     IN  \E ps \in AvailableDates(from, from + searchWindows[(search.asked % W) + 1]) :
           search' = [search EXCEPT !.asked = @ + 1,
                        !.offered = @ \cup {<<c, p>> : p \in Range(ps)},
                        !.candidates = @ \cup stayCandidates(c, search.now, ps)]
  /\ UNCHANGED <<step, ctxDone, graph, names, cache, bookings>>

collected ==
  /\ search.phase = "ask" /\ search.asked = Requests
  /\ search' = [search EXCEPT !.phase = "ranked"]
  /\ UNCHANGED <<step, ctxDone, graph, names, cache, bookings>>

\* Mutation: the cottage that was selected before is kept.
SelectPeriod_keepsCottage ==
  /\ search.phase = "ranked" /\ search' = Idle
  /\ IF search.candidates = {}
     THEN step' = "failed" /\ UNCHANGED cache
     ELSE LET selected == Head(ranked(search.candidates))
          IN  Save([cache EXCEPT !.period = selected])
  /\ UNCHANGED <<ctxDone, graph, names, bookings>>

\* The rest of Execute: ErrNoSuitablePeriod, or the first candidate is saved.
SelectPeriod ==
  /\ search.phase = "ranked" /\ search' = Idle
  /\ IF search.candidates = {}
     THEN step' = "failed" /\ UNCHANGED cache
     ELSE LET selected == Head(ranked(search.candidates))
          IN  Save([cache EXCEPT !.cottage = selected.cottage, !.period = selected])
  /\ UNCHANGED <<ctxDone, graph, names, bookings>>

BookCottage ==
  /\ step = "BookCottage" /\ ~ctxDone
  /\ cache.cottage # None /\ cache.period # NoStay /\ ~cache.bookingId
  /\ bookings' = Append(bookings, [cottage |-> cache.cottage, period |-> cache.period])
  /\ \/ Save([cache EXCEPT !.bookingId = TRUE])
     \/ step' = "failed" /\ UNCHANGED cache
  /\ UNCHANGED <<ctxDone, graph, names, search>>

Cancel ==
  /\ ~ctxDone /\ ctxDone' = TRUE
  /\ UNCHANGED <<step, graph, names, cache, search, bookings>>

Next ==
  \/ flowCancelled \/ stepFails \/ ListCottages \/ SelectCottage \/ beginSearch
  \/ loadAvailablePeriods \/ collected \/ SelectPeriod \/ BookCottage \/ Cancel

Spec == Init /\ [][Next]_vars
-----------------------------------------------------------------------------
(* Properties.                                                              *)

\* Reference: every stay of an allowed length that lies, by dates, within a
\* period offered for its cottage and does not begin before the lead time.
Feasible ==
  UNION {{s \in [cottage : {o[1]}, nights : numberOfNights,
                 start : searchStart(search.now)..startOfUTCDay(o[2].end)] :
            /\ startOfUTCDay(o[2].start) <= s.start
            /\ s.start + s.nights <= startOfUTCDay(o[2].end)}
         : o \in search.offered}

\* What SelectPeriod is about to save is the earliest, then shortest, then
\* first by name of all stays that any answer of this search allows, although
\* candidates are collected per answer, cut at dates and ranked afterwards;
\* and it gives up only when no answer allows a stay.
BestOffered ==
  search.phase = "ranked" =>
    IF search.candidates = {} THEN Feasible = {}
    ELSE LET selected == Head(ranked(search.candidates))
         IN  selected \in Feasible /\ \A s \in Feasible : ~Before(s, selected)

\* PickRandomWeighted takes each edge out of the current step as often as its
\* weight says, one without weight never, and when no edge has any the last.
FairShare ==
  step \in Steps /\ search = Idle =>
    LET list == graph[step]
        Share(i) == {t \in Draws(list) \ {0} : PickRandomWeighted(list, t) = list[i].value}
    IN  IF Positive(list) = {} THEN Picks(list) = {list[Len(list)].value}
        ELSE \A i \in DOMAIN list :
               /\ Cardinality(Share(i)) = Max({list[i].weight, 0})
               /\ list[i].value \in Picks(list) => list[i].weight > 0

\* The journey while its booking flow runs.
pcOf(s) == CASE s = "failed" -> "cleanup" [] s = "End" -> "validate" [] OTHER -> s
resultOf(s) == IF s = "failed" THEN "err" ELSE "none"
cacheOf(v) ==
  [key |-> TRUE, guestId |-> TRUE, cottage |-> v.cottage, period |-> v.period.cottage,
   bookingId |-> v.bookingId, invoice |-> FALSE, receipt |-> FALSE]
madeOf(b) == [cottage |-> b.cottage, period |-> b.period.cottage]
bookingsOf(bs) == [i \in DOMAIN bs |-> madeOf(bs[i])]

Journey == INSTANCE GuestJourney WITH
  pc <- pcOf(step), result <- resultOf(step), cache <- cacheOf(cache),
  bookings <- bookingsOf(bookings), names <- Range(names), guestId <- TRUE,
  channel <- "open", consumer <- TRUE, registered <- 1, paid <- 0, stayed <- FALSE

\* Whatever the search and the draws do, the flow does only what GuestJourney
\* lets its booking flow do: what is proved of every journey holds of it.
JourneySteps == [][Journey!Next]_(Journey!vars)
=============================================================================
