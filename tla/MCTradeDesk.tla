------------------------------ MODULE MCTradeDesk -----------------------------
(* One long setup.  Its second entry is touched at 5, confirmed at 6 in    *)
(* the bottom third of 0..30, target 42.  Half-tick levels round up: EQM   *)
(* joins P-MID at 24; P-1W falls on the entry price, P+1W on the target.   *)
EXTENDS TradeDesk

RR(v) == [f \in RRFields |-> v]

\* The source gap 3..12, clipped by the bottom third and the OTE band.
Zone == IntersectEntryZone(TRUE, [low |-> 0, high |-> 30], [bottom |-> 3, top |-> 12],
                           TRUE, [bottom |-> 2, top |-> 9])

ASSUME Zone = [bottom |-> 9, top |-> 27]
ASSUME ConfirmationSatisfied(TRUE, "PROXIMAL_RECLAIM", 10, [bottom |-> 3, top |-> 9])
ASSUME ~ConfirmationSatisfied(TRUE, "CE_RECLAIM", 6, [bottom |-> 3, top |-> 9])

Blank(id, type, at) == [Message(id, "S", type, at) EXCEPT !.target = 42]

Touched(id, type, at) ==
  [Blank(id, type, at) EXCEPT
     !.attempt = 2, !.source = "BISI", !.zone = [bottom |-> 3, top |-> 9],
     !.ote = [bottom |-> 2, top |-> 9, at |-> 4], !.range = [low |-> 0, high |-> 30],
     !.minimum = "A", !.gradeAtTouch = "A", !.touched = 5]

Confirmed(id, type, at) ==
  [Touched(id, type, at) EXCEPT
     !.gradeAtConfirmation = "A", !.confirmed = 6, !.price = 6, !.stop = 1]

Bounds == [upper |-> 24, lower |-> 20, previousUpper |-> 30, previousLower |-> 18]

MCMessages ==
  {[Blank(1, "RR_QUALIFIED", 2) EXCEPT !.rr = RR("R1")],
   [Blank(2, "GRADE_A_PLUS", 3) EXCEPT !.rr = RR("R2"), !.grade = "A+"],
   [Blank(3, "SETUP_RETIRED", 20) EXCEPT !.grade = "A"],
   Blank(4, "TARGET_TAKEN", 21),
   Touched(5, "ENTRY_TOUCHED", 5),
   [Confirmed(6, "ENTRY_CONFIRMED", 6) EXCEPT
      !.context = "MRZ", !.available = TRUE, !.ladder = [bounds |-> Bounds, tick |-> 2]],
   \* C-2W (12) at 8, P+1W (42) at 9; EQM and P-MID (24) on the bar of the exit.
   [Confirmed(7, "ENTRY_EXIT_LEVEL_REACHED", 8) EXCEPT !.level = [mask |-> 2, price |-> 12]],
   [Confirmed(8, "ENTRY_EXIT_LEVEL_REACHED", 9) EXCEPT !.level = [mask |-> 512, price |-> 42]],
   [Confirmed(9, "ENTRY_EXIT_LEVEL_REACHED", 12) EXCEPT !.level = [mask |-> 96, price |-> 24]],
   [Confirmed(10, "ENTRY_STOPPED", 12) EXCEPT
      !.mfe = [price |-> 42], !.terminalLevels = [kind |-> "levels", mask |-> 96]],
   [Confirmed(11, "ENTRY_TARGET_TAKEN", 12) EXCEPT
      !.mfe = [price |-> 42], !.terminalLevels = [kind |-> "reached", mask |-> 514]],
   [Confirmed(12, "ENTRY_AMBIGUOUS", 14) EXCEPT
      !.risk = 5, !.mfe = [price |-> 42, r |-> 36],
      !.terminalLevels = [kind |-> "verbose", levels |-> <<>>],
      !.best = [ids |-> {"P+1W"}, price |-> 42, r |-> 36, at |-> 9]],
   \* A stop on the bar of the confirmation.
   [Confirmed(13, "ENTRY_STOPPED", 6) EXCEPT
      !.mfe = [price |-> 6], !.terminalLevels = [kind |-> "levels", mask |-> 0]],
   \* The first attempt, whose zone failed on the bar that touched it.
   [Touched(14, "ENTRY_TOUCHED", 4) EXCEPT !.attempt = 1, !.touched = 4],
   [Touched(15, "ENTRY_INVALIDATED", 4) EXCEPT !.attempt = 1, !.touched = 4]}

\* The bar of a stop or a target, before that of the ambiguity.
MCMigrationTimes == {12}

ASSUME EntriesAreFrozen /\ InvalidatedIsNotConfirmed
ASSUME 1..12 \cup {14, 15} \subseteq {e.id : e \in Accepted}
==============================================================================
