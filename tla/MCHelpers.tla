------------------------------ MODULE MCHelpers ------------------------------
(***************************************************************************)
(* What the platform records of people, for TLC, one behaviour of one      *)
(* module at a time: they share no column that one decides by and another  *)
(* writes.  What those that rest start from is fixed.                      *)
(***************************************************************************)
EXTENDS PayoutAccount

CONSTANTS
  Booking, Counter, MaxStars, MaxEvents,
  MaxRecords,
  MaxAddresses,
  Service,
  Request, DayLength, IstOffset, FirstSlot, LastSlot, MaxHours, GapHours, Instant, MaxNow, NoAsk

VARIABLES
  focus,  \* which module
  rating, summary, trusted, count, recorded, apart, recordCall,
  status, open, reported, siteCall, saw, flying, late,
  there, default, created, ordered, bookCall,
  exists, offered, last, undisturbed, listCall,
  asked, sent, before, booking, available, now

Record == INSTANCE HelperRecord WITH call <- recordCall

Site == INSTANCE JobSite WITH call <- siteCall

Book == INSTANCE AddressBook WITH call <- bookCall

List == INSTANCE ServiceList WITH trusted <- undisturbed, call <- listCall

Slots == INSTANCE Calendar

ASSUME RecordHolds == Record!RecordAssumption
ASSUME SiteHolds == Site!SiteAssumption
ASSUME BookHolds == Book!AddressAssumption
ASSUME SlotsHold == Slots!CalendarAssumption

recordVars == <<rating, summary, trusted, count, recorded, apart, recordCall>>
siteVars == <<status, open, reported, siteCall, saw, flying, late>>
bookVars == <<there, default, created, ordered, bookCall>>

listVars == <<exists, offered, last, undisturbed, listCall>>
slotVars == <<asked, sent, before, booking, available, now>>
allVars == <<vars, recordVars, siteVars, bookVars, listVars, slotVars, focus>>

HelpersInit ==
  /\ focus \in {"account", "ratings", "counts", "site", "book", "list", "slots"}
  /\ focus # "list" => exists = {}
  /\ Init /\ Record!Init /\ Site!Init /\ Book!Init /\ List!Init /\ Slots!Init

HelpersNext ==
  /\ \/ /\ focus = "account" /\ Next
        /\ UNCHANGED <<recordVars, siteVars, bookVars, listVars, slotVars>>
     \/ /\ focus = "ratings" /\ Record!NextRatings
        /\ UNCHANGED <<vars, siteVars, bookVars, listVars, slotVars>>
     \/ /\ focus = "counts" /\ Record!NextCounts
        /\ UNCHANGED <<vars, siteVars, bookVars, listVars, slotVars>>
     \/ /\ focus = "site" /\ Site!Next
        /\ UNCHANGED <<vars, recordVars, bookVars, listVars, slotVars>>
     \/ /\ focus = "book" /\ Book!Next
        /\ UNCHANGED <<vars, recordVars, siteVars, listVars, slotVars>>
     \/ /\ focus = "list" /\ List!Next
        /\ UNCHANGED <<vars, recordVars, siteVars, bookVars, slotVars>>
     \/ /\ focus = "slots" /\ Slots!Next
        /\ UNCHANGED <<vars, recordVars, siteVars, bookVars, listVars>>
  /\ UNCHANGED focus

\* PayoutAccount's fairness asks nothing while the others move: no retry is due and no
\* call is in flight.
HelpersSpec == HelpersInit /\ [][HelpersNext]_allVars /\ Fairness

\* The rows and the calls in flight keep their types.
RecordsTypeOK ==
  /\ AccountTypeOK /\ Record!RecordTypeOK /\ Site!SiteTypeOK /\ Book!AddressTypeOK
  /\ List!ServiceTypeOK /\ Slots!CalendarTypeOK

\* Once a rating is not overtaken by another, the average is right (see HelperRecord).
RatingHeals == Record!RatingHeals

\* A counter never exceeds the events, and loses only some that overlapped (see
\* HelperRecord).
CountsAreBounded == Record!CountsAreBounded

\* Reports and cancellations lose no issue but through an overlap (see JobSite).
LostIssuesOverlapped == Site!LostIssuesOverlapped

\* Two default addresses come only of calls that overlap (see AddressBook).
DefaultHeals == Book!DefaultHeals

\* Two lists of services saved at once are mixed, and the next one mends it (see
\* ServiceList).
ServicesHeal == List!ServicesHeal

\* Requests whose two times agree are kept apart (see Calendar).
SlotsKeepApart == Slots!SlotsKeepApart
==============================================================================
