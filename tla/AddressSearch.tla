--------------------------- MODULE AddressSearch ---------------------------
(***************************************************************************)
(* The box in which an address is searched and chosen                      *)
(* (components/locations/MapboxAddressInput.tsx): the pause of 220 ms      *)
(* before a search, the search that aborts an earlier one, the addresses   *)
(* offered and the one chosen, which the form around it saves.             *)
(*                                                                         *)
(* The user types names of places.  An address found is named like the     *)
(* text it was searched by.                                                *)
(***************************************************************************)
EXTENDS Naturals

CONSTANTS
    Place,        \* texts long enough to be searched
    Short,        \* one that is not; the empty text too
    Nothing,
    Search,       \* numbers for the searches under way together
    MaxTyped      \* bound: what the user does

ASSUME AddressSearchAssumption ==
    /\ Place # {} /\ Short \notin Place /\ Nothing \notin Place \cup {Short}
    /\ Search \subseteq Nat /\ Search # {} /\ MaxTyped \in Nat

VARIABLES
    text,         \* query: what the box shows
    value,        \* the address chosen
    offered,      \* suggestions: what they were searched by
    listed,       \* open: the list is on the screen
    pause,        \* the text a search will be made for
    searches,     \* the requests that have not been answered or aborted
    inflight,     \* the number of the latest
    fetching,     \* the box shows that it is searching
    moves,         \* bound: what the user did
    overtaken     \* history: the text changed otherwise under a pause or a search

searchVars == <<text, value, offered, listed, pause, searches, inflight, fetching, moves, overtaken>>

NoSearches == [n \in Search |-> Nothing]

SearchInit ==
    /\ text = Short /\ value = Nothing
    /\ offered = Nothing /\ listed = FALSE
    /\ pause = Nothing /\ searches = NoSearches /\ inflight = (CHOOSE n \in Search : TRUE) /\ fetching = FALSE
    /\ moves = 0 /\ overtaken = FALSE

Does == moves < MaxTyped /\ moves' = moves + 1

(* Something will still be shown for a text. *)
Expected == pause # Nothing \/ searches # NoSearches

(* A key: what was chosen is chosen no longer. *)
OnInput(t) ==
    /\ Does /\ t # text
    /\ text' = t /\ value' = Nothing /\ pause' = t
    /\ overtaken' = FALSE
    /\ UNCHANGED <<offered, listed, searches, inflight, fetching>>

(* An address of the list, or none: neither the pause nor a search ends.   *)
Put(t, v) ==
    /\ Does
    /\ text' = t /\ value' = v
    /\ offered' = Nothing /\ listed' = FALSE
    /\ overtaken' = (overtaken \/ Expected)
    /\ UNCHANGED <<pause, searches, inflight, fetching>>

Select == listed /\ offered # Nothing /\ Put(offered, offered)
Clear == value # Nothing /\ Put(Short, Nothing)

(* The list is closed when the box is left, and shown when it is entered.  *)
OnBlur ==
    /\ listed /\ listed' = FALSE /\ Does
    /\ UNCHANGED <<text, value, offered, pause, searches, inflight, fetching, overtaken>>

OnFocus ==
    /\ ~listed /\ offered # Nothing /\ listed' = TRUE /\ Does
    /\ UNCHANGED <<text, value, offered, pause, searches, inflight, fetching, overtaken>>

(* "Only commit results if this is still the latest request." *)
Latest(n) == n = inflight

(* The pause is over.  A short text is not searched, and leaves a search   *)
(* for a longer one under way; any other aborts it, which may come too     *)
(* late to keep the answer back.                                           *)
SearchFor ==
    /\ pause # Nothing /\ pause' = Nothing
    /\ IF pause = Short
       THEN /\ offered' = Nothing /\ listed' = FALSE
            /\ overtaken' = (overtaken \/ searches # NoSearches)
            /\ UNCHANGED <<searches, inflight, fetching>>
       ELSE /\ \E n \in Search :
                  /\ searches[n] = Nothing
                  /\ inflight' = n
                  /\ \E late \in SUBSET Search :
                        searches' = [m \in Search |->
                            IF m = n THEN pause ELSE IF m \in late THEN searches[m] ELSE Nothing]
            /\ fetching' = TRUE
            /\ UNCHANGED <<offered, listed, overtaken>>
    /\ UNCHANGED <<text, value, moves>>

(* Addresses, none, or a failure, which empties the list even if the text  *)
(* has been searched again since.                                          *)
SearchAnswered(n) ==
    /\ searches[n] # Nothing
    /\ searches' = [searches EXCEPT ![n] = Nothing]
    /\ IF Latest(n)
       THEN /\ \/ offered' = searches[n] /\ listed' = TRUE
               \/ offered' = Nothing /\ listed' = FALSE
               \/ offered' = Nothing /\ UNCHANGED listed
            /\ fetching' = FALSE
       ELSE /\ offered' \in {offered, Nothing}
            /\ UNCHANGED <<listed, fetching>>
    /\ UNCHANGED <<text, value, pause, inflight, moves, overtaken>>

SearchAlone == SearchFor \/ \E n \in Search : SearchAnswered(n)

SearchNext ==
    \/ \E t \in Place \cup {Short} : OnInput(t)
    \/ Select \/ Clear \/ OnBlur \/ OnFocus
    \/ SearchAlone

-----------------------------------------------------------------------------
SearchTypeOK ==
    /\ text \in Place \cup {Short} /\ value \in Place \cup {Nothing}
    /\ offered \in Place \cup {Nothing} /\ pause \in Place \cup {Short, Nothing}
    /\ searches \in [Search -> Place \cup {Nothing}] /\ inflight \in Search
    /\ fetching => searches[inflight] # Nothing

(* Addresses are offered for the text in the box, once it has rested and   *)
(* been searched, however the answers of the searches before it come; and  *)
(* what is saved is what the box shows.  Choosing, clearing or shortening  *)
(* the text does not abort the search under way, whose answer then may be  *)
(* offered (components/locations/MapboxAddressInput.tsx:71, 108).          *)
OfferAgrees ==
    /\ value # Nothing => value = text
    /\ listed /\ offered # Nothing /\ ~Expected /\ ~overtaken => offered = text
=============================================================================
