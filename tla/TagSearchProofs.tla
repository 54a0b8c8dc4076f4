--------------------------- MODULE TagSearchProofs ---------------------------
(****************************************************************************)
(* For every set of tags and every history of their documents: the rows of  *)
(* the tag search are the pictures found, no search takes pictures of       *)
(* another away or lists more than it was told of, a story shows the        *)
(* picture that was tapped, and a screen that was left pushes nothing.      *)
(****************************************************************************)
EXTENDS TagSearch, FiniteSetTheorems, SequenceTheorems, TLAPS

\* What a closure of a tap holds is what its row showed.
TapsAreShown ==
    \A k \in DOMAIN taps :
        /\ taps[k].url = taps[k].shown
        /\ taps[k].rcvimage \in {NoPicture, taps[k].shown}

IndInv == TypeOK /\ RowsAgree /\ StoryIsTapped /\ TapsAreShown /\ FoundStays

\* The steps that touch neither listeners nor list.
ListKept == UNCHANGED <<published, searches, filtered>>

\* The steps that touch neither taps nor stories.
TapsKept == UNCHANGED <<taps, stories>>

LEMMA FoundStaysIfKept == ASSUME FoundStays, ListKept PROVE FoundStays'
  BY DEF FoundStays, ListKept

LEMMA TapsStayIfKept ==
  ASSUME StoryIsTapped, TapsAreShown, TapsKept PROVE StoryIsTapped' /\ TapsAreShown'
  BY DEF StoryIsTapped, TapsAreShown, TapsKept

\* A trap changes nothing but the process.
LEMMA TrapPreserves ==
  ASSUME IndInv, NEW cause \in {"badPath", "noField", "noURL", "noImage"}, Trap(cause)
  PROVE  IndInv'
  <1>1. TypeOK'
    BY DEF IndInv, TypeOK, Trap, bar, list
  <1>2. RowsAgree'
    BY DEF IndInv, RowsAgree, Trap, list
  <1>3. FoundStays'
    BY FoundStaysIfKept DEF IndInv, ListKept, Trap, bar, list
  <1>4. StoryIsTapped' /\ TapsAreShown'
    BY TapsStayIfKept DEF IndInv, TapsKept, Trap
  <1> QED BY <1>1, <1>2, <1>3, <1>4 DEF IndInv

\* The pictures of a concatenation are those of its parts.
LEMMA ToSetConcat ==
  ASSUME NEW S, NEW s \in Seq(S), NEW t \in Seq(S)
  PROVE  ToSet(s) \subseteq ToSet(s \o t) /\ ToSet(t) \subseteq ToSet(s \o t)
  <1>1. ASSUME NEW i \in DOMAIN s PROVE s[i] \in ToSet(s \o t)
    <2>1. i \in DOMAIN (s \o t) /\ (s \o t)[i] = s[i] BY <1>1
    <2> QED BY <2>1 DEF ToSet
  <1>2. ASSUME NEW i \in DOMAIN t PROVE t[i] \in ToSet(s \o t)
    <2>1. Len(s) + i \in DOMAIN (s \o t) /\ (s \o t)[Len(s) + i] = t[i] BY <1>2
    <2> QED BY <2>1 DEF ToSet
  <1> QED BY <1>1, <1>2 DEF ToSet

-----------------------------------------------------------------------------
LEMMA InitInv == ASSUME Init PROVE IndInv
  <1> USE TagSearchAssumption
  <1>1. TypeOK
    BY DEF Init, TypeOK
  <1>2. RowsAgree /\ StoryIsTapped /\ TapsAreShown /\ FoundStays
    BY DEF Init, RowsAgree, StoryIsTapped, TapsAreShown, FoundStays
  <1> QED BY <1>1, <1>2 DEF IndInv

LEMMA TypePreserves ==
  ASSUME IndInv, NEW t \in Tags \cup BadTexts \cup {Empty}, Type(t) PROVE IndInv'
  <1>1. TypeOK' BY DEF IndInv, TypeOK, Type, list
  <1>2. RowsAgree' BY DEF IndInv, RowsAgree, Type, list
  <1>3. FoundStays' BY FoundStaysIfKept DEF IndInv, ListKept, Type, list
  <1>4. StoryIsTapped' /\ TapsAreShown' BY TapsStayIfKept DEF IndInv, TapsKept, Type
  <1> QED BY <1>1, <1>2, <1>3, <1>4 DEF IndInv

LEMMA SearchPreserves == ASSUME IndInv, Search PROVE IndInv'
  <1> DEFINE s == [tag |-> text, told |-> 0, cleared |-> 0, live |-> TRUE]
  <1>1. searches \in Seq(Search_) /\ s \in Search_
    BY DEF IndInv, TypeOK, Search, Search_
  <1>2. searches' = Append(searches, s)
    BY DEF Search, Listen
  <1>3. \A k \in DOMAIN searches' : IF k \in DOMAIN searches THEN searches'[k] = searches[k]
                                                              ELSE searches'[k] = s
    BY <1>1, <1>2
  <1>4. TypeOK'
    <2>1. searches' \in Seq(Search_) BY <1>1, <1>2
    <2>2. \A k \in DOMAIN searches' :
             /\ searches'[k].cleared <= searches'[k].told
             /\ searches'[k].told <= published[searches'[k].tag]
      BY <1>3 DEF IndInv, TypeOK, Search
    <2> QED BY <2>1, <2>2 DEF IndInv, TypeOK, Search, Listen, bar, list
  <1>5. RowsAgree' BY DEF IndInv, RowsAgree, Search, Listen, list
  <1>6. FoundStays' BY <1>3 DEF IndInv, FoundStays, Search, Listen, list
  <1>7. StoryIsTapped' /\ TapsAreShown'
    BY TapsStayIfKept DEF IndInv, TapsKept, Search, Listen
  <1> QED BY <1>4, <1>5, <1>6, <1>7 DEF IndInv

LEMMA CancelPreserves == ASSUME IndInv, Cancel PROVE IndInv'
  <1>1. /\ searches \in Seq(Search_)
        /\ searches' = [k \in DOMAIN searches |->
                          [searches[k] EXCEPT !.cleared = searches[k].told]]
    BY DEF IndInv, TypeOK, Cancel, ClearAnd
  <1>2. DOMAIN searches' = DOMAIN searches /\ DOMAIN searches = 1 .. Len(searches)
    BY <1>1
  <1>3. \A k \in DOMAIN searches :
           /\ searches[k] \in Search_
           /\ searches'[k] = [searches[k] EXCEPT !.cleared = searches[k].told]
    BY <1>1
  <1>4. \A k \in DOMAIN searches :
           /\ searches'[k] \in Search_
           /\ searches'[k].cleared = searches[k].told
           /\ searches'[k].told = searches[k].told
           /\ searches'[k].tag = searches[k].tag
           /\ searches[k].told \in Nat
    BY <1>3 DEF Search_
  <1>5. TypeOK'
    <2>1. searches' \in Seq(Search_)
      <3>1. Len(searches) \in Nat BY <1>1
      <3>2. searches' \in [1 .. Len(searches) -> Search_] BY <1>1, <1>2, <1>4
      <3> QED BY <3>1, <3>2
    <2>2. \A k \in DOMAIN searches' :
             /\ searches'[k].cleared <= searches'[k].told
             /\ searches'[k].told <= published[searches'[k].tag]
      BY <1>2, <1>4 DEF IndInv, TypeOK
    <2>3. /\ filtered' = <<>> /\ rows' = <<>> /\ text' = Empty
          /\ UNCHANGED <<published, taps, stories, page, process>>
      BY DEF Cancel, ClearAnd
    <2>4. filtered' \in Seq(Pictures) /\ rows' \in Seq(Pictures) BY <2>3
    <2>5. taps' \in Seq(Tap_) /\ stories' \in Seq(DOMAIN taps')
      BY <2>3 DEF IndInv, TypeOK
    <2>6. /\ published' \in [Tags -> Nat]
          /\ \A t \in Tags : published'[t] <= Len(Contents[t])
          /\ page' \in {"search", "gone"}
          /\ process' \in {"running", "badPath", "noField", "badIndex", "noURL", "noImage"}
          /\ text' \in Tags \cup BadTexts \cup {Empty}
      BY <2>3 DEF IndInv, TypeOK
    <2>7. \A k \in DOMAIN searches' : searches'[k].told <= published'[searches'[k].tag]
      BY <2>2, <2>3
    <2> QED BY <2>1, <2>2, <2>4, <2>5, <2>6, <2>7 DEF TypeOK
  <1>6. RowsAgree' BY DEF IndInv, RowsAgree, Cancel, ClearAnd
  <1>7. FoundStays' BY <1>2, <1>4 DEF FoundStays
  <1>8. StoryIsTapped' /\ TapsAreShown'
    BY TapsStayIfKept DEF IndInv, TapsKept, Cancel, ClearAnd
  <1> QED BY <1>5, <1>6, <1>7, <1>8 DEF IndInv

LEMMA PublishPreserves == ASSUME IndInv, NEW t \in Tags, Publish(t) PROVE IndInv'
  <1> USE TagSearchAssumption
  <1>1. \A u \in Tags : /\ published[u] \in Nat
                        /\ published'[u] \in Nat
                        /\ published[u] <= published'[u]
                        /\ published'[u] <= Len(Contents[u])
    BY SMTT(40) DEF IndInv, TypeOK, Publish
  <1>2. TypeOK'
    <2>1. published' \in [Tags -> Nat] BY <1>1 DEF IndInv, TypeOK, Publish
    <2>2. \A k \in DOMAIN searches : searches[k].told <= published'[searches[k].tag]
      <3> TAKE k \in DOMAIN searches
      <3>1. searches[k] \in Search_ /\ searches[k].told <= published[searches[k].tag]
        BY DEF IndInv, TypeOK
      <3> QED BY <3>1, <1>1 DEF Search_
    <2> QED BY <1>1, <2>1, <2>2 DEF IndInv, TypeOK, Publish, list
  <1>3. RowsAgree' BY DEF IndInv, RowsAgree, Publish, list
  <1>4. FoundStays' BY DEF IndInv, FoundStays, Publish, list
  <1>5. StoryIsTapped' /\ TapsAreShown' BY TapsStayIfKept DEF IndInv, TapsKept, Publish
  <1> QED BY <1>2, <1>3, <1>4, <1>5 DEF IndInv

-----------------------------------------------------------------------------
LEMMA NotifyPreserves ==
  ASSUME IndInv, NEW k \in DOMAIN searches, NEW v \in 1 .. published[searches[k].tag],
         Notify(k, v)
  PROVE  IndInv'
  <1> USE TagSearchAssumption
  <1> DEFINE t == searches[k].tag
             new == Contents[t][v]
  <1>1. searches \in Seq(Search_) /\ searches[k] \in Search_ /\ t \in Tags
    <2>1. searches \in Seq(Search_) BY DEF IndInv, TypeOK
    <2>2. searches[k] \in Search_ BY <2>1, ElementOfSeq
    <2> QED BY <2>1, <2>2 DEF Search_
  <1>2. /\ published[t] \in Nat /\ published[t] <= Len(Contents[t])
        /\ v \in Nat /\ searches[k].told < v /\ v <= published[t]
    <2>1. published[t] \in Nat /\ published[t] <= Len(Contents[t])
      BY <1>1 DEF IndInv, TypeOK
    <2>2. searches[k].told \in Nat BY <1>1 DEF Search_
    <2> QED BY <2>1, <2>2, SMTT(40) DEF Notify, Called
  <1>3. new \in Seq(Pictures)
    <2>1. Contents[t] \in Seq(Seq(Pictures)) BY <1>1
    <2>2. v \in 1 .. Len(Contents[t]) BY <1>2, <2>1
    <2> QED BY <2>1, <2>2
  <1>4. /\ filtered \in Seq(Pictures)
        /\ filtered' = filtered \o new
        /\ rows' = filtered'
    BY DEF IndInv, TypeOK, Notify, Called
  <1>5. /\ DOMAIN searches' = DOMAIN searches
        /\ searches' \in Seq(Search_)
        /\ searches'[k].told = v
        /\ searches'[k].cleared = searches[k].cleared
        /\ searches'[k].tag = t
        /\ \A n \in DOMAIN searches : n # k => searches'[n] = searches[n]
    <2>1. searches' = [searches EXCEPT ![k].told = v] BY DEF Notify, Called
    <2>2. [searches[k] EXCEPT !.told = v] \in Search_ BY <1>1, <1>2 DEF Search_
    <2>3. searches' \in Seq(Search_) BY <1>1, <2>1, <2>2, ExceptSeq
    <2>4. /\ DOMAIN searches' = DOMAIN searches
          /\ searches'[k] = [searches[k] EXCEPT !.told = v]
          /\ \A n \in DOMAIN searches : n # k => searches'[n] = searches[n]
      BY <1>1, <2>1
    <2> QED BY <1>1, <2>3, <2>4 DEF Search_
  <1>6. TypeOK'
    <2>1. filtered' \in Seq(Pictures) /\ rows' \in Seq(Pictures) BY <1>3, <1>4
    <2>2. \A n \in DOMAIN searches' : /\ searches'[n].cleared <= searches'[n].told
                                      /\ searches'[n].told <= published[searches'[n].tag]
      <3>1. searches[k].cleared <= searches[k].told /\ searches[k].cleared \in Nat
            /\ searches[k].told \in Nat
        BY <1>1 DEF IndInv, TypeOK, Search_
      <3>2. searches'[k].cleared <= searches'[k].told
        BY <3>1, <1>2, <1>5, SMTT(40)
      <3> QED BY <3>2, <1>2, <1>5 DEF IndInv, TypeOK
    <2> QED BY <1>5, <2>1, <2>2 DEF IndInv, TypeOK, Notify, Called, bar
  <1>7. RowsAgree' BY <1>4 DEF IndInv, RowsAgree, Notify, Called
  <1>8. FoundStays'
    <2>1. ToSet(filtered) \subseteq ToSet(filtered') /\ ToSet(new) \subseteq ToSet(filtered')
      BY <1>3, <1>4, ToSetConcat
    <2> SUFFICES ASSUME NEW n \in DOMAIN searches', searches'[n].told > searches'[n].cleared
                 PROVE  ToSet(Contents[searches'[n].tag][searches'[n].told])
                          \subseteq ToSet(filtered')
      BY DEF FoundStays
    <2>2. CASE n = k BY <2>1, <2>2, <1>5
    <2>3. CASE n # k BY <2>1, <2>3, <1>5 DEF IndInv, FoundStays
    <2> QED BY <2>2, <2>3
  <1>9. StoryIsTapped' /\ TapsAreShown'
    BY TapsStayIfKept DEF IndInv, TapsKept, Notify, Called
  <1> QED BY <1>6, <1>7, <1>8, <1>9 DEF IndInv

LEMMA NotifyErrorPreserves ==
  ASSUME IndInv, NEW k \in DOMAIN searches, NotifyError(k) PROVE IndInv'
  <1>1. searches \in Seq(Search_) /\ searches[k] \in Search_
    BY DEF IndInv, TypeOK
  <1>2. /\ DOMAIN searches' = DOMAIN searches
        /\ searches' \in Seq(Search_)
        /\ \A n \in DOMAIN searches : /\ searches'[n].told = searches[n].told
                                      /\ searches'[n].cleared = searches[n].cleared
                                      /\ searches'[n].tag = searches[n].tag
    <2>1. searches' = [searches EXCEPT ![k].live = FALSE] BY DEF NotifyError
    <2>2. [searches[k] EXCEPT !.live = FALSE] \in Search_ BY <1>1 DEF Search_
    <2>3. \A n \in DOMAIN searches : searches[n] \in Search_ BY <1>1
    <2> QED BY <1>1, <2>1, <2>2, <2>3, SMTT(40) DEF Search_
  <1>3. TypeOK' BY <1>2 DEF IndInv, TypeOK, NotifyError, bar, list
  <1>4. RowsAgree' BY DEF IndInv, RowsAgree, NotifyError, list
  <1>5. FoundStays' BY <1>2 DEF IndInv, FoundStays, NotifyError, list
  <1>6. StoryIsTapped' /\ TapsAreShown' BY TapsStayIfKept DEF IndInv, TapsKept, NotifyError
  <1> QED BY <1>3, <1>4, <1>5, <1>6 DEF IndInv

-----------------------------------------------------------------------------
LEMMA TapPreserves == ASSUME IndInv, NEW r \in DOMAIN rows, Tap(r) PROVE IndInv'
  <1> USE TagSearchAssumption
  <1> DEFINE tap == [row |-> r, shown |-> rows[r], url |-> filtered[r],
                     rcvimage |-> NoPicture, busy |-> TRUE]
  <1>1. r \in DOMAIN filtered /\ rows[r] = filtered[r] /\ r \in Nat /\ filtered[r] \in Pictures
    BY DEF IndInv, RowsAgree, TypeOK
  <1>2. taps \in Seq(Tap_) /\ tap \in Tap_
    BY <1>1 DEF IndInv, TypeOK, Tap_
  <1>3. /\ taps' = Append(taps, tap)
        /\ UNCHANGED <<bar, searches, list, stories, page, process>>
    BY <1>1 DEF Tap
  <1>4. /\ DOMAIN taps \subseteq DOMAIN taps'
        /\ \A k \in DOMAIN taps' : IF k \in DOMAIN taps THEN taps'[k] = taps[k]
                                                        ELSE taps'[k] = tap
    BY <1>2, <1>3
  <1>5. TypeOK'
    <2>1. taps' \in Seq(Tap_) BY <1>2, <1>3
    <2>2. stories' \in Seq(DOMAIN taps') BY <1>3, <1>4 DEF IndInv, TypeOK
    <2> QED BY <1>3, <2>1, <2>2 DEF IndInv, TypeOK, bar, list
  <1>6. RowsAgree' BY <1>3 DEF IndInv, RowsAgree, list
  <1>7. FoundStays' BY <1>3, FoundStaysIfKept DEF IndInv, ListKept, bar, list
  <1>8. TapsAreShown' BY <1>1, <1>4 DEF IndInv, TapsAreShown
  <1>9. StoryIsTapped' BY <1>3, <1>4, SMTT(40) DEF IndInv, StoryIsTapped, TypeOK
  <1> QED BY <1>5, <1>6, <1>7, <1>8, <1>9 DEF IndInv

LEMMA FunctionIsSeq ==
  ASSUME NEW S, NEW n \in Nat, NEW f \in [1 .. n -> S] PROVE f \in Seq(S)
  OBVIOUS

\* What becomes of the taps when the download of one of them ends with p.
LEMMA OneTapEnds ==
  ASSUME IndInv, NEW k \in DOMAIN taps, NEW p \in {taps[k].rcvimage, taps[k].url},
         taps' = [taps EXCEPT ![k].rcvimage = p, ![k].busy = FALSE]
  PROVE  /\ DOMAIN taps' = DOMAIN taps
         /\ taps' \in Seq(Tap_)
         /\ taps'[k].rcvimage = p /\ ~taps'[k].busy
         /\ taps'[k].shown = taps[k].shown /\ taps'[k].url = taps[k].url
         /\ \A n \in DOMAIN taps : n # k => taps'[n] = taps[n]
         /\ TapsAreShown'
  <1>1. taps \in Seq(Tap_) /\ taps[k] \in Tap_
    BY DEF IndInv, TypeOK
  <1>2. [taps[k] EXCEPT !.rcvimage = p, !.busy = FALSE] \in Tap_
    BY <1>1 DEF Tap_
  <1>3. /\ DOMAIN taps' = DOMAIN taps
        /\ taps' \in Seq(Tap_)
        /\ taps'[k] = [taps[k] EXCEPT !.rcvimage = p, !.busy = FALSE]
        /\ \A n \in DOMAIN taps : n # k => taps'[n] = taps[n]
    <2> DEFINE e == [taps[k] EXCEPT !.rcvimage = p, !.busy = FALSE]
    <2>1. taps' = [taps EXCEPT ![k] = e]
      BY <1>1 DEF Tap_
    <2>2. k \in 1 .. Len(taps) /\ e \in Tap_
      BY <1>1, <1>2
    <2> HIDE DEF e
    <2>3. taps' \in Seq(Tap_)
      <3>1. taps \in [1 .. Len(taps) -> Tap_] /\ Len(taps) \in Nat
        BY <1>1
      <3>2. taps' \in [1 .. Len(taps) -> Tap_]
        BY <2>1, <2>2, <3>1, Zenon
      <3> QED
        BY <3>1, <3>2, FunctionIsSeq, Zenon
    <2>4. DOMAIN taps' = DOMAIN taps /\ taps'[k] = e
      BY <1>1, <2>1
    <2>5. \A n \in DOMAIN taps : n # k => taps'[n] = taps[n]
      BY <2>1
    <2> QED
      BY <2>3, <2>4, <2>5 DEF e
  <1>4. /\ taps'[k].rcvimage = p /\ ~taps'[k].busy
        /\ taps'[k].shown = taps[k].shown /\ taps'[k].url = taps[k].url
    BY <1>1, <1>3 DEF Tap_
  <1>5. TapsAreShown'
    BY <1>3, <1>4 DEF IndInv, TapsAreShown
  <1> QED BY <1>3, <1>4, <1>5

LEMMA AnswerPreserves == ASSUME IndInv, NEW k \in DOMAIN taps, Answer(k) PROVE IndInv'
  <1>1. /\ taps[k].busy
        /\ taps' = [taps EXCEPT ![k].rcvimage = taps[k].url, ![k].busy = FALSE]
        /\ stories' = IF page = "gone" THEN stories ELSE Append(stories, k)
        /\ UNCHANGED <<bar, searches, list, page, process>>
    BY DEF Answer, Answered
  <1>2. /\ DOMAIN taps' = DOMAIN taps
        /\ taps' \in Seq(Tap_)
        /\ taps'[k].rcvimage = taps[k].url /\ ~taps'[k].busy
        /\ taps'[k].shown = taps[k].shown /\ taps'[k].url = taps[k].url
        /\ \A n \in DOMAIN taps : n # k => taps'[n] = taps[n]
        /\ TapsAreShown'
    BY <1>1, OneTapEnds
  <1>3. /\ stories \in Seq(DOMAIN taps)
        /\ stories' \in Seq(DOMAIN taps)
        /\ \A n \in DOMAIN stories' : \/ stories'[n] = k
                                      \/ n \in DOMAIN stories /\ stories'[n] = stories[n]
    <2>1. stories \in Seq(DOMAIN taps) BY DEF IndInv, TypeOK
    <2>2. CASE page = "gone" BY <1>1, <2>1, <2>2
    <2>3. CASE page # "gone"
      <3>1. stories' = Append(stories, k) BY <1>1, <2>3
      <3>2. stories' \in Seq(DOMAIN taps) BY <2>1, <3>1, AppendProperties
      <3>3. \A n \in DOMAIN stories' : n # Len(stories) + 1 =>
               n \in DOMAIN stories /\ stories'[n] = stories[n]
        BY <2>1, <3>1
      <3>4. stories'[Len(stories) + 1] = k BY <2>1, <3>1
      <3> QED BY <2>1, <3>2, <3>3, <3>4
    <2> QED BY <2>2, <2>3
  <1>4. TypeOK' BY <1>1, <1>2, <1>3 DEF IndInv, TypeOK, bar, list
  <1>5. RowsAgree' BY <1>1 DEF IndInv, RowsAgree, list
  <1>6. FoundStays' BY <1>1, FoundStaysIfKept DEF IndInv, ListKept, bar, list
  <1>7. StoryIsTapped'
    <2> SUFFICES ASSUME NEW n \in DOMAIN stories'
                 PROVE  /\ ~taps'[stories'[n]].busy
                        /\ taps'[stories'[n]].rcvimage = taps'[stories'[n]].shown
      BY DEF StoryIsTapped
    <2>1. CASE stories'[n] = k
      BY <2>1, <1>2 DEF IndInv, TapsAreShown
    <2>2. CASE stories'[n] # k
      <3>1. n \in DOMAIN stories /\ stories'[n] = stories[n] BY <2>2, <1>3
      <3>2. stories[n] \in DOMAIN taps BY <3>1, <1>3
      <3> QED BY <2>2, <3>1, <3>2, <1>2 DEF IndInv, StoryIsTapped
    <2> QED BY <2>1, <2>2
  <1> QED BY <1>2, <1>4, <1>5, <1>6, <1>7 DEF IndInv

LEMMA AnswerLostPreserves ==
  ASSUME IndInv, NEW k \in DOMAIN taps, AnswerLost(k) PROVE IndInv'
  <1>1. /\ taps[k].busy
        /\ taps' = [taps EXCEPT ![k].busy = FALSE]
        /\ UNCHANGED <<bar, searches, list, stories, page, process>>
    BY DEF AnswerLost
  <1>2. taps \in Seq(Tap_) /\ taps[k] \in Tap_
    BY DEF IndInv, TypeOK
  <1>3. /\ DOMAIN taps' = DOMAIN taps
        /\ taps' \in Seq(Tap_)
        /\ taps'[k].shown = taps[k].shown /\ taps'[k].url = taps[k].url
        /\ taps'[k].rcvimage = taps[k].rcvimage
        /\ \A n \in DOMAIN taps : n # k => taps'[n] = taps[n]
    <2>1. [taps[k] EXCEPT !.busy = FALSE] \in Tap_ BY <1>2 DEF Tap_
    <2>2. taps' \in Seq(Tap_) BY <1>1, <1>2, <2>1, ExceptSeq
    <2>3. /\ DOMAIN taps' = DOMAIN taps
          /\ taps'[k] = [taps[k] EXCEPT !.busy = FALSE]
          /\ \A n \in DOMAIN taps : n # k => taps'[n] = taps[n]
      BY <1>1, <1>2
    <2> QED BY <1>2, <2>2, <2>3 DEF Tap_
  <1>4. TypeOK' BY <1>1, <1>3 DEF IndInv, TypeOK, bar, list
  <1>5. RowsAgree' BY <1>1 DEF IndInv, RowsAgree, list
  <1>6. FoundStays' BY <1>1, FoundStaysIfKept DEF IndInv, ListKept, bar, list
  <1>7. TapsAreShown' BY <1>3 DEF IndInv, TapsAreShown
  <1>8. StoryIsTapped'
    <2>1. \A n \in DOMAIN stories : stories[n] \in DOMAIN taps /\ stories[n] # k
      BY <1>1 DEF IndInv, TypeOK, StoryIsTapped
    <2> QED BY <1>1, <1>3, <2>1 DEF IndInv, StoryIsTapped
  <1> QED BY <1>4, <1>5, <1>6, <1>7, <1>8 DEF IndInv

LEMMA BackPreserves == ASSUME IndInv, Back PROVE IndInv'
  <1>1. /\ stories \in Seq(DOMAIN taps)
        /\ stories' \in Seq(DOMAIN taps)
        /\ DOMAIN stories' \subseteq DOMAIN stories
        /\ \A n \in DOMAIN stories' : stories'[n] = stories[n]
    <2>1. stories \in Seq(DOMAIN taps) BY DEF IndInv, TypeOK
    <2>2. CASE stories = <<>> BY <2>1, <2>2 DEF Back
    <2>3. CASE stories # <<>>
      <3>1. stories' = SubSeq(stories, 1, Len(stories) - 1) /\ Len(stories) \in Nat \ {0}
        BY <2>1, <2>3 DEF Back, Front
      <3> QED BY <2>1, <3>1
    <2> QED BY <2>2, <2>3
  <1>2. TypeOK' BY <1>1 DEF IndInv, TypeOK, Back, bar, list
  <1>3. RowsAgree' BY DEF IndInv, RowsAgree, Back, list
  <1>4. FoundStays' BY FoundStaysIfKept DEF IndInv, ListKept, Back, bar, list
  <1>5. StoryIsTapped' /\ TapsAreShown'
    BY <1>1 DEF IndInv, StoryIsTapped, TapsAreShown, Back
  <1> QED BY <1>2, <1>3, <1>4, <1>5 DEF IndInv

-----------------------------------------------------------------------------
LEMMA StepPreserves == ASSUME IndInv, [Next]_vars PROVE IndInv'
  <1>1. CASE \E t \in Tags \cup BadTexts \cup {Empty} : Type(t)
    BY <1>1, TypePreserves
  <1>2. CASE Search BY <1>2, SearchPreserves
  <1>3. CASE SearchBadText BY <1>3, TrapPreserves DEF SearchBadText
  <1>4. CASE Cancel BY <1>4, CancelPreserves
  <1>5. CASE \E t \in Tags : Publish(t) BY <1>5, PublishPreserves
  <1>6. CASE \E k \in DOMAIN searches : Listener(k)
    <2> PICK k \in DOMAIN searches : Listener(k) BY <1>6
    <2>1. CASE \E v \in 1 .. published[searches[k].tag] : Notify(k, v)
      BY <2>1, NotifyPreserves
    <2>2. CASE NotifyMissing(k) BY <2>2, TrapPreserves DEF NotifyMissing
    <2>3. CASE NotifyError(k) BY <2>3, NotifyErrorPreserves
    <2> QED BY <2>1, <2>2, <2>3 DEF Listener
  <1>7. CASE \E r \in DOMAIN rows : Tap(r) BY <1>7, TapPreserves
  <1>8. CASE \E k \in DOMAIN taps : Download(k)
    <2> PICK k \in DOMAIN taps : Download(k) BY <1>8
    <2>1. CASE Answer(k) BY <2>1, AnswerPreserves
    <2>2. CASE AnswerError(k) BY <2>2, TrapPreserves DEF AnswerError
    <2>3. CASE AnswerNoImage(k) BY <2>3, TrapPreserves DEF AnswerNoImage
    <2>4. CASE AnswerLost(k) BY <2>4, AnswerLostPreserves
    <2> QED BY <2>1, <2>2, <2>3, <2>4 DEF Download
  <1>9. CASE Back BY <1>9, BackPreserves
  <1>10. CASE UNCHANGED vars
    <2>1. TypeOK' BY <1>10 DEF IndInv, TypeOK, vars, bar, list
    <2>2. RowsAgree' BY <1>10 DEF IndInv, RowsAgree, vars, list
    <2>3. FoundStays' BY <1>10, FoundStaysIfKept DEF IndInv, ListKept, vars, bar, list
    <2>4. StoryIsTapped' /\ TapsAreShown'
      BY <1>10, TapsStayIfKept DEF IndInv, TapsKept, vars
    <2> QED BY <2>1, <2>2, <2>3, <2>4 DEF IndInv
  <1> QED
    BY <1>1, <1>2, <1>3, <1>4, <1>5, <1>6, <1>7, <1>8, <1>9, <1>10 DEF Next

\* The five conjuncts of IndInv hold in every behaviour.
THEOREM Inductive == Spec => []IndInv
  BY InitInv, StepPreserves, PTL DEF Spec

\* Every variable keeps its type, and no listener is ahead of its document.
THEOREM TypeCorrect == Spec => []TypeOK
  <1>1. IndInv => TypeOK BY DEF IndInv
  <1> QED BY <1>1, Inductive, PTL

\* The rows on screen are the pictures found, and no index is beyond them.
THEOREM RowsAlwaysAgree == Spec => []RowsAgree
  <1>1. IndInv => RowsAgree BY DEF IndInv
  <1> QED BY <1>1, Inductive, PTL

\* A story shows the picture that was tapped for it, whatever the listeners of
\* other searches and cancels did to the list before the download ended.
THEOREM StoriesAreTapped == Spec => []StoryIsTapped
  <1>1. IndInv => StoryIsTapped BY DEF IndInv
  <1> QED BY <1>1, Inductive, PTL

\* What a listener was told of since the last cancel stays listed.
THEOREM FoundIsKept == Spec => []FoundStays
  <1>1. IndInv => FoundStays BY DEF IndInv
  <1> QED BY <1>1, Inductive, PTL

\* A screen that was left pushes no story.
THEOREM QuietWhenGone == Spec => GoneIsQuiet
  <1>1. ASSUME [Next]_vars PROVE [page = "gone" => stories' = stories]_vars
    <2> SUFFICES ASSUME Next, page = "gone" PROVE stories' = stories
      BY <1>1
    <2>1. CASE \E k \in DOMAIN searches : Listener(k)
      BY <2>1 DEF Listener, Notify, Called, NotifyMissing, NotifyError, Trap
    <2>2. CASE \E k \in DOMAIN taps : Download(k)
      BY <2>2 DEF Download, Answer, Answered, AnswerError, AnswerNoImage, AnswerLost, Trap
    <2>3. CASE \E t \in Tags : Publish(t)
      BY <2>3 DEF Publish
    <2> QED
      BY <2>1, <2>2, <2>3
      DEF Next, Type, Search, Listen, SearchBadText, Cancel, ClearAnd, Tap, Back, OnTop
  <1> QED BY <1>1, PTL DEF Spec, GoneIsQuiet

-----------------------------------------------------------------------------
(* How often a picture is listed *)

\* The places of p in a concatenation are those in its parts.
LEMMA PlacesConcat ==
  ASSUME NEW S, NEW s \in Seq(S), NEW t \in Seq(S), NEW p
  PROVE  /\ IsFiniteSet(Places(s, p)) /\ IsFiniteSet(Places(t, p))
         /\ Cardinality(Places(s, p)) \in Nat /\ Cardinality(Places(t, p)) \in Nat
         /\ Cardinality(Places(s \o t, p)) \in Nat
         /\ Cardinality(Places(s \o t, p)) <= Cardinality(Places(s, p)) + Cardinality(Places(t, p))
  <1> DEFINE A == Places(s, p)
             B == Places(t, p)
             C == {Len(s) + n : n \in B}
             f == [n \in B |-> Len(s) + n]
  <1>1. /\ Len(s) \in Nat /\ Len(t) \in Nat /\ DOMAIN s = 1 .. Len(s) /\ DOMAIN t = 1 .. Len(t)
        /\ s \o t \in Seq(S) /\ DOMAIN (s \o t) = 1 .. (Len(s) + Len(t))
        /\ \A i \in 1 .. (Len(s) + Len(t)) :
              (s \o t)[i] = IF i <= Len(s) THEN s[i] ELSE t[i - Len(s)]
    BY ConcatProperties, LenProperties
  <1>2. IsFiniteSet(A) /\ IsFiniteSet(B) /\ A \subseteq 1 .. Len(s) /\ B \subseteq 1 .. Len(t)
    <2>1. A \subseteq 1 .. Len(s) /\ B \subseteq 1 .. Len(t)
      BY <1>1 DEF Places
    <2>2. IsFiniteSet(1 .. Len(s)) /\ IsFiniteSet(1 .. Len(t))
      BY <1>1, FS_Interval
    <2> HIDE DEF A, B
    <2> QED BY <2>1, <2>2, FS_Subset
  <1>3. Places(s \o t, p) \subseteq A \cup C
    <2>1. ASSUME NEW i \in Places(s \o t, p) PROVE i \in A \cup C
      <3>1. i \in 1 .. (Len(s) + Len(t)) /\ (s \o t)[i] = p
        BY <1>1 DEF Places
      <3>2. CASE i <= Len(s)
        BY <1>1, <3>1, <3>2 DEF Places
      <3>3. CASE ~(i <= Len(s))
        <4>1. i - Len(s) \in 1 .. Len(t) /\ t[i - Len(s)] = p /\ i = Len(s) + (i - Len(s))
          BY <1>1, <3>1, <3>3
        <4>2. i - Len(s) \in B
          BY <1>1, <4>1 DEF Places
        <4> QED BY <4>1, <4>2
      <3> QED BY <3>2, <3>3
    <2> QED BY <2>1
  <1>4. f \in Surjection(B, C)
    BY DEF Surjection
  <1> HIDE DEF A, B, C, f
  <1>5. IsFiniteSet(C) /\ Cardinality(C) <= Cardinality(B)
    BY <1>2, <1>4, FS_Surjection
  <1>6. /\ IsFiniteSet(A \cup C)
        /\ Cardinality(A \cup C) = Cardinality(A) + Cardinality(C) - Cardinality(A \cap C)
    BY <1>2, <1>5, FS_Union
  <1>7. IsFiniteSet(A \cap C)
    BY <1>2, FS_Intersection
  <1>8. /\ IsFiniteSet(Places(s \o t, p))
        /\ Cardinality(Places(s \o t, p)) <= Cardinality(A \cup C)
    BY <1>3, <1>6, FS_Subset
  <1>9. /\ Cardinality(A) \in Nat /\ Cardinality(B) \in Nat /\ Cardinality(C) \in Nat
        /\ Cardinality(A \cap C) \in Nat /\ Cardinality(Places(s \o t, p)) \in Nat
        /\ Cardinality(A \cup C) \in Nat
    BY <1>2, <1>5, <1>6, <1>7, <1>8, FS_CardinalityType
  <1>10. Cardinality(Places(s \o t, p)) <= Cardinality(A) + Cardinality(B)
    BY <1>5, <1>6, <1>8, <1>9
  <1> QED BY <1>2, <1>9, <1>10 DEF A, B

\* A family of finite sets indexed by a finite set has a finite union.
LEMMA FamilyIsFinite ==
  ASSUME NEW D, IsFiniteSet(D), NEW F, DOMAIN F = D, \A d \in D : IsFiniteSet(F[d])
  PROVE  IsFiniteSet(UNION {F[d] : d \in D})
  <1> DEFINE R == {F[d] : d \in D}
             g == [d \in D |-> F[d]]
  <1>1. g \in Surjection(D, R)
    BY DEF Surjection
  <1>2. \A T \in R : IsFiniteSet(T)
    OBVIOUS
  <1> HIDE DEF R, g
  <1>3. IsFiniteSet(R)
    BY <1>1, FS_Surjection
  <1> QED BY <1>2, <1>3, FS_UNION DEF R

\* There are no more tellings than can be counted.
LEMMA ToldIsFinite ==
  ASSUME TypeOK, NEW p
  PROVE  /\ IsFiniteSet(ToldOf(p)) /\ Cardinality(ToldOf(p)) \in Nat
         /\ \A d \in Tellings : /\ d = <<d[1], d[2]>> /\ d[1] \in DOMAIN searches
                                /\ d[2] \in (searches[d[1]].cleared + 1) .. searches[d[1]].told
                                /\ Contents[searches[d[1]].tag][d[2]] \in Seq(Pictures)
  <1> USE TagSearchAssumption
  <1>1. searches \in Seq(Search_) /\ Len(searches) \in Nat /\ DOMAIN searches = 1 .. Len(searches)
        /\ \A k \in DOMAIN searches : searches[k] \in Search_
    BY LenProperties, ElementOfSeq DEF TypeOK
  <1>2. \A k \in DOMAIN searches : /\ searches[k].cleared \in Nat /\ searches[k].told \in Nat
                                   /\ searches[k].tag \in Tags
                                   /\ searches[k].told <= published[searches[k].tag]
    BY <1>1 DEF TypeOK, Search_
  <1> DEFINE F == [k \in DOMAIN searches |->
                      {k} \X ((searches[k].cleared + 1) .. searches[k].told)]
  <1>3. \A k \in DOMAIN searches : IsFiniteSet(F[k])
    <2>1. ASSUME NEW k \in DOMAIN searches PROVE IsFiniteSet(F[k])
      <3>1. IsFiniteSet({k}) /\ IsFiniteSet((searches[k].cleared + 1) .. searches[k].told)
        <4>1. searches[k].cleared + 1 \in Nat /\ searches[k].told \in Nat
          BY <1>2
        <4>2. IsFiniteSet((searches[k].cleared + 1) .. searches[k].told)
          BY <4>1, FS_Interval, SMTT(40)
        <4>3. IsFiniteSet({k})
          BY FS_Singleton
        <4> QED BY <4>2, <4>3
      <3> QED BY <3>1, FS_Product
    <2> QED BY <2>1
  <1>4. Tellings = UNION {F[k] : k \in DOMAIN searches}
    BY DEF Tellings
  <1>5. IsFiniteSet(Tellings)
    <2>1. IsFiniteSet(DOMAIN searches)
      BY <1>1, FS_Interval
    <2>2. DOMAIN F = DOMAIN searches
      OBVIOUS
    <2> HIDE DEF F
    <2> QED BY <1>3, <1>4, <2>1, <2>2, FamilyIsFinite
  <1>6. ASSUME NEW d \in Tellings
        PROVE  /\ d = <<d[1], d[2]>> /\ d[1] \in DOMAIN searches
               /\ d[2] \in (searches[d[1]].cleared + 1) .. searches[d[1]].told
               /\ Contents[searches[d[1]].tag][d[2]] \in Seq(Pictures)
    <2>1. PICK k \in DOMAIN searches : d \in {k} \X ((searches[k].cleared + 1) .. searches[k].told)
      BY DEF Tellings
    <2>2. d = <<d[1], d[2]>> /\ d[1] = k /\ d[2] \in (searches[k].cleared + 1) .. searches[k].told
      BY <2>1
    <2>3. Contents[searches[k].tag] \in Seq(Seq(Pictures)) /\ searches[k].tag \in Tags
      BY <1>2
    <2>4. published[searches[k].tag] \in Nat /\ published[searches[k].tag] <= Len(Contents[searches[k].tag])
      BY <2>3 DEF TypeOK
    <2>5. d[2] \in 1 .. Len(Contents[searches[k].tag])
      BY <1>2, <2>2, <2>3, <2>4, LenProperties, SMTT(40)
    <2>6. Contents[searches[k].tag][d[2]] \in Seq(Pictures)
      BY <2>3, <2>5, ElementOfSeq
    <2> QED BY <2>2, <2>6
  <1> DEFINE G == [d \in Tellings |-> {d} \X Places(Contents[searches[d[1]].tag][d[2]], p)]
  <1>7. \A d \in Tellings : IsFiniteSet(G[d])
    <2>1. ASSUME NEW d \in Tellings PROVE IsFiniteSet(G[d])
      <3>1. Contents[searches[d[1]].tag][d[2]] \in Seq(Pictures)
        BY <1>6
      <3>2. IsFiniteSet(Places(Contents[searches[d[1]].tag][d[2]], p))
        BY <3>1, PlacesConcat
      <3>3. IsFiniteSet({d})
        BY FS_Singleton
      <3> QED BY <3>2, <3>3, FS_Product
    <2> QED BY <2>1
  <1>8. ToldOf(p) = UNION {G[d] : d \in Tellings}
    BY DEF ToldOf
  <1>9. IsFiniteSet(ToldOf(p))
    <2>1. DOMAIN G = Tellings
      OBVIOUS
    <2> HIDE DEF G
    <2> QED BY <1>5, <1>7, <1>8, <2>1, FamilyIsFinite
  <1> QED BY <1>6, <1>9, FS_CardinalityType

\* Searches are told more, and of what they were told nothing is taken back.
LEMMA ToldGrows ==
  ASSUME TypeOK, DOMAIN searches \subseteq DOMAIN searches',
         \A n \in DOMAIN searches : /\ searches'[n].tag = searches[n].tag
                                    /\ searches'[n].cleared = searches[n].cleared
                                    /\ searches'[n].told \in Nat
                                    /\ searches[n].told <= searches'[n].told,
         NEW p
  PROVE  ToldOf(p) \subseteq ToldOf(p)'
  <1>1. \A d \in Tellings : d \in Tellings' /\ searches'[d[1]].tag = searches[d[1]].tag
    <2>1. ASSUME NEW d \in Tellings
          PROVE  d \in Tellings' /\ searches'[d[1]].tag = searches[d[1]].tag
      <3>1. /\ d = <<d[1], d[2]>> /\ d[1] \in DOMAIN searches
            /\ d[2] \in (searches[d[1]].cleared + 1) .. searches[d[1]].told
        BY ToldIsFinite
      <3>2. searches[d[1]] \in Search_
        BY <3>1, ElementOfSeq DEF TypeOK
      <3>3. searches[d[1]].cleared \in Nat /\ searches[d[1]].told \in Nat
        BY <3>2 DEF Search_
      <3>4. d[1] \in DOMAIN searches' /\ d[2] \in (searches'[d[1]].cleared + 1) .. searches'[d[1]].told
        BY <3>1, <3>3
      <3>5. d \in {d[1]} \X ((searches'[d[1]].cleared + 1) .. searches'[d[1]].told)
        BY <3>1, <3>4
      <3> QED BY <3>1, <3>4, <3>5 DEF Tellings
    <2> QED BY <2>1
  <1> QED BY <1>1 DEF ToldOf

\* There never are more tellings than can be counted.
ToldFinite == \A p : IsFiniteSet(ToldOf(p)) /\ Cardinality(ToldOf(p)) \in Nat

LEMMA ToldIsFiniteNext == TypeOK' => ToldFinite'
  <1>1. TypeOK => ToldFinite
    BY ToldIsFinite DEF ToldFinite
  <1> QED BY <1>1, PTL

\* The steps that call no listener: the list stays, or is cleared.
LEMMA NothingMoreListed ==
  ASSUME TypeOK, TypeOK', NothingListedTwice, filtered' \in {<<>>, filtered},
         filtered' = filtered =>
            /\ DOMAIN searches \subseteq DOMAIN searches'
            /\ \A n \in DOMAIN searches : /\ searches'[n].tag = searches[n].tag
                                          /\ searches'[n].cleared = searches[n].cleared
                                          /\ searches'[n].told = searches[n].told
  PROVE  NothingListedTwice'
  <1> SUFFICES ASSUME NEW p \in Pictures
               PROVE  Cardinality(Places(filtered', p)) <= Cardinality(ToldOf(p)')
    BY DEF NothingListedTwice
  <1>1. /\ IsFiniteSet(ToldOf(p)) /\ Cardinality(ToldOf(p)) \in Nat
        /\ IsFiniteSet(ToldOf(p)') /\ Cardinality(ToldOf(p)') \in Nat
    BY ToldIsFinite, ToldIsFiniteNext DEF ToldFinite
  <1>2. CASE filtered' = <<>>
    <2>1. Places(filtered', p) = {}
      BY <1>2 DEF Places
    <2> QED BY <1>1, <2>1, FS_EmptySet
  <1>3. CASE filtered' = filtered
    <2>1. \A n \in DOMAIN searches : searches[n].told \in Nat
      <3>1. \A n \in DOMAIN searches : searches[n] \in Search_
        BY ElementOfSeq DEF TypeOK
      <3> QED BY <3>1 DEF Search_
    <2>2. \A n \in DOMAIN searches : /\ searches'[n].told \in Nat
                                     /\ searches[n].told <= searches'[n].told
      BY <1>3, <2>1
    <2>3. ToldOf(p) \subseteq ToldOf(p)'
      BY <1>3, <2>2, ToldGrows
    <2>4. Cardinality(ToldOf(p)) <= Cardinality(ToldOf(p)')
      BY <1>1, <2>3, FS_Subset
    <2>5. Cardinality(Places(filtered, p)) <= Cardinality(ToldOf(p))
      BY DEF NothingListedTwice
    <2>6. Cardinality(Places(filtered, p)) \in Nat
      <3>1. filtered \in Seq(Pictures)
        BY DEF TypeOK
      <3> QED BY <3>1, PlacesConcat
    <2> QED BY <1>1, <1>3, <2>4, <2>5, <2>6
  <1> QED BY <1>2, <1>3

\* A call of a listener: what is appended is told now for the first time.
LEMMA NotifyListsOnce ==
  ASSUME IndInv, IndInv', NothingListedTwice,
         NEW k \in DOMAIN searches, NEW v \in 1 .. published[searches[k].tag], Notify(k, v)
  PROVE  NothingListedTwice'
  <1> DEFINE new == Contents[searches[k].tag][v]
  <1>1. /\ TypeOK /\ TypeOK' /\ searches \in Seq(Search_) /\ searches[k] \in Search_
        /\ searches' = [searches EXCEPT ![k].told = v]
        /\ filtered \in Seq(Pictures) /\ filtered' = filtered \o new
        /\ v \in (searches[k].told + 1) .. published[searches[k].tag]
    BY ElementOfSeq, SMTT(40) DEF IndInv, TypeOK, Notify, Called
  <1>2. \A n \in DOMAIN searches : searches[n] \in Search_ /\ searches[n].told \in Nat
    <2>1. \A n \in DOMAIN searches : searches[n] \in Search_
      BY <1>1, ElementOfSeq
    <2> QED BY <2>1 DEF Search_
  <1>3. /\ searches[k].cleared \in Nat /\ searches[k].told \in Nat
        /\ searches[k].cleared <= searches[k].told
        /\ v \in Nat /\ searches[k].told < v
    <2>1. searches[k].cleared \in Nat /\ searches[k].told \in Nat
      BY <1>1 DEF Search_
    <2>2. searches[k].cleared <= searches[k].told
      BY <1>1 DEF TypeOK
    <2> QED BY <1>1, <2>1, <2>2
  <1>4. /\ DOMAIN searches' = DOMAIN searches
        /\ searches'[k] = [searches[k] EXCEPT !.told = v]
        /\ \A n \in DOMAIN searches : n # k => searches'[n] = searches[n]
    BY <1>1
  <1>5. /\ searches'[k].told = v /\ searches'[k].tag = searches[k].tag
        /\ searches'[k].cleared = searches[k].cleared
    BY <1>1, <1>4 DEF Search_
  <1>6. \A n \in DOMAIN searches : /\ searches'[n].tag = searches[n].tag
                                   /\ searches'[n].cleared = searches[n].cleared
                                   /\ searches'[n].told \in Nat
                                   /\ searches[n].told <= searches'[n].told
    <2> SUFFICES ASSUME NEW n \in DOMAIN searches
                 PROVE  /\ searches'[n].tag = searches[n].tag
                        /\ searches'[n].cleared = searches[n].cleared
                        /\ searches'[n].told \in Nat
                        /\ searches[n].told <= searches'[n].told
      OBVIOUS
    <2>1. CASE n = k
      BY <1>3, <1>5, <2>1
    <2>2. CASE n # k
      BY <1>2, <1>4, <2>2
    <2> QED BY <2>1, <2>2
  <1>7. <<k, v>> \in Tellings'
    <2>1. v \in (searches'[k].cleared + 1) .. searches'[k].told
      BY <1>3, <1>5
    <2>2. <<k, v>> \in {k} \X ((searches'[k].cleared + 1) .. searches'[k].told)
      BY <2>1
    <2> QED BY <1>4, <2>2 DEF Tellings
  <1>8. <<k, v>> \notin Tellings
    <2> SUFFICES ASSUME <<k, v>> \in Tellings PROVE FALSE
      OBVIOUS
    <2> DEFINE d == <<k, v>>
    <2>1. d[1] = k /\ d[2] = v /\ d \in Tellings
      OBVIOUS
    <2> HIDE DEF d
    <2>2. d[2] \in (searches[d[1]].cleared + 1) .. searches[d[1]].told
      BY <1>1, <2>1, ToldIsFinite
    <2> QED BY <1>3, <2>1, <2>2
  <1>9. new \in Seq(Pictures)
    <2> DEFINE d == <<k, v>>
    <2>1. d[1] = k /\ d[2] = v /\ d \in Tellings'
      BY <1>7
    <2>2. searches[k].tag \in Tags /\ Contents[searches[k].tag] \in Seq(Seq(Pictures))
      BY <1>1, TagSearchAssumption DEF Search_
    <2>3. published[searches[k].tag] \in Nat /\ published[searches[k].tag] <= Len(Contents[searches[k].tag])
      BY <1>1, <2>2 DEF TypeOK
    <2>4. v \in 1 .. Len(Contents[searches[k].tag])
      BY <2>2, <2>3, LenProperties
    <2> QED BY <2>2, <2>4, ElementOfSeq
  <1> SUFFICES ASSUME NEW p \in Pictures
               PROVE  Cardinality(Places(filtered', p)) <= Cardinality(ToldOf(p)')
    BY DEF NothingListedTwice
  <1> DEFINE A == ToldOf(p)
             P == Places(new, p)
             B == {<<k, v>>} \X P
  <1>10. /\ IsFiniteSet(A) /\ Cardinality(A) \in Nat
         /\ IsFiniteSet(ToldOf(p)') /\ Cardinality(ToldOf(p)') \in Nat
    BY <1>1, ToldIsFinite, ToldIsFiniteNext DEF ToldFinite
  <1>11. /\ IsFiniteSet(P) /\ Cardinality(P) \in Nat
         /\ Cardinality(Places(filtered, p)) \in Nat /\ Cardinality(Places(filtered', p)) \in Nat
         /\ Cardinality(Places(filtered', p)) <= Cardinality(Places(filtered, p)) + Cardinality(P)
    <2> HIDE DEF new
    <2> QED BY <1>1, <1>9, PlacesConcat
  <1>12. IsFiniteSet(B) /\ Cardinality(B) = Cardinality(P)
    <2>1. IsFiniteSet({<<k, v>>}) /\ Cardinality({<<k, v>>}) = 1
      BY FS_Singleton
    <2> HIDE DEF P
    <2>2. IsFiniteSet(B) /\ Cardinality(B) = Cardinality({<<k, v>>}) * Cardinality(P)
      BY <1>11, <2>1, FS_Product
    <2> QED BY <1>11, <2>1, <2>2
  <1>13. A \subseteq ToldOf(p)'
    BY <1>1, <1>4, <1>6, ToldGrows
  <1>14. B \subseteq ToldOf(p)'
    <2> DEFINE d == <<k, v>>
    <2>1. d[1] = k /\ d[2] = v /\ d \in Tellings'
      BY <1>7
    <2>2. {d} \X Places(Contents[searches'[d[1]].tag][d[2]], p) \subseteq ToldOf(p)'
      <3> HIDE DEF d
      <3> QED BY <2>1 DEF ToldOf
    <2> QED BY <1>5, <2>1, <2>2
  <1>15. A \cap B = {}
    <2> SUFFICES ASSUME NEW e \in A, e \in B PROVE FALSE
      OBVIOUS
    <2>1. PICK d \in Tellings : e \in {d} \X Places(Contents[searches[d[1]].tag][d[2]], p)
      BY DEF ToldOf
    <2>2. e[1] = d
      BY <2>1
    <2>3. e[1] = <<k, v>>
      OBVIOUS
    <2> QED BY <1>8, <2>2, <2>3
  <1> HIDE DEF A, B, P, new
  <1>16. /\ IsFiniteSet(A \cup B)
         /\ Cardinality(A \cup B) = Cardinality(A) + Cardinality(B) - Cardinality(A \cap B)
    BY <1>10, <1>12, FS_Union
  <1>17. Cardinality(A \cap B) = 0
    BY <1>15, FS_EmptySet
  <1>18. Cardinality(A \cup B) <= Cardinality(ToldOf(p)')
    <2>1. A \cup B \subseteq ToldOf(p)'
      BY <1>13, <1>14
    <2> QED BY <1>10, <2>1, FS_Subset
  <1>19. Cardinality(Places(filtered, p)) <= Cardinality(A)
    BY DEF NothingListedTwice, A
  <1>20. Cardinality(A \cup B) = Cardinality(A) + Cardinality(P)
    BY <1>10, <1>11, <1>12, <1>16, <1>17
  <1> QED BY <1>10, <1>11, <1>18, <1>19, <1>20

\* Before anything is published nothing is listed.
LEMMA InitListsNothing == ASSUME Init PROVE NothingListedTwice
  <1>1. TypeOK
    BY InitInv DEF IndInv
  <1> SUFFICES ASSUME NEW p \in Pictures
               PROVE  Cardinality(Places(filtered, p)) <= Cardinality(ToldOf(p))
    BY DEF NothingListedTwice
  <1>2. Places(filtered, p) = {}
    BY DEF Init, Places
  <1>3. Cardinality(ToldOf(p)) \in Nat
    BY <1>1, ToldIsFinite
  <1> QED BY <1>2, <1>3, FS_EmptySet

\* Every step lists what it lists once.
LEMMA StepListsOnce ==
  ASSUME IndInv, NothingListedTwice, [Next]_vars PROVE NothingListedTwice'
  <1>1. IndInv' /\ TypeOK /\ TypeOK'
    <2>1. IndInv'
      BY StepPreserves
    <2> QED BY <2>1 DEF IndInv
  <1>2. ASSUME UNCHANGED <<searches, filtered>> PROVE NothingListedTwice'
    BY <1>1, <1>2, NothingMoreListed
  <1>3. CASE \E t \in Tags \cup BadTexts \cup {Empty} : Type(t)
    BY <1>2, <1>3 DEF Type, list
  <1>4. CASE Search
    <2> DEFINE s == [tag |-> text, told |-> 0, cleared |-> 0, live |-> TRUE]
    <2>1. searches' = Append(searches, s) /\ filtered' = filtered /\ searches \in Seq(Search_)
      BY <1>1, <1>4 DEF Search, Listen, list, TypeOK
    <2> HIDE DEF s
    <2>2. /\ DOMAIN searches \subseteq DOMAIN searches'
          /\ \A n \in DOMAIN searches : searches'[n] = searches[n]
      BY <2>1
    <2> QED BY <1>1, <2>1, <2>2, NothingMoreListed
  <1>5. CASE SearchBadText
    BY <1>2, <1>5 DEF SearchBadText, Trap, list
  <1>6. CASE Cancel
    <2>1. filtered' = <<>>
      BY <1>6 DEF Cancel, ClearAnd
    <2> SUFFICES ASSUME NEW p \in Pictures
                   PROVE  Cardinality(Places(filtered', p)) <= Cardinality(ToldOf(p)')
      BY DEF NothingListedTwice
    <2>2. Places(filtered', p) = {}
      BY <2>1 DEF Places
    <2>3. Cardinality(ToldOf(p)') \in Nat
      BY <1>1, ToldIsFiniteNext DEF ToldFinite
    <2> QED BY <2>2, <2>3, FS_EmptySet
  <1>7. CASE \E t \in Tags : Publish(t)
    BY <1>2, <1>7 DEF Publish, list
  <1>8. CASE \E k \in DOMAIN searches : Listener(k)
    <2> PICK k \in DOMAIN searches : Listener(k) BY <1>8
    <2>1. CASE \E v \in 1 .. published[searches[k].tag] : Notify(k, v)
      BY <1>1, <2>1, NotifyListsOnce
    <2>2. CASE NotifyMissing(k)
      BY <1>2, <2>2 DEF NotifyMissing, Trap, list
    <2>3. CASE NotifyError(k)
      <3>1. /\ searches' = [searches EXCEPT ![k].live = FALSE] /\ filtered' = filtered
            /\ searches \in Seq(Search_)
        BY <1>1, <2>3 DEF NotifyError, list, TypeOK
      <3>2. \A n \in DOMAIN searches : searches[n] \in Search_
        BY <3>1, ElementOfSeq
      <3>3. /\ DOMAIN searches' = DOMAIN searches
            /\ \A n \in DOMAIN searches : /\ searches'[n].tag = searches[n].tag
                                          /\ searches'[n].cleared = searches[n].cleared
                                          /\ searches'[n].told = searches[n].told
        BY <3>1, <3>2 DEF Search_
      <3> QED BY <1>1, <3>1, <3>3, NothingMoreListed
    <2> QED BY <2>1, <2>2, <2>3 DEF Listener
  <1>9. CASE \E r \in DOMAIN rows : Tap(r)
    BY <1>2, <1>9 DEF Tap, Trap, list
  <1>10. CASE \E k \in DOMAIN taps : Download(k)
    BY <1>2, <1>10
    DEF Download, Answer, Answered, AnswerError, AnswerNoImage, AnswerLost, Trap, list
  <1>11. CASE Back
    BY <1>2, <1>11 DEF Back, list
  <1>12. CASE UNCHANGED vars
    BY <1>2, <1>12 DEF vars, list
  <1> QED
    BY <1>3, <1>4, <1>5, <1>6, <1>7, <1>8, <1>9, <1>10, <1>11, <1>12 DEF Next

\* No picture is listed more often than searches were told of it since the list
\* was cleared, however often the same tag is searched.
THEOREM NothingIsListedTwice == Spec => []NothingListedTwice
  <1>1. Init => NothingListedTwice
    BY InitListsNothing
  <1>2. IndInv /\ NothingListedTwice /\ [Next]_vars => NothingListedTwice'
    BY StepListsOnce
  <1> QED BY <1>1, <1>2, Inductive, PTL DEF Spec
=============================================================================
