-------------------------- MODULE CallSitesProofs --------------------------
(***************************************************************************)
(* Proofs about CallSites, for any number of loggers and call sites, any   *)
(* sharing of sites among loggers and any width of the index: which log    *)
(* entries lead back to their own format string, and in which order the    *)
(* indices come into use.                                                  *)
(***************************************************************************)
EXTENDS CallSites, SequenceTheorems, TLAPS

\* The first IndexMod format strings of a logger are numbered in order.
Numbered ==
  \A l \in Logger :
    /\ Len(index_file[l]) < IndexMod => m_format_string_index[l] = Len(index_file[l])
    /\ \A n \in 1 .. Len(index_file[l]) :
         /\ pos[index_file[l][n]] # NotRun
         /\ n <= IndexMod => pos[index_file[l][n]] = n - 1

\* An entry carries its site's static.
Tagged ==
  \A l \in Logger : \A n \in 1 .. Len(entries[l]) :
    /\ pos[entries[l][n].site] # NotRun
    /\ pos[entries[l][n].site] = entries[l][n].index

\* A format string is registered by a call that also writes an entry.
Entered ==
  \A l \in Logger : \A n \in 1 .. Len(index_file[l]) :
    n <= IndexMod =>
      \E m \in 1 .. Len(entries[l]) : entries[l][m].index = n - 1

\* IndicesInOrderOfFirstUse, entry by entry.
Ordered ==
  \A l \in Logger : \A n \in 1 .. Len(entries[l]) :
    Addressable(l, entries[l][n].site) =>
      entries[l][n].index = 0
        \/ \E m \in 1 .. n - 1 : entries[l][m].index = entries[l][n].index - 1

\* The inductive invariant.
IInv == TypeOK /\ Numbered /\ Tagged /\ Entered /\ Ordered

-----------------------------------------------------------------------------

LEMMA InitEstablishesIInv == Init => IInv
<1> SUFFICES ASSUME Init PROVE IInv
  OBVIOUS
<1>1. TypeOK
  BY SitesAssumption, EmptySeq DEF Init, TypeOK, Uint8
<1>2. Numbered
  BY EmptySeq DEF Init, Numbered
<1>3. Tagged /\ Entered /\ Ordered
  BY EmptySeq DEF Init, Tagged, Entered, Ordered
<1> QED BY <1>1, <1>2, <1>3 DEF IInv

\* The index a new site gets.
LEMMA NewIndexIsCount ==
  ASSUME IInv, NEW l \in Logger
  PROVE  /\ Incremented(l) \in Uint8 /\ NewIndex(l) \in Uint8
         /\ Len(index_file[l]) < IndexMod => NewIndex(l) = Len(index_file[l])
         /\ Len(index_file[l]) + 1 < IndexMod => Incremented(l) = Len(index_file[l]) + 1
<1>1. m_format_string_index[l] \in 0 .. IndexMod - 1 /\ IndexMod \in Nat \ {0}
  BY SitesAssumption DEF IInv, TypeOK, Uint8
<1>2. Len(index_file[l]) < IndexMod => m_format_string_index[l] = Len(index_file[l])
  BY DEF IInv, Numbered
<1>3. Len(index_file[l]) \in Nat
  BY LenProperties DEF IInv, TypeOK
<1>4. NewIndex(l) = m_format_string_index[l]
  BY <1>1 DEF NewIndex, Incremented
<1> QED BY <1>1, <1>2, <1>3, <1>4 DEF Incremented, Uint8

\* What a call appends to the log of its logger.
LEMMA EntryFacts ==
  ASSUME IInv, NEW l \in Logger, NEW s \in Site, NEW i \in Uint8,
         LogEntry(l, s, i)
  PROVE  /\ entries' \in [Logger -> Seq([index : Uint8, site : Site])]
         /\ Len(entries'[l]) = Len(entries[l]) + 1
         /\ entries'[l][Len(entries[l]) + 1] = [index |-> i, site |-> s]
         /\ \A n \in 1 .. Len(entries[l]) : entries'[l][n] = entries[l][n]
         /\ \A k \in Logger : k # l => entries'[k] = entries[k]
<1> DEFINE E == [index : Uint8, site : Site]
           e == [index |-> i, site |-> s]
<1>1. entries \in [Logger -> Seq(E)] /\ entries[l] \in Seq(E) /\ e \in E
  BY DEF IInv, TypeOK
<1>2. entries' = [entries EXCEPT ![l] = Append(entries[l], e)]
  BY DEF LogEntry
<1> HIDE DEF E, e
<1>3. /\ Append(entries[l], e) \in Seq(E)
      /\ Len(Append(entries[l], e)) = Len(entries[l]) + 1
      /\ Append(entries[l], e)[Len(entries[l]) + 1] = e
      /\ \A n \in 1 .. Len(entries[l]) : Append(entries[l], e)[n] = entries[l][n]
  BY <1>1, AppendProperties
<1>4. entries'[l] = Append(entries[l], e) /\ \A k \in Logger : k # l => entries'[k] = entries[k]
  BY <1>1, <1>2
<1>5. entries' \in [Logger -> Seq(E)]
  BY <1>1, <1>2, <1>3
<1> QED BY <1>3, <1>4, <1>5 DEF E, e

\* What a site's first call appends to the index file of its logger.
LEMMA FileFacts ==
  ASSUME IInv, NEW l \in Logger, NEW s \in Site, FirstCall(l, s)
  PROVE  /\ index_file' \in [Logger -> Seq(Site)]
         /\ Len(index_file'[l]) = Len(index_file[l]) + 1
         /\ index_file'[l][Len(index_file[l]) + 1] = s
         /\ \A n \in 1 .. Len(index_file[l]) : index_file'[l][n] = index_file[l][n]
         /\ \A k \in Logger : k # l => index_file'[k] = index_file[k]
<1>1. index_file \in [Logger -> Seq(Site)] /\ index_file[l] \in Seq(Site)
  BY DEF IInv, TypeOK
<1>2. index_file' = [index_file EXCEPT ![l] = Append(index_file[l], s)]
  BY DEF FirstCall
<1>3. /\ Append(index_file[l], s) \in Seq(Site)
      /\ Len(Append(index_file[l], s)) = Len(index_file[l]) + 1
      /\ Append(index_file[l], s)[Len(index_file[l]) + 1] = s
      /\ \A n \in 1 .. Len(index_file[l]) : Append(index_file[l], s)[n] = index_file[l][n]
  BY <1>1, AppendProperties
<1>4. /\ index_file'[l] = Append(index_file[l], s)
      /\ \A k \in Logger : k # l => index_file'[k] = index_file[k]
  BY <1>1, <1>2
<1>5. index_file' \in [Logger -> Seq(Site)]
  BY <1>1, <1>2, <1>3
<1> QED BY <1>3, <1>4, <1>5

LEMMA LaterCallPreservesIInv ==
  ASSUME IInv, NEW l \in Logger, NEW s \in Site, LaterCall(l, s)
  PROVE  IInv'
<1> DEFINE i == pos[s]
           last == Len(entries[l]) + 1
<1>1. i \in Uint8 /\ i # NotRun
  BY DEF LaterCall, IInv, TypeOK
<1>2. /\ entries' \in [Logger -> Seq([index : Uint8, site : Site])]
      /\ Len(entries'[l]) = last
      /\ entries'[l][last] = [index |-> i, site |-> s]
      /\ \A n \in 1 .. Len(entries[l]) : entries'[l][n] = entries[l][n]
      /\ \A k \in Logger : k # l => entries'[k] = entries[k]
  BY <1>1, EntryFacts DEF LaterCall
<1>3. UNCHANGED <<pos, m_format_string_index, index_file>>
  BY DEF LaterCall
<1>4. \A k \in Logger : Len(entries[k]) \in Nat /\ Len(index_file[k]) \in Nat
  BY LenProperties DEF IInv, TypeOK
<1>a. last \in Nat /\ last = Len(entries[l]) + 1
  BY <1>4
<1>5. \A k \in Logger : \A n \in 1 .. Len(entries'[k]) :
        (k = l /\ n = last) \/ (n \in 1 .. Len(entries[k]) /\ entries'[k][n] = entries[k][n])
  <2> SUFFICES ASSUME NEW k \in Logger, NEW n \in 1 .. Len(entries'[k]), ~ (k = l /\ n = last)
               PROVE  n \in 1 .. Len(entries[k]) /\ entries'[k][n] = entries[k][n]
    OBVIOUS
  <2>1. CASE k = l
    <3>1. n \in 1 .. Len(entries[l])
      BY <2>1, <1>2, <1>4, <1>a
    <3> QED BY <2>1, <3>1, <1>2
  <2>2. CASE k # l
    BY <2>2, <1>2
  <2> QED BY <2>1, <2>2
<1>6. \A k \in Logger : \A n \in 1 .. Len(entries[k]) :
        n \in 1 .. Len(entries'[k]) /\ entries'[k][n] = entries[k][n]
  <2> SUFFICES ASSUME NEW k \in Logger, NEW n \in 1 .. Len(entries[k])
               PROVE  n \in 1 .. Len(entries'[k]) /\ entries'[k][n] = entries[k][n]
    OBVIOUS
  <2>1. CASE k = l
    <3>1. n \in 1 .. last
      BY <2>1, <1>4, <1>a
    <3> QED BY <2>1, <3>1, <1>2
  <2>2. CASE k # l
    BY <2>2, <1>2
  <2> QED BY <2>1, <2>2
<1> HIDE DEF i, last
<1>7. TypeOK'
  BY <1>2, <1>3 DEF IInv, TypeOK
<1>8. Numbered'
  BY <1>3 DEF IInv, Numbered
<1>9. Tagged'
  <2> SUFFICES ASSUME NEW k \in Logger, NEW n \in 1 .. Len(entries'[k])
               PROVE  /\ pos[entries'[k][n].site] # NotRun
                      /\ pos[entries'[k][n].site] = entries'[k][n].index
    BY <1>3 DEF Tagged
  <2>1. CASE k = l /\ n = last
    BY <2>1, <1>1, <1>2 DEF i
  <2>2. CASE n \in 1 .. Len(entries[k]) /\ entries'[k][n] = entries[k][n]
    BY <2>2 DEF IInv, Tagged
  <2> QED BY <2>1, <2>2, <1>5
<1>10. Entered'
  <2> SUFFICES ASSUME NEW k \in Logger, NEW n \in 1 .. Len(index_file[k]), n <= IndexMod
               PROVE  \E m \in 1 .. Len(entries'[k]) : entries'[k][m].index = n - 1
    BY <1>3 DEF Entered
  <2>1. PICK m \in 1 .. Len(entries[k]) : entries[k][m].index = n - 1
    BY DEF IInv, Entered
  <2> QED BY <2>1, <1>6
<1>11. Ordered'
  <2> SUFFICES ASSUME NEW k \in Logger, NEW n \in 1 .. Len(entries'[k]),
                      Addressable(k, entries'[k][n].site), entries'[k][n].index # 0
               PROVE  \E m \in 1 .. n - 1 : entries'[k][m].index = entries'[k][n].index - 1
    BY <1>3 DEF Ordered, Addressable
  <2>1. CASE k = l /\ n = last
    <3>1. PICK o \in 1 .. Len(index_file[l]) : o <= IndexMod /\ index_file[l][o] = s
      BY <2>1, <1>2 DEF Addressable
    <3>2. i = o - 1
      BY <3>1 DEF IInv, Numbered, i
    <3>3. o - 1 \in 1 .. Len(index_file[l]) /\ o - 1 <= IndexMod
      BY <2>1, <3>1, <3>2, <1>2, <1>4, SitesAssumption
    <3>4. PICK m \in 1 .. Len(entries[l]) : entries[l][m].index = (o - 1) - 1
      BY <3>3 DEF IInv, Entered
    <3>5. m \in 1 .. n - 1 /\ entries'[l][m] = entries[l][m]
      BY <2>1, <3>4, <1>2, <1>4 DEF last
    <3>6. entries'[l][n].index = o - 1
      BY <2>1, <3>2, <1>2
    <3> QED BY <2>1, <3>4, <3>5, <3>6
  <2>2. CASE n \in 1 .. Len(entries[k]) /\ entries'[k][n] = entries[k][n]
    <3>1. PICK m \in 1 .. n - 1 : entries[k][m].index = entries[k][n].index - 1
      BY <2>2 DEF IInv, Ordered
    <3>2. m \in 1 .. Len(entries[k])
      BY <2>2, <3>1, <1>4
    <3> QED BY <2>2, <3>1, <3>2, <1>6
  <2> QED BY <2>1, <2>2, <1>5
<1> QED BY <1>7, <1>8, <1>9, <1>10, <1>11 DEF IInv

LEMMA FirstCallPreservesIInv ==
  ASSUME IInv, NEW l \in Logger, NEW s \in Site, FirstCall(l, s)
  PROVE  IInv'
<1> DEFINE i == NewIndex(l)
           last == Len(entries[l]) + 1
           new == Len(index_file[l]) + 1
<1>1. /\ i \in Uint8 /\ Incremented(l) \in Uint8
      /\ new <= IndexMod => i = new - 1
      /\ new < IndexMod => Incremented(l) = new
      /\ i # NotRun
  <2>1. Len(index_file[l]) \in Nat /\ IndexMod \in Nat \ {0}
    BY LenProperties, SitesAssumption DEF IInv, TypeOK
  <2> QED BY <2>1, NewIndexIsCount, SitesAssumption DEF Uint8
<1>2. /\ entries' \in [Logger -> Seq([index : Uint8, site : Site])]
      /\ Len(entries'[l]) = last
      /\ entries'[l][last] = [index |-> i, site |-> s]
      /\ \A n \in 1 .. Len(entries[l]) : entries'[l][n] = entries[l][n]
      /\ \A k \in Logger : k # l => entries'[k] = entries[k]
  BY <1>1, EntryFacts DEF FirstCall
<1>3. /\ index_file' \in [Logger -> Seq(Site)]
      /\ Len(index_file'[l]) = new
      /\ index_file'[l][new] = s
      /\ \A n \in 1 .. Len(index_file[l]) : index_file'[l][n] = index_file[l][n]
      /\ \A k \in Logger : k # l => index_file'[k] = index_file[k]
  BY FileFacts
<1>4. \A k \in Logger : Len(entries[k]) \in Nat /\ Len(index_file[k]) \in Nat
  BY LenProperties DEF IInv, TypeOK
<1>5. /\ pos[s] = NotRun /\ pos' \in [Site -> Uint8 \cup {NotRun}] /\ pos'[s] = i
      /\ \A t \in Site : t # s => pos'[t] = pos[t]
  BY <1>1 DEF FirstCall, IInv, TypeOK
<1>6. /\ m_format_string_index' \in [Logger -> Uint8]
      /\ m_format_string_index'[l] = Incremented(l)
      /\ \A k \in Logger : k # l => m_format_string_index'[k] = m_format_string_index[k]
  BY <1>1 DEF FirstCall, IInv, TypeOK
<1>7. \A k \in Logger : \A n \in 1 .. Len(entries'[k]) :
        (k = l /\ n = last) \/ (n \in 1 .. Len(entries[k]) /\ entries'[k][n] = entries[k][n])
  BY <1>2, <1>4
<1>8. \A k \in Logger : \A n \in 1 .. Len(entries[k]) :
        n \in 1 .. Len(entries'[k]) /\ entries'[k][n] = entries[k][n]
  BY <1>2, <1>4
<1>9. \A k \in Logger : \A n \in 1 .. Len(index_file'[k]) :
        (k = l /\ n = new)
          \/ (n \in 1 .. Len(index_file[k]) /\ index_file'[k][n] = index_file[k][n])
  BY <1>3, <1>4
\* Every site met so far is another one than s, and keeps its static.
<1>10. \A k \in Logger : \A n \in 1 .. Len(index_file[k]) :
         index_file[k][n] # s /\ pos'[index_file[k][n]] = pos[index_file[k][n]]
  <2> TAKE k \in Logger
  <2> TAKE n \in 1 .. Len(index_file[k])
  <2>1. index_file[k][n] \in Site
    BY ElementOfSeq DEF IInv, TypeOK
  <2>2. pos[index_file[k][n]] # NotRun
    BY DEF IInv, Numbered
  <2> QED BY <2>1, <2>2, <1>5
<1>11. \A k \in Logger : \A n \in 1 .. Len(entries[k]) :
         entries[k][n].site # s /\ pos'[entries[k][n].site] = pos[entries[k][n].site]
  <2> TAKE k \in Logger
  <2> TAKE n \in 1 .. Len(entries[k])
  <2>1. entries[k][n] \in [index : Uint8, site : Site]
    BY ElementOfSeq DEF IInv, TypeOK
  <2>2. pos[entries[k][n].site] # NotRun
    BY DEF IInv, Tagged
  <2> QED BY <2>1, <2>2, <1>5
<1> HIDE DEF i, last, new
<1>12. TypeOK'
  BY <1>2, <1>3, <1>5, <1>6 DEF TypeOK
<1>13. Numbered'
  <2>1. ASSUME NEW k \in Logger, Len(index_file'[k]) < IndexMod
        PROVE  m_format_string_index'[k] = Len(index_file'[k])
    <3>1. CASE k = l
      BY <2>1, <3>1, <1>1, <1>3, <1>6
    <3>2. CASE k # l
      BY <2>1, <3>2, <1>3, <1>6 DEF IInv, Numbered
    <3> QED BY <3>1, <3>2
  <2>2. ASSUME NEW k \in Logger, NEW n \in 1 .. Len(index_file'[k])
        PROVE  /\ pos'[index_file'[k][n]] # NotRun
               /\ n <= IndexMod => pos'[index_file'[k][n]] = n - 1
    <3>1. CASE k = l /\ n = new
      BY <3>1, <1>1, <1>3, <1>5
    <3>2. CASE n \in 1 .. Len(index_file[k]) /\ index_file'[k][n] = index_file[k][n]
      BY <3>2, <1>10 DEF IInv, Numbered
    <3> QED BY <3>1, <3>2, <1>9
  <2> QED BY <2>1, <2>2 DEF Numbered
<1>14. Tagged'
  <2> SUFFICES ASSUME NEW k \in Logger, NEW n \in 1 .. Len(entries'[k])
               PROVE  /\ pos'[entries'[k][n].site] # NotRun
                      /\ pos'[entries'[k][n].site] = entries'[k][n].index
    BY DEF Tagged
  <2>1. CASE k = l /\ n = last
    BY <2>1, <1>1, <1>2, <1>5
  <2>2. CASE n \in 1 .. Len(entries[k]) /\ entries'[k][n] = entries[k][n]
    BY <2>2, <1>11 DEF IInv, Tagged
  <2> QED BY <2>1, <2>2, <1>7
<1>15. Entered'
  <2> SUFFICES ASSUME NEW k \in Logger, NEW n \in 1 .. Len(index_file'[k]), n <= IndexMod
               PROVE  \E m \in 1 .. Len(entries'[k]) : entries'[k][m].index = n - 1
    BY DEF Entered
  <2>1. CASE k = l /\ n = new
    <3>1. last \in 1 .. Len(entries'[l])
      BY <1>2, <1>4 DEF last
    <3> QED BY <2>1, <3>1, <1>1, <1>2
  <2>2. CASE n \in 1 .. Len(index_file[k])
    <3>1. PICK m \in 1 .. Len(entries[k]) : entries[k][m].index = n - 1
      BY <2>2 DEF IInv, Entered
    <3> QED BY <3>1, <1>8
  <2> QED BY <2>1, <2>2, <1>9
<1>16. Ordered'
  <2> SUFFICES ASSUME NEW k \in Logger, NEW n \in 1 .. Len(entries'[k]),
                      NEW o \in 1 .. Len(index_file'[k]),
                      o <= IndexMod, index_file'[k][o] = entries'[k][n].site,
                      entries'[k][n].index # 0
               PROVE  \E m \in 1 .. n - 1 : entries'[k][m].index = entries'[k][n].index - 1
    BY DEF Ordered, Addressable
  <2>1. CASE k = l /\ n = last
    <3>1. entries'[k][n].site = s /\ entries'[k][n].index = i
      BY <2>1, <1>2
    <3>2. o = new
      BY <2>1, <3>1, <1>9, <1>10
    <3>3. i = new - 1 /\ new - 1 # 0
      BY <3>1, <3>2, <1>1
    <3>4. new - 1 \in 1 .. Len(index_file[l]) /\ new - 1 <= IndexMod
      BY <3>2, <3>3, <1>4, SitesAssumption DEF new
    <3>5. PICK m \in 1 .. Len(entries[l]) : entries[l][m].index = (new - 1) - 1
      BY <3>4 DEF IInv, Entered
    <3>6. m \in 1 .. n - 1 /\ entries'[l][m] = entries[l][m]
      BY <2>1, <3>5, <1>2, <1>4 DEF last
    <3> QED BY <2>1, <3>1, <3>3, <3>5, <3>6
  <2>2. CASE n \in 1 .. Len(entries[k]) /\ entries'[k][n] = entries[k][n]
    <3>1. entries[k][n].site # s
      BY <2>2, <1>11
    <3>2. o \in 1 .. Len(index_file[k]) /\ index_file[k][o] = entries[k][n].site
      BY <2>2, <3>1, <1>3, <1>9
    <3>3. Addressable(k, entries[k][n].site)
      BY <3>2 DEF Addressable
    <3>4. PICK m \in 1 .. n - 1 : entries[k][m].index = entries[k][n].index - 1
      BY <2>2, <3>3 DEF IInv, Ordered
    <3>5. m \in 1 .. Len(entries[k])
      BY <2>2, <3>4, <1>4
    <3> QED BY <2>2, <3>4, <3>5, <1>8
  <2> QED BY <2>1, <2>2, <1>7
<1> QED BY <1>12, <1>13, <1>14, <1>15, <1>16 DEF IInv

\* The inductive invariant holds in every reachable state.
THEOREM InductiveInvariant == Spec => []IInv
<1>1. Init => IInv
  BY InitEstablishesIInv
<1>2. IInv /\ [Next]_vars => IInv'
  <2> SUFFICES ASSUME IInv, [Next]_vars PROVE IInv'
    OBVIOUS
  <2>1. CASE Next
    <3>1. PICK use \in Uses : FirstCall(use[1], use[2]) \/ LaterCall(use[1], use[2])
      BY <2>1 DEF Next
    <3>2. use[1] \in Logger /\ use[2] \in Site
      BY SitesAssumption
    <3> QED BY <3>1, <3>2, FirstCallPreservesIInv, LaterCallPreservesIInv
  <2>2. CASE UNCHANGED vars
    <3>1. /\ pos' = pos /\ m_format_string_index' = m_format_string_index
          /\ index_file' = index_file /\ entries' = entries
      BY <2>2 DEF vars
    <3>2. TypeOK' /\ Numbered'
      BY <3>1 DEF IInv, TypeOK, Numbered
    <3>3. Tagged' /\ Entered'
      BY <3>1 DEF IInv, Tagged, Entered
    <3>4. Ordered'
      BY <3>1 DEF IInv, Ordered, Addressable
    <3> QED BY <3>2, <3>3, <3>4 DEF IInv
  <2> QED BY <2>1, <2>2
<1> QED BY <1>1, <1>2, PTL DEF Spec

-----------------------------------------------------------------------------

\* Every variable keeps its type.
THEOREM TypeCorrect == Spec => []TypeOK
<1>1. IInv => TypeOK
  BY DEF IInv
<1> QED BY <1>1, InductiveInvariant, PTL

\* An entry leads back to its own format string exactly if its logger was the
\* first to pass through the site and the site is one of its first IndexMod.
THEOREM EntriesResolve == Spec => []ResolvesExactlyWhenAddressable
<1>1. IInv => ResolvesExactlyWhenAddressable
  <2> SUFFICES ASSUME IInv, NEW l \in Logger, NEW n \in 1 .. Len(entries[l])
               PROVE  Resolves(l, entries[l][n]) <=> Addressable(l, entries[l][n].site)
    BY DEF ResolvesExactlyWhenAddressable
  <2> DEFINE e == entries[l][n]
  <2>1. e.index \in Uint8 /\ pos[e.site] = e.index
    <3>1. e \in [index : Uint8, site : Site]
      BY ElementOfSeq DEF IInv, TypeOK
    <3> QED BY <3>1 DEF IInv, Tagged
  <2>2. Len(index_file[l]) \in Nat /\ IndexMod \in Nat
    BY LenProperties, SitesAssumption DEF IInv, TypeOK
  <2> HIDE DEF e
  <2>3. Resolves(l, e) => Addressable(l, e.site)
    <3> SUFFICES ASSUME Resolves(l, e) PROVE Addressable(l, e.site)
      OBVIOUS
    <3>1. e.index + 1 \in 1 .. Len(index_file[l]) /\ e.index + 1 <= IndexMod
      BY <2>1, <2>2 DEF Resolves, Uint8
    <3> QED BY <3>1 DEF Resolves, Addressable
  <2>4. Addressable(l, e.site) => Resolves(l, e)
    <3> SUFFICES ASSUME Addressable(l, e.site) PROVE Resolves(l, e)
      OBVIOUS
    <3>1. PICK o \in 1 .. Len(index_file[l]) : o <= IndexMod /\ index_file[l][o] = e.site
      BY DEF Addressable
    <3>2. e.index = o - 1
      BY <3>1, <2>1 DEF IInv, Numbered
    <3> QED BY <3>1, <3>2, <2>2 DEF Resolves
  <2> QED BY <2>3, <2>4 DEF e
<1> QED BY <1>1, InductiveInvariant, PTL

\* The indices of a logger that shares no site come into use in order.
THEOREM IndicesComeInOrder == Spec => []IndicesInOrderOfFirstUse
<1>1. IInv => IndicesInOrderOfFirstUse
  BY DEF IInv, Ordered, IndicesInOrderOfFirstUse, OwnSites
<1> QED BY <1>1, InductiveInvariant, PTL
=============================================================================
