------------------------ MODULE SignalAdmissionProofs ------------------------
(***************************************************************************)
(* Proofs about SignalAdmission, for any number of connections, subjects   *)
(* and requests and any limit: types, exact capacity, agreement of the     *)
(* room's tables, that no membership is orphaned, that a rollback spares   *)
(* known participants and that suspended ones can be resumed.              *)
(***************************************************************************)
EXTENDS SignalAdmission, FiniteSetTheorems, SequenceTheorems, TLAPS

Request == [type : {"join"}, subject : Subject] \cup [type : {"resume"}, id : Nat]
             \cup [type : {"leave", "publish", "unpublish"}]
Task == [kind : {"handle"}, conn : Conn, req : Request]
          \cup [kind : {"reject", "closed"}, conn : Conn] \cup [kind : {"stop"}]
Result == [conn : Conn, req : Request, ok : BOOLEAN, id : Nat \cup {None}]
Response == [kind : {"final"}] \cup [kind : {"initial"}, id : Nat \cup {None}, gen : Nat]

-----------------------------------------------------------------------------
(***************************************************************************)
(* The room: its tables and its capacity.                                  *)
(***************************************************************************)

RoomTypes ==
  /\ identity \in Seq(Subject)
  /\ member \in [Conn -> Ids \cup {None}] /\ index \in [Ids -> Conn \cup {None}]
  /\ suspended \subseteq Ids /\ media \subseteq Conn
  /\ participants \in Nat /\ mediaCount \in Nat
  /\ started \in BOOLEAN

\* The counters are exact, and what they count is finite.
Counted ==
  /\ IsFiniteSet(Members) /\ participants = Cardinality(Members)
  /\ IsFiniteSet(media) /\ mediaCount = Cardinality(media)
  /\ participants <= Limit /\ mediaCount <= Limit

RoomInv == RoomTypes /\ TablesAgree /\ Counted

\* The tables once connection c has lost its membership, if it had one.
Unlinked(c) ==
  /\ member' = [member EXCEPT ![c] = None]
  /\ index' \in [Ids -> Conn \cup {None}]
  /\ \A i \in Ids : index'[i] = IF index[i] = c THEN None ELSE index[i]
  /\ \A i \in Ids : i \in suspended' <=> i \in suspended /\ index[i] # c
  /\ suspended' \subseteq suspended
  /\ Members' = Members \ {c}

\* Participant ids are numbers, and none of them is None.
LEMMA IdsType == ASSUME RoomTypes PROVE Len(identity) \in Nat /\ Ids \subseteq Nat /\ None \notin Ids
BY NoneAssumption, LenProperties DEF RoomTypes, Ids

\* LeaveRoom unlinks the connection in both tables and gives its place back.
LEMMA LeaveEffect ==
  ASSUME RoomInv, NEW c \in Conn, LeaveRoom(c)
  PROVE  /\ Unlinked(c)
         /\ IsFiniteSet(Members') /\ participants' = Cardinality(Members')
         /\ participants' \in Nat /\ participants' <= Limit
<1>1. IsFiniteSet(Members) /\ participants = Cardinality(Members) /\ participants \in Nat
      /\ participants <= Limit
  BY DEF RoomInv, Counted, RoomTypes
<1>2. CASE HasMember(c)
  <2>1. /\ member' = [member EXCEPT ![c] = None]
        /\ index' = [index EXCEPT ![member[c]] = None]
        /\ suspended' = suspended \ {member[c]}
        /\ participants' = participants - 1
    BY <1>2 DEF LeaveRoom
  <2>2. member[c] \in Ids /\ index[member[c]] = c
    BY <1>2 DEF RoomInv, RoomTypes, TablesAgree, HasMember
  <2>3. \A i \in Ids : index[i] = c <=> i = member[c]
    BY <2>2, NoneAssumption DEF RoomInv, RoomTypes, TablesAgree
  <2>4. Members' = Members \ {c}
    BY <2>1 DEF RoomInv, RoomTypes, Members, HasMember
  <2>5. Unlinked(c)
    BY <2>1, <2>2, <2>3, <2>4 DEF Unlinked, RoomInv, RoomTypes
  <2>6. c \in Members
    BY <1>2 DEF Members
  <2>7. IsFiniteSet(Members') /\ Cardinality(Members') = Cardinality(Members) - 1
    BY <1>1, <2>4, <2>6, FS_RemoveElement
  <2>8. Cardinality(Members') \in Nat
    BY <2>7, FS_CardinalityType
  <2> QED BY <1>1, <2>1, <2>5, <2>7, <2>8, LimitAssumption
<1>3. CASE ~HasMember(c)
  <2>1. UNCHANGED <<member, index, suspended, participants>>
    BY <1>3 DEF LeaveRoom
  <2>2. Members' = Members /\ c \notin Members
    BY <1>3, <2>1 DEF Members, HasMember
  <2>3. \A i \in Ids : index[i] # c
    BY <1>3, NoneAssumption, IdsType DEF RoomInv, RoomTypes, TablesAgree, HasMember
  <2>4. member' = [member EXCEPT ![c] = None]
    BY <1>3, <2>1 DEF HasMember, RoomInv, RoomTypes
  <2>5. Unlinked(c)
    BY <2>1, <2>2, <2>3, <2>4 DEF Unlinked, RoomInv, RoomTypes
  <2> QED BY <1>1, <2>1, <2>2, <2>5
<1> QED BY <1>2, <1>3

\* RemoveMediaSession gives the media session's place back.
LEMMA MediaEffect ==
  ASSUME RoomInv, NEW c \in Conn, RemoveMediaSession(c)
  PROVE  /\ media' = media \ {c} /\ IsFiniteSet(media')
         /\ mediaCount' = Cardinality(media') /\ mediaCount' \in Nat /\ mediaCount' <= Limit
<1>1. IsFiniteSet(media) /\ mediaCount = Cardinality(media) /\ mediaCount <= Limit
      /\ mediaCount \in Nat
  BY DEF RoomInv, Counted, RoomTypes
<1>2. media' = media \ {c} /\ mediaCount' = IF c \in media THEN mediaCount - 1 ELSE mediaCount
  BY DEF RemoveMediaSession
<1>3. IsFiniteSet(media') /\ mediaCount' = Cardinality(media')
  BY <1>1, <1>2, FS_RemoveElement
<1>4. mediaCount' \in Nat
  BY <1>3, FS_CardinalityType
<1> QED BY <1>1, <1>2, <1>3, <1>4, LimitAssumption

\* RemoveSession keeps the tables in agreement.
LEMMA RemoveKeeps ==
  ASSUME RoomInv, NEW c \in Conn, RemoveSession(c)
  PROVE  RoomInv' /\ Unlinked(c) /\ UNCHANGED <<identity, started>>
<1>1. /\ Unlinked(c) /\ UNCHANGED <<identity, started>> /\ Ids' = Ids
      /\ media' = media \ {c}
  BY LeaveEffect, MediaEffect DEF RemoveSession, Ids
<1>2. RoomTypes'
  BY <1>1, LeaveEffect, MediaEffect DEF RemoveSession, RoomInv, RoomTypes, Unlinked
<1>3. Counted'
  BY LeaveEffect, MediaEffect DEF RemoveSession, Counted
<1>4. TablesAgree'
  <2>1. \A d \in Conn : member'[d] = IF d = c THEN None ELSE member[d]
    BY <1>1 DEF Unlinked, RoomInv, RoomTypes
  <2>2. \A d \in Conn : HasMember(d)' => HasMember(d) /\ d # c /\ member'[d] = member[d]
    BY <2>1 DEF HasMember
  <2>3. \A d \in Conn : HasMember(d)' => index'[member'[d]] = d
    BY <1>1, <2>2 DEF RoomInv, TablesAgree, RoomTypes, Unlinked, HasMember
  <2>4. \A i \in Ids : index'[i] # None => member'[index'[i]] = i
    BY <1>1, <2>1 DEF RoomInv, TablesAgree, RoomTypes, Unlinked
  <2>5. \A d, e \in Members' : identity'[member'[d]] = identity'[member'[e]] => d = e
    BY <1>1, <2>2 DEF RoomInv, TablesAgree, Members
  <2>6. \A i \in suspended' : index'[i] # None
    BY <1>1 DEF RoomInv, RoomTypes, TablesAgree, Unlinked
  <2>7. media' \subseteq Members'
    BY <1>1 DEF RoomInv, TablesAgree, Unlinked
  <2> QED BY <1>1, <2>3, <2>4, <2>5, <2>6, <2>7 DEF TablesAgree
<1> QED BY <1>1, <1>2, <1>3, <1>4 DEF RoomInv

\* OnSignalingClosed suspends the member, or removes what is left.
LEMMA ClosedKeeps ==
  ASSUME RoomInv, NEW c \in Conn, OnSignalingClosed(c)
  PROVE  /\ RoomInv' /\ UNCHANGED <<identity, started>>
         /\ \/ /\ HasMember(c) /\ suspended' = suspended \cup {member[c]}
               /\ UNCHANGED <<member, index>> /\ Members' = Members
            \/ (~started \/ ~HasMember(c)) /\ Unlinked(c)
<1>1. CASE started /\ HasMember(c)
  <2>1. /\ suspended' = suspended \cup {member[c]}
        /\ UNCHANGED <<identity, member, index, media, participants, mediaCount, started>>
    BY <1>1 DEF OnSignalingClosed
  <2>2. Ids' = Ids /\ Members' = Members /\ member[c] \in Ids /\ index[member[c]] = c
    BY <1>1, <2>1 DEF Ids, Members, HasMember, RoomInv, RoomTypes, TablesAgree
  <2>3. RoomTypes' /\ Counted'
    BY <2>1, <2>2 DEF RoomInv, RoomTypes, Counted
  <2>4. TablesAgree'
    BY <2>1, <2>2, NoneAssumption DEF RoomInv, TablesAgree, HasMember, Members
  <2> QED BY <1>1, <2>1, <2>2, <2>3, <2>4 DEF RoomInv
<1>2. CASE ~(started /\ HasMember(c))
  BY <1>2, RemoveKeeps DEF OnSignalingClosed
<1> QED BY <1>1, <1>2

\* A function on an initial interval is a sequence, and can be extended.
LEMMA FunctionIsSeq ==
  ASSUME NEW S, NEW n \in Nat, NEW f \in [1..n -> S]
  PROVE  f \in Seq(S) /\ Len(f) = n
<1>1. f \in Seq(S)
  BY SeqDef
<1> QED BY <1>1, LenProperties

\* Appending keeps the elements at their places and adds one at the end.
LEMMA AppendToSeq ==
  ASSUME NEW S, NEW f \in Seq(S), NEW e \in S
  PROVE  /\ Append(f, e) \in [1..(Len(f) + 1) -> S]
         /\ \A i \in 1..Len(f) : Append(f, e)[i] = f[i]
         /\ Append(f, e)[Len(f) + 1] = e
<1> DEFINE g == Append(f, e)
<1>1. g \in Seq(S) /\ Len(g) = Len(f) + 1
      /\ (\A i \in 1..Len(f) : g[i] = f[i]) /\ g[Len(f) + 1] = e
  BY AppendProperties
<1> HIDE DEF g
<1>2. g \in [1..Len(g) -> S]
  BY <1>1, LenProperties
<1> QED BY <1>1, <1>2 DEF g

\* JoinRoom links the connection to a participant that is new.
LEMMA JoinKeeps ==
  ASSUME RoomInv, NEW c \in Conn, NEW s \in Subject, JoinRoom(c, s)
  PROVE  LET n == Len(identity) + 1
         IN  /\ RoomInv' /\ n \notin Ids /\ Ids' = Ids \cup {n} /\ n \in Nat
             /\ ~HasMember(c) /\ member' = [member EXCEPT ![c] = n]
             /\ \A i \in Ids : index'[i] = index[i]
             /\ index'[n] = c /\ UNCHANGED <<suspended, started>>
             /\ Members' = Members \cup {c}
<1> DEFINE n == Len(identity) + 1
<1>1. /\ identity' = Append(identity, s) /\ index' = Append(index, c)
      /\ member' = [member EXCEPT ![c] = Len(identity')]
      /\ participants' = participants + 1 /\ participants < Limit
      /\ UNCHANGED <<suspended, media, mediaCount, started>>
      /\ c \notin media /\ ~HasMember(c)
      /\ \A d \in Conn : HasMember(d) => identity[member[d]] # s
  BY DEF JoinRoom, CanJoin
<1>2. /\ Len(identity) \in Nat /\ n \in Nat /\ n \notin Ids /\ None \notin Ids \cup {n}
      /\ Ids = 1..Len(identity)
  BY IdsType, NoneAssumption DEF RoomInv, Ids
<1>3. /\ identity' \in Seq(Subject) /\ Len(identity') = n
      /\ \A i \in Ids : identity'[i] = identity[i]
      /\ identity'[n] = s
  BY <1>1, <1>2, AppendProperties DEF RoomInv, RoomTypes
<1>4. Ids' = 1..n /\ Ids' = Ids \cup {n}
  BY <1>2, <1>3 DEF Ids
<1>5. /\ index' \in [1..n -> Conn \cup {None}]
      /\ \A i \in Ids : index'[i] = index[i]
      /\ index'[n] = c
  <2> DEFINE m == Len(identity)
             T == Conn \cup {None}
  <2>1. index \in [1..m -> T] /\ m \in Nat /\ n = m + 1 /\ Ids = 1..m /\ c \in T
    BY <1>2 DEF RoomInv, RoomTypes
  <2> HIDE DEF m, n, T
  <2>2. /\ Append(index, c) \in [1..(m + 1) -> T]
        /\ \A i \in 1..m : Append(index, c)[i] = index[i]
        /\ Append(index, c)[m + 1] = c
    <3>1. index \in Seq(T) /\ Len(index) = m
      BY <2>1, FunctionIsSeq
    <3>2. /\ Append(index, c) \in [1..(Len(index) + 1) -> T]
          /\ \A i \in 1..Len(index) : Append(index, c)[i] = index[i]
          /\ Append(index, c)[Len(index) + 1] = c
      BY <2>1, <3>1, AppendToSeq
    <3> QED BY <3>1, <3>2
  <2> QED BY <1>1, <2>1, <2>2 DEF T
<1> HIDE DEF n
<1>6. member' = [member EXCEPT ![c] = n] /\ member' \in [Conn -> Ids' \cup {None}]
  BY <1>1, <1>3, <1>4 DEF RoomInv, RoomTypes
<1>7. \A d \in Conn : member'[d] = IF d = c THEN n ELSE member[d]
  BY <1>6 DEF RoomInv, RoomTypes
<1>8. Members' = Members \cup {c}
  BY <1>2, <1>7 DEF Members, HasMember
<1>9. RoomTypes'
  BY <1>1, <1>3, <1>4, <1>5, <1>6 DEF RoomInv, RoomTypes
<1>10. Counted'
  <2>1. IsFiniteSet(Members') /\ Cardinality(Members') = Cardinality(Members) + 1
    BY <1>1, <1>8, FS_AddElement DEF RoomInv, Counted, Members
  <2> QED BY <1>1, <2>1, LimitAssumption DEF RoomInv, RoomTypes, Counted
<1>11. TablesAgree'
  <2>1. \A d \in Conn : HasMember(d)' => index'[member'[d]] = d
    BY <1>5, <1>7 DEF HasMember, RoomInv, RoomTypes, TablesAgree
  <2>2. \A i \in Ids' : index'[i] # None => member'[index'[i]] = i
    <3>1. \A i \in Ids : index[i] # None => index[i] # c /\ index[i] \in Conn
      BY <1>1, <1>2 DEF RoomInv, RoomTypes, TablesAgree, HasMember
    <3> QED BY <1>4, <1>5, <1>7, <3>1 DEF RoomInv, TablesAgree
  <2>3. \A d, e \in Members' : identity'[member'[d]] = identity'[member'[e]] => d = e
    <3>1. \A d \in Members : d # c /\ identity'[member'[d]] = identity[member[d]]
                             /\ identity[member[d]] # s
      BY <1>1, <1>3, <1>7 DEF Members, HasMember, RoomInv, RoomTypes
    <3>2. identity'[member'[c]] = s
      BY <1>3, <1>7
    <3> QED BY <1>8, <3>1, <3>2 DEF RoomInv, TablesAgree
  <2>4. \A i \in suspended' : index'[i] # None
    BY <1>1, <1>5 DEF RoomInv, RoomTypes, TablesAgree
  <2>5. media' \subseteq Members'
    BY <1>1, <1>8 DEF RoomInv, TablesAgree
  <2> QED BY <2>1, <2>2, <2>3, <2>4, <2>5 DEF TablesAgree
<1> QED BY <1>1, <1>2, <1>4, <1>5, <1>6, <1>8, <1>9, <1>10, <1>11 DEF RoomInv, n

\* ResumeRoom moves membership, index entry and media to the new connection.
LEMMA ResumeKeeps ==
  ASSUME RoomInv, NEW c \in Conn, NEW i \in Ids, ResumeRoom(c, i)
  PROVE  /\ RoomInv' /\ UNCHANGED <<identity, started>>
         /\ ~HasMember(c) /\ i \in suspended /\ suspended' = suspended \ {i}
         /\ index' = [index EXCEPT ![i] = c]
         /\ index[i] \in Members /\ index[i] # c
         /\ member' = [member EXCEPT ![c] = i, ![index[i]] = None]
         /\ Members' = (Members \ {index[i]}) \cup {c}
<1> DEFINE p == index[i]
<1>1. /\ c \notin media /\ ~HasMember(c) /\ p # None /\ i \in suspended
      /\ member' = [member EXCEPT ![c] = i, ![p] = None]
      /\ media' = IF p \in media THEN (media \ {p}) \cup {c} ELSE media
      /\ index' = [index EXCEPT ![i] = c] /\ suspended' = suspended \ {i}
      /\ UNCHANGED <<identity, participants, mediaCount, started>>
  BY DEF ResumeRoom, CanResume
<1>2. Ids' = Ids /\ None \notin Ids
  BY <1>1, IdsType DEF Ids, RoomInv
<1>3. p \in Conn /\ member[p] = i /\ p \in Members /\ p # c
  BY <1>1, <1>2 DEF RoomInv, RoomTypes, TablesAgree, Members, HasMember
<1> HIDE DEF p
<1>4. \A d \in Conn : member'[d] = IF d = p THEN None ELSE IF d = c THEN i ELSE member[d]
  BY <1>1, <1>3 DEF RoomInv, RoomTypes
<1>5. Members' = (Members \ {p}) \cup {c}
  BY <1>2, <1>3, <1>4 DEF Members, HasMember
<1>6. \A j \in Ids : index'[j] = IF j = i THEN c ELSE index[j]
  BY <1>1 DEF RoomInv, RoomTypes
<1>7. RoomTypes'
  BY <1>1, <1>2 DEF RoomInv, RoomTypes
<1>8. Counted'
  <2>1. IsFiniteSet(Members') /\ Cardinality(Members') = Cardinality(Members)
    <3>1. c \notin Members \ {p}
      BY <1>1 DEF Members
    <3>2. IsFiniteSet(Members \ {p}) /\ Cardinality(Members \ {p}) = Cardinality(Members) - 1
      BY <1>3, FS_RemoveElement DEF RoomInv, Counted
    <3>3. Cardinality(Members) \in Nat
      BY FS_CardinalityType DEF RoomInv, Counted
    <3> QED BY <1>5, <3>1, <3>2, <3>3, FS_AddElement
  <2>2. IsFiniteSet(media') /\ Cardinality(media') = Cardinality(media)
    <3>1. CASE p \in media
      <4>1. c \notin media \ {p} /\ media' = (media \ {p}) \cup {c}
        BY <1>1, <3>1
      <4>2. IsFiniteSet(media \ {p}) /\ Cardinality(media \ {p}) = Cardinality(media) - 1
        BY <3>1, FS_RemoveElement DEF RoomInv, Counted
      <4>3. Cardinality(media) \in Nat
        BY FS_CardinalityType DEF RoomInv, Counted
      <4> QED BY SMTT(30), <4>1, <4>2, <4>3, FS_AddElement
    <3>2. CASE p \notin media
      BY <1>1, <3>2 DEF RoomInv, Counted
    <3> QED BY <3>1, <3>2
  <2> QED BY <1>1, <2>1, <2>2 DEF RoomInv, Counted
<1>9. TablesAgree'
  <2>1. \A d \in Conn : HasMember(d)' => index'[member'[d]] = d
    <3>1. \A d \in Conn : d # p /\ d # c /\ member[d] # None => member[d] \in Ids /\ member[d] # i
      BY <1>3 DEF RoomInv, RoomTypes, TablesAgree, HasMember, p
    <3> QED BY <1>4, <1>6, <3>1 DEF HasMember, RoomInv, TablesAgree
  <2>2. \A j \in Ids' : index'[j] # None => member'[index'[j]] = j
    <3>1. \A j \in Ids : index[j] # None /\ j # i => index[j] # c /\ index[j] # p /\ index[j] \in Conn
      BY <1>1, <1>2, <1>3 DEF RoomInv, RoomTypes, TablesAgree, HasMember
    <3> QED BY <1>2, <1>3, <1>4, <1>6, <3>1 DEF RoomInv, TablesAgree
  <2>3. \A d, e \in Members' : identity'[member'[d]] = identity'[member'[e]] => d = e
    <3>1. member'[c] = member[p]
      BY <1>3, <1>4
    <3>2. \A d \in Members \ {p} : d # c /\ member'[d] = member[d]
      BY <1>1, <1>4 DEF Members
    <3>3. \A d, e \in Members : identity[member[d]] = identity[member[e]] => d = e
      BY DEF RoomInv, TablesAgree
    <3>4. \A d \in Members \ {p} : identity'[member'[d]] # identity'[member'[c]]
      <4>1. identity' = identity
        BY <1>1
      <4> QED BY <1>3, <3>1, <3>2, <3>3, <4>1
    <3>5. \A d, e \in Members \ {p} : identity'[member'[d]] = identity'[member'[e]] => d = e
      <4>1. identity' = identity
        BY <1>1
      <4> QED BY <3>2, <3>3, <4>1
    <3> QED BY <1>5, <3>4, <3>5
  <2>4. \A j \in suspended' : index'[j] # None
    BY <1>1, <1>6 DEF RoomInv, RoomTypes, TablesAgree
  <2>5. media' \subseteq Members'
    BY <1>1, <1>5 DEF RoomInv, TablesAgree
  <2> QED BY <2>1, <2>2, <2>3, <2>4, <2>5 DEF TablesAgree
<1> QED BY <1>1, <1>3, <1>5, <1>7, <1>8, <1>9 DEF RoomInv, p

\* Media sessions come and go without touching the memberships.
LEMMA MediaKeeps ==
  ASSUME RoomInv, NEW c \in Conn,
         \/ CreateSession(c)
         \/ RemoveMediaSession(c)
              /\ UNCHANGED <<identity, member, index, suspended, participants, started>>
  PROVE  RoomInv' /\ UNCHANGED <<identity, member, index, suspended, started>>
                  /\ Members' = Members
<1>1. /\ UNCHANGED <<identity, member, index, suspended, participants, started>>
      /\ Members' = Members /\ Ids' = Ids
  BY DEF CreateSession, Members, HasMember, Ids
<1>2. /\ media' \subseteq Members /\ IsFiniteSet(media')
      /\ mediaCount' = Cardinality(media') /\ mediaCount' \in Nat /\ mediaCount' <= Limit
  <2>1. CASE CreateSession(c)
    <3>1. media' = media \cup {c} /\ mediaCount' = mediaCount + 1 /\ mediaCount < Limit
          /\ c \notin media /\ c \in Members
      BY <2>1 DEF CreateSession, Members
    <3>2. IsFiniteSet(media') /\ Cardinality(media') = Cardinality(media) + 1
      BY <3>1, FS_AddElement DEF RoomInv, Counted
    <3> QED BY <3>1, <3>2, LimitAssumption DEF RoomInv, RoomTypes, Counted, TablesAgree
  <2>2. CASE RemoveMediaSession(c)
    BY <2>2, MediaEffect DEF RoomInv, TablesAgree
  <2> QED BY <2>1, <2>2
<1>3. RoomTypes' /\ Counted'
  BY <1>1, <1>2 DEF RoomInv, RoomTypes, Counted, Members
<1>4. TablesAgree'
  BY <1>1, <1>2 DEF RoomInv, TablesAgree, HasMember
<1> QED BY <1>1, <1>3, <1>4 DEF RoomInv

\* Stopping the room returns every place.
LEMMA StopKeeps ==
  ASSUME RoomInv, StopTask
  PROVE  RoomInv' /\ UNCHANGED identity /\ Members' = {} /\ suspended' = {} /\ ~started'
         /\ \A i \in Ids : index'[i] = None
<1>1. /\ ~started' /\ started' \in BOOLEAN
      /\ member' = [c \in Conn |-> None] /\ index' = [i \in Ids |-> None]
      /\ suspended' = {} /\ media' = {} /\ UNCHANGED identity
      /\ participants' = participants - Cardinality(Members)
      /\ mediaCount' = mediaCount - Cardinality(media)
  BY DEF StopTask, Members
<1>2. Members' = {} /\ Ids' = Ids
  BY <1>1 DEF Members, HasMember, Ids
<1>3. participants' = 0 /\ mediaCount' = 0
  BY <1>1 DEF RoomInv, RoomTypes, Counted
<1>4. RoomTypes' /\ Counted'
  BY <1>1, <1>2, <1>3, FS_EmptySet, LimitAssumption DEF RoomInv, RoomTypes, Counted
<1>5. TablesAgree'
  BY <1>1, <1>2 DEF TablesAgree, HasMember
<1> QED BY <1>1, <1>2, <1>4, <1>5 DEF RoomInv

-----------------------------------------------------------------------------
(***************************************************************************)
(* The protocol between front and room.                                    *)
(***************************************************************************)

FrontTypes ==
  /\ ws \in [Conn -> {"none", "up", "draining", "closing", "gone"}]
  /\ entries \subseteq Conn /\ IsFiniteSet(entries) /\ entry \in [Conn -> Entry]
  /\ emissions \subseteq Conn /\ cancelled \subseteq Conn
  /\ finished \subseteq Conn /\ busy \subseteq Conn
  /\ asked \in 0..MaxRequests /\ stopped \in BOOLEAN
  /\ tasks \in Seq(Task) /\ front \in Seq(Result) /\ resp \in [Conn -> Seq(Response)]
  /\ known \subseteq Ids
  /\ started \/ stopped

\* A connection has one request under way at most.
Handles == {k \in 1..Len(tasks) : tasks[k].kind = "handle"}
Results == 1..Len(front)
OneRequest ==
  /\ \A k \in Handles : tasks[k].conn \in busy
  /\ \A k \in Results : front[k].conn \in busy
  /\ \A k, l \in Handles : tasks[k].conn = tasks[l].conn => k = l
  /\ \A k, l \in Results : front[k].conn = front[l].conn => k = l
  /\ \A k \in Handles, l \in Results : tasks[k].conn # front[l].conn

\* A task of the room.  A request still finds the entry that Receive left.  A
\* cleanup is for a cancelled session, and undoes what no client knows.
TaskOK(t) ==
  LET c == t.conn
  IN  /\ t.kind = "handle" =>
           /\ t.req.type = "resume" => t.req.id \in known
           /\ c \notin cancelled =>
                /\ c \in entries /\ entry[c].bound
                /\ IsAdmission(t.req) =>
                     /\ entry[c].admitting
                     /\ ~entry[c].admitted => (entry[c].resumed <=> t.req.type = "resume")
      /\ t.kind \in {"reject", "closed"} =>
           /\ c \in cancelled
           /\ HasMember(c) /\ c \notin finished =>
                (t.kind = "reject" <=> member[c] \notin known)
      /\ t.kind = "stop" => stopped

\* An answer for the front: after a leave nobody is there, after an admission the
\* member it names, unless the room ended the connection meanwhile.
ResultOK(f) ==
  LET c == f.conn
  IN  /\ f.ok /\ f.req.type = "leave" => ~HasMember(c)
      /\ f.ok /\ IsAdmission(f.req) =>
           /\ f.id \in Ids
           /\ c \notin cancelled =>
                /\ c \in entries /\ entry[c].bound /\ entry[c].admitting
                /\ index[f.id] \in {c, None}
                /\ c \notin finished =>
                     /\ member[c] = f.id /\ ~entry[c].admitted
                     /\ entry[c].resumed <=> f.req.type = "resume"

\* The first response of an admission, current or outdated.
InitialOK(c, r) ==
  r.kind = "initial" =>
    /\ r.id \in Ids /\ c \in entries \ cancelled
    /\ index[r.id] \in {c, None} /\ r.gen <= entry[c].gen
    /\ c \notin finished =>
         /\ r.gen = entry[c].gen => entry[c].admitted /\ (HasMember(c) => member[c] = r.id)
         /\ r.gen # entry[c].gen => index[r.id] = None

\* The life of a connection.
LifeOK(c) ==
  /\ ws[c] = "none" => c \notin entries \cup cancelled \cup emissions /\ resp[c] = <<>>
  /\ c \notin entries => entry[c] = FreshEntry /\ (ws[c] = "none" \/ c \in cancelled)
  /\ entry[c].admitted => entry[c].bound
  /\ c \in entries => ~stopped
  /\ entry[c].disconnected => c \in cancelled
  /\ entry[c].closing => c \in cancelled \cup finished
  /\ c \in entries \ cancelled /\ entry[c].bound => c \in emissions

Answered(c, types) == \E f \in ToSet(front) : f.conn = c /\ f.ok /\ f.req.type \in types

\* What the front has not heard yet is on its way.
HeardOK(c) ==
  c \in entries \ cancelled =>
    /\ HasMember(c) /\ ~entry[c].closing =>
         entry[c].admitted \/ Answered(c, {"join", "resume"})
    /\ entry[c].admitted /\ c \notin finished /\ ~HasMember(c) => Answered(c, {"leave"})

\* What the front would do if the connection broke now.
VerdictOK(c) ==
  HasMember(c) /\ c \in entries \ finished /\ entry[c].bound =>
    (MustRollBack(entry[c]) <=> member[c] \notin known)

Ends(t, c) == t.kind = "stop" \/ (t.kind \in {"reject", "closed"} /\ t.conn = c)

OrphanOK(c) ==
  HasMember(c) /\ member[c] \notin suspended =>
    \/ c \in entries /\ entry[c].bound
    \/ \E t \in ToSet(tasks) : Ends(t, c)

ConnOK(c) == LifeOK(c) /\ HeardOK(c) /\ VerdictOK(c) /\ OrphanOK(c)

SuspendedOK(i) == index[i] \in cancelled /\ (i \in known \/ index[i] \in finished)

IInv ==
  /\ FrontTypes /\ RoomInv /\ OneRequest
  /\ \A t \in ToSet(tasks) : TaskOK(t)
  /\ \A f \in ToSet(front) : ResultOK(f)
  /\ \A c \in Conn : \A r \in ToSet(resp[c]) : InitialOK(c, r)
  /\ \A c \in Conn : ConnOK(c)
  /\ \A i \in suspended : SuspendedOK(i)

-----------------------------------------------------------------------------
(***************************************************************************)
(* Frames: what a step of one connection leaves alone.                     *)
(***************************************************************************)

\* The elements of a queue under the operations on it.
LEMMA QueueElements ==
  ASSUME NEW S, NEW s \in Seq(S)
  PROVE  /\ ToSet(s) \subseteq S
         /\ ToSet(s) = {s[k] : k \in 1..Len(s)}
         /\ \A e \in S : ToSet(Append(s, e)) = ToSet(s) \cup {e}
         /\ s # <<>> => /\ Head(s) \in ToSet(s)
                        /\ ToSet(s) = {Head(s)} \cup ToSet(Tail(s))
<1>1. /\ Len(s) \in Nat /\ DOMAIN s = 1..Len(s)
      /\ \A k \in 1..Len(s) : s[k] \in S
  BY LenProperties
<1>2. ToSet(s) = {s[k] : k \in 1..Len(s)} /\ ToSet(s) \subseteq S
  BY <1>1 DEF ToSet
<1>3. ASSUME NEW e \in S PROVE ToSet(Append(s, e)) = ToSet(s) \cup {e}
  <2> DEFINE a == Append(s, e)
  <2>1. /\ a \in Seq(S) /\ Len(a) = Len(s) + 1 /\ a[Len(s) + 1] = e
        /\ \A k \in 1..Len(s) : a[k] = s[k]
    BY AppendProperties
  <2> HIDE DEF a
  <2>2. DOMAIN a = 1..(Len(s) + 1)
    BY <2>1, LenProperties
  <2>3. ToSet(a) = {a[k] : k \in 1..(Len(s) + 1)}
    BY <2>2 DEF ToSet
  <2>4. 1..(Len(s) + 1) = 1..Len(s) \cup {Len(s) + 1}
    BY <1>1
  <2> QED BY <1>2, <2>1, <2>3, <2>4 DEF a
<1>4. ASSUME s # <<>>
      PROVE  Head(s) \in ToSet(s) /\ ToSet(s) = {Head(s)} \cup ToSet(Tail(s))
  <2> DEFINE b == Tail(s)
  <2>1. /\ b \in Seq(S) /\ Len(b) = Len(s) - 1 /\ Len(s) > 0 /\ Head(s) = s[1]
        /\ \A k \in 1..Len(b) : b[k] = s[k + 1]
    BY <1>1, <1>4, HeadTailProperties, EmptySeq
  <2> HIDE DEF b
  <2>2. ToSet(b) = {b[k] : k \in 1..Len(b)}
    BY <2>1, LenProperties DEF ToSet
  <2>3. ToSet(s) \subseteq {Head(s)} \cup ToSet(b)
    <3> SUFFICES ASSUME NEW k \in 1..Len(s) PROVE s[k] \in {Head(s)} \cup ToSet(b)
      BY <1>2
    <3>1. CASE k = 1
      BY <2>1, <3>1
    <3>2. CASE k # 1
      <4>1. k - 1 \in 1..Len(b) /\ s[k] = b[k - 1]
        BY <1>1, <2>1, <3>2
      <4> QED BY <2>2, <4>1
    <3> QED BY <3>1, <3>2
  <2>4. ToSet(b) \subseteq ToSet(s) /\ Head(s) \in ToSet(s)
    BY <1>1, <1>2, <2>1, <2>2
  <2> QED BY <2>3, <2>4 DEF b
<1> QED BY <1>2, <1>3, <1>4

\* What the fields of a task hold, by its kind.
LEMMA TaskFields ==
  ASSUME NEW t \in Task
  PROVE  /\ t.kind \in {"handle", "reject", "closed", "stop"}
         /\ t.kind = "handle" => t.conn \in Conn /\ t.req \in Request
         /\ t.kind \in {"reject", "closed"} => t.conn \in Conn
BY DEF Task

\* What the fields of a request hold, by its type.
LEMMA RequestFields ==
  ASSUME NEW r \in Request
  PROVE  /\ r.type \in {"join", "resume", "leave", "publish", "unpublish"}
         /\ r.type = "join" => r.subject \in Subject
         /\ r.type = "resume" => r.id \in Nat
BY DEF Request

\* A step of the front about connection c: the room and the other connections stay
\* as they are, queues only grow elsewhere, and a client learns at most of
\* participants of c.
OthersKept(c) ==
  /\ UNCHANGED <<roomVars, stopped>>
  /\ \A d \in Conn \ {c} :
       /\ ws'[d] = ws[d] /\ entry'[d] = entry[d] /\ resp'[d] = resp[d]
       /\ d \in entries' <=> d \in entries
       /\ d \in emissions' <=> d \in emissions
       /\ d \in cancelled' <=> d \in cancelled
       /\ d \in finished' <=> d \in finished
  /\ cancelled \subseteq cancelled' /\ finished \subseteq finished'
  /\ known \subseteq known' /\ \A i \in known' \ known : i \in Ids /\ index[i] \in {c, None}
  /\ ToSet(tasks) \subseteq ToSet(tasks')
  /\ \A f \in ToSet(front) : f.conn # c => f \in ToSet(front')
  /\ ToSet(front') \subseteq ToSet(front)

\* Such a step keeps the protocol of all other connections.
LEMMA FrontFrame ==
  ASSUME IInv, NEW c \in Conn, OthersKept(c)
  PROVE  /\ \A t \in ToSet(tasks) : t.kind = "stop" \/ t.conn # c => TaskOK(t)'
         /\ \A f \in ToSet(front) : f.conn # c => ResultOK(f)'
         /\ \A d \in Conn \ {c} : /\ \A r \in ToSet(resp'[d]) : InitialOK(d, r)'
                                  /\ ConnOK(d)'
         /\ \A i \in suspended' : SuspendedOK(i)'
         /\ RoomInv' /\ Ids' = Ids
<1>1. /\ UNCHANGED <<identity, member, index, suspended, media, participants, mediaCount, started, stopped>>
      /\ Ids' = Ids
  BY DEF OthersKept, roomVars, Ids
<1>2. RoomInv'
  BY <1>1 DEF IInv, RoomInv, RoomTypes, TablesAgree, Counted, Members, HasMember
<1>3. \A d \in Conn : HasMember(d)' <=> HasMember(d)
  BY <1>1 DEF HasMember
<1>4. \A d \in Conn \ {c} : HasMember(d) => (member[d] \in known' <=> member[d] \in known)
  BY NoneAssumption DEF OthersKept, IInv, RoomInv, RoomTypes, TablesAgree, HasMember
<1>5. ASSUME NEW t \in ToSet(tasks), t.kind = "stop" \/ t.conn # c PROVE TaskOK(t)'
  <2>1. t \in Task /\ TaskOK(t)
    BY QueueElements DEF IInv, FrontTypes
  <2>2. CASE t.kind = "handle"
    <3>1. t.conn \in Conn \ {c}
      BY <1>5, <2>1, <2>2, TaskFields
    <3> QED BY <2>1, <2>2, <3>1 DEF TaskOK, OthersKept
  <2>3. CASE t.kind \in {"reject", "closed"}
    <3>1. t.conn \in Conn \ {c}
      BY <1>5, <2>1, <2>3, TaskFields
    <3> QED BY <1>1, <1>3, <1>4, <2>1, <2>3, <3>1 DEF TaskOK, OthersKept
  <2>4. CASE t.kind = "stop"
    BY <1>1, <2>1, <2>4 DEF TaskOK
  <2> QED BY <2>1, <2>2, <2>3, <2>4, TaskFields
<1>6. ASSUME NEW f \in ToSet(front), f.conn # c PROVE ResultOK(f)'
  <2>1. f \in Result /\ ResultOK(f)
    BY QueueElements DEF IInv, FrontTypes
  <2>2. f.conn \in Conn \ {c}
    BY <1>6, <2>1 DEF Result
  <2> QED BY <1>1, <1>3, <2>1, <2>2 DEF ResultOK, OthersKept
<1>7. ASSUME NEW d \in Conn \ {c} PROVE ConnOK(d)'
  <2>1. ConnOK(d)
    BY DEF IInv
  <2>2. /\ ws'[d] = ws[d] /\ entry'[d] = entry[d] /\ resp'[d] = resp[d]
        /\ d \in entries' <=> d \in entries
        /\ d \in emissions' <=> d \in emissions
        /\ d \in cancelled' <=> d \in cancelled
        /\ d \in finished' <=> d \in finished
    BY DEF OthersKept
  <2>3. LifeOK(d)'
    BY <1>1, <2>1, <2>2 DEF ConnOK, LifeOK
  <2>4. HeardOK(d)'
    <3>1. \A types : Answered(d, types) => Answered(d, types)'
      BY DEF Answered, OthersKept
    <3> QED BY <1>3, <2>1, <2>2, <3>1 DEF ConnOK, HeardOK
  <2>5. VerdictOK(d)'
    BY <1>1, <1>3, <1>4, <2>1, <2>2 DEF ConnOK, VerdictOK
  <2>6. OrphanOK(d)'
    BY <1>1, <1>3, <2>1, <2>2 DEF ConnOK, OrphanOK, OthersKept
  <2> QED BY <2>3, <2>4, <2>5, <2>6 DEF ConnOK
<1>8. ASSUME NEW d \in Conn \ {c}, NEW r \in ToSet(resp'[d]) PROVE InitialOK(d, r)'
  <2>1. r \in ToSet(resp[d]) /\ InitialOK(d, r)
    BY DEF OthersKept, IInv
  <2> QED BY <1>1, <1>3, <2>1 DEF InitialOK, OthersKept
<1>9. \A i \in suspended' : SuspendedOK(i)'
  BY <1>1 DEF IInv, SuspendedOK, OthersKept
<1> QED BY <1>1, <1>2, <1>5, <1>6, <1>7, <1>8, <1>9

\* Collects what a step of the front about c has to show.
LEMMA FrontConclude ==
  ASSUME IInv, NEW c \in Conn, OthersKept(c), FrontTypes', OneRequest',
         \A t \in ToSet(tasks') : t \notin ToSet(tasks) \/ t.conn = c => t.kind = "stop" \/ TaskOK(t)',
         \A t \in ToSet(tasks') : t \notin ToSet(tasks) => t.kind # "stop",
         \A f \in ToSet(front') : f.conn = c => ResultOK(f)',
         \A r \in ToSet(resp'[c]) : InitialOK(c, r)',
         ConnOK(c)'
  PROVE  IInv'
<1>1. \A t \in ToSet(tasks') : TaskOK(t)'
  BY FrontFrame
<1>2. \A f \in ToSet(front') : ResultOK(f)'
  BY FrontFrame DEF OthersKept
<1>3. \A d \in Conn : ConnOK(d)' /\ \A r \in ToSet(resp'[d]) : InitialOK(d, r)'
  BY FrontFrame
<1>4. (\A i \in suspended' : SuspendedOK(i)') /\ RoomInv'
  BY FrontFrame
<1> QED BY <1>1, <1>2, <1>3, <1>4 DEF IInv

\* The positions are numbers.
LEMMA PositionsAreNumbers ==
  FrontTypes => Handles \subseteq Nat /\ Results \subseteq Nat /\ Len(tasks) \in Nat /\ Len(front) \in Nat
BY LenProperties DEF FrontTypes, Handles, Results

\* The same positions hold the same requests and answers.
LEMMA RequestsKept ==
  ASSUME OneRequest, Handles' = Handles, Results' = Results, busy \subseteq busy',
         \A k \in Handles : tasks'[k] = tasks[k], \A k \in Results : front'[k] = front[k]
  PROVE  OneRequest'
BY DEF OneRequest

\* The requests under way are not affected by a cleanup that is queued.
LEMMA OneRequestAppend ==
  ASSUME FrontTypes, OneRequest, NEW t \in Task, t.kind # "handle",
         tasks' = Append(tasks, t), UNCHANGED <<front, busy>>
  PROVE  OneRequest'
<1>1. /\ Len(tasks) \in Nat /\ Len(tasks') = Len(tasks) + 1 /\ tasks'[Len(tasks) + 1] = t
      /\ \A k \in 1..Len(tasks) : tasks'[k] = tasks[k]
  BY AppendProperties, LenProperties DEF FrontTypes
<1>2. Handles' = Handles /\ Results' = Results
  BY <1>1 DEF Handles, Results
<1>3. \A k \in Handles : tasks'[k] = tasks[k]
  BY <1>1 DEF Handles
<1> QED BY <1>2, <1>3, RequestsKept

\* The cleanup is a rollback exactly when the entry asks for one.
LEMMA CleanupType ==
  ASSUME NEW c \in Conn, NEW e
  PROVE  /\ Cleanup(c, e) \in Task /\ Cleanup(c, e).kind \in {"reject", "closed"}
         /\ Cleanup(c, e).conn = c /\ (Cleanup(c, e).kind = "reject" <=> MustRollBack(e))
BY DEF Cleanup, Task

\* Detach queues the cleanup of a bound entry, unless it is refused.
LEMMA DetachEffect ==
  ASSUME IInv, NEW c \in Conn, NEW accepted \in BOOLEAN, Detach(c, accepted),
         UNCHANGED <<front, busy>>
  PROVE  /\ tasks' \in Seq(Task) /\ ToSet(tasks) \subseteq ToSet(tasks') /\ OneRequest'
         /\ \A t \in ToSet(tasks') \ ToSet(tasks) : t = Cleanup(c, entry[c]) /\ entry[c].bound
         /\ accepted => ~entry[c].bound \/ Cleanup(c, entry[c]) \in ToSet(tasks')
<1> DEFINE t == Cleanup(c, entry[c])
<1>1. t \in Task /\ t.kind # "handle"
  BY CleanupType
<1>2. tasks \in Seq(Task) /\ FrontTypes /\ OneRequest
  BY DEF IInv, FrontTypes
<1>3. CASE tasks' = tasks /\ (accepted => ~entry[c].bound)
  BY <1>2, <1>3 DEF OneRequest, Handles, Results
<1>4. CASE tasks' = Append(tasks, t) /\ entry[c].bound
  <2> HIDE DEF t
  <2>1. tasks' \in Seq(Task) /\ ToSet(tasks') = ToSet(tasks) \cup {t}
    BY <1>1, <1>2, <1>4, QueueElements, AppendProperties
  <2>2. OneRequest'
    BY <1>1, <1>2, <1>4, OneRequestAppend
  <2> QED BY <1>4, <2>1, <2>2 DEF t
<1> QED BY <1>3, <1>4 DEF Detach

\* A step that cancels the session of c, or finds it cancelled, and may queue the
\* cleanup that its entry asks for.
LEMMA CancelStep ==
  ASSUME IInv, NEW c \in Conn, OthersKept(c), FrontTypes', OneRequest',
         c \in cancelled', known' = known, front' = front,
         \A r \in ToSet(resp'[c]) : r.kind # "initial",
         \A t \in ToSet(tasks') \ ToSet(tasks) :
            t = Cleanup(c, entry[c]) /\ entry[c].bound /\ c \in entries,
         LifeOK(c)', VerdictOK(c)', c \in entries' => c \in entries,
         c \in entries' /\ entry[c].bound => entry'[c].bound,
         c \in entries /\ c \notin entries' =>
            ~entry[c].bound \/ Cleanup(c, entry[c]) \in ToSet(tasks')
  PROVE  IInv'
<1>1. UNCHANGED <<identity, member, index, suspended, stopped>> /\ Ids' = Ids
  BY DEF OthersKept, roomVars, Ids
<1>2. (HasMember(c)' <=> HasMember(c)) /\ finished \subseteq finished' /\ ConnOK(c)
  BY <1>1 DEF HasMember, OthersKept, IInv
<1>3. ASSUME NEW t \in ToSet(tasks'), t \in ToSet(tasks), t.conn = c PROVE TaskOK(t)'
  <2>1. TaskOK(t)
    BY <1>3 DEF IInv
  <2> QED BY <1>1, <1>2, <1>3, <2>1 DEF TaskOK
<1>4. ASSUME NEW t \in ToSet(tasks') \ ToSet(tasks) PROVE TaskOK(t)' /\ t.kind # "stop"
  <2>1. /\ t.kind \in {"reject", "closed"} /\ t.conn = c
        /\ (t.kind = "reject" <=> MustRollBack(entry[c])) /\ entry[c].bound /\ c \in entries
    BY <1>4, CleanupType
  <2>2. VerdictOK(c)
    BY <1>2 DEF ConnOK
  <2> QED BY <1>1, <1>2, <2>1, <2>2 DEF TaskOK, VerdictOK
<1>5. ASSUME NEW f \in ToSet(front'), f.conn = c PROVE ResultOK(f)'
  <2>1. ResultOK(f)
    BY <1>5 DEF IInv
  <2> QED BY <1>1, <1>2, <1>5, <2>1 DEF ResultOK
<1>6. \A r \in ToSet(resp'[c]) : InitialOK(c, r)'
  BY DEF InitialOK
<1>7. HeardOK(c)'
  BY DEF HeardOK
<1>9. OrphanOK(c)'
  <2>1. OrphanOK(c) /\ ToSet(tasks) \subseteq ToSet(tasks')
    BY <1>2 DEF ConnOK, OthersKept
  <2>2. Ends(Cleanup(c, entry[c]), c)
    BY CleanupType DEF Ends
  <2>3. (\E t \in ToSet(tasks) : Ends(t, c)) => (\E t \in ToSet(tasks') : Ends(t, c))
    BY <2>1
  <2> QED BY <1>1, <1>2, <2>1, <2>2, <2>3 DEF OrphanOK
<1>10. ConnOK(c)'
  BY <1>7, <1>9 DEF ConnOK
<1> QED BY <1>3, <1>4, <1>5, <1>6, <1>10, FrontConclude

\* What Cancel does.
LEMMA CancelEffect ==
  ASSUME FrontTypes, NEW c \in Conn, Cancel(c)
  PROVE  /\ cancelled' = cancelled \cup {c} /\ cancelled' \subseteq Conn /\ finished' = finished
         /\ resp' \in [Conn -> Seq(Response)] /\ resp'[c] = <<>> /\ ToSet(resp'[c]) = {}
         /\ \A d \in Conn \ {c} : resp'[d] = resp[d]
<1>1. resp' = [resp EXCEPT ![c] = <<>>]
  BY DEF Cancel
<1>2. resp'[c] = <<>> /\ \A d \in Conn \ {c} : resp'[d] = resp[d]
  BY <1>1 DEF FrontTypes
<1>3. ToSet(<<>>) = {}
  BY DEF ToSet
<1>4. <<>> \in Seq(Response)
  BY EmptySeq
<1> QED BY <1>1, <1>2, <1>3, <1>4 DEF Cancel, FrontTypes

\* The entry of one connection is replaced.
LEMMA EntryKept ==
  ASSUME FrontTypes, NEW c \in Conn, NEW e \in Entry, entry' = [entry EXCEPT ![c] = e]
  PROVE  /\ entry' \in [Conn -> Entry] /\ entry'[c] = e
         /\ \A d \in Conn \ {c} : entry'[d] = entry[d]
BY DEF FrontTypes

\* An entry as Open makes it is an entry.
LEMMA FreshEntryType == FreshEntry \in Entry
BY DEF FreshEntry, Entry

\* OneRequest when no queue moves.
LEMMA OneRequestSame ==
  ASSUME OneRequest, UNCHANGED <<tasks, front, busy>>
  PROVE  OneRequest'
BY DEF OneRequest, Handles, Results

\* A connection is opened.
LEMMA OpenStep ==
  ASSUME IInv, NEW c \in Conn, Open(c)
  PROVE  IInv'
<1>1. /\ ws[c] = "none" /\ ~stopped /\ ws' = [ws EXCEPT ![c] = "up"]
      /\ entries' = entries \cup {c}
      /\ UNCHANGED <<entry, emissions, asked, stopped, known, cancelled, finished, resp, busy,
                     tasks, front, roomVars>>
  BY DEF Open, sessionVars
<1>2. FrontTypes
  BY DEF IInv
<1>3. OthersKept(c)
  BY <1>1, <1>2 DEF OthersKept, FrontTypes
<1>4. UNCHANGED <<identity, member, index, suspended, started>> /\ Ids' = Ids
  BY <1>1 DEF roomVars, Ids
<1>5. FrontTypes'
  <2>1. IsFiniteSet(entries')
    BY <1>1, <1>2, FS_AddElement DEF FrontTypes
  <2> QED BY <1>1, <1>2, <1>4, <2>1 DEF FrontTypes
<1>6. OneRequest'
  BY <1>1, OneRequestSame DEF IInv
<1>7. c \notin entries \cup cancelled /\ entry[c] = FreshEntry /\ ConnOK(c)
  BY <1>1 DEF IInv, ConnOK, LifeOK
<1>8. ~HasMember(c)
  <2> SUFFICES ASSUME HasMember(c) PROVE FALSE
    OBVIOUS
  <2>1. member[c] \in Ids /\ index[member[c]] = c
    BY DEF IInv, RoomInv, RoomTypes, TablesAgree, HasMember
  <2>2. member[c] \notin suspended
    BY <1>7, <2>1 DEF IInv, SuspendedOK
  <2>3. PICK t \in ToSet(tasks) : Ends(t, c)
    BY <1>7, <2>2 DEF ConnOK, OrphanOK
  <2>4. TaskOK(t)
    BY DEF IInv
  <2> QED BY <1>1, <1>7, <2>3, <2>4 DEF TaskOK, Ends
<1>9. ASSUME NEW t \in ToSet(tasks') PROVE TaskOK(t)'
  <2>1. TaskOK(t)
    BY <1>1 DEF IInv
  <2> QED BY <1>1, <1>4, <2>1 DEF TaskOK, HasMember
<1>10. ASSUME NEW f \in ToSet(front') PROVE ResultOK(f)'
  <2>1. ResultOK(f)
    BY <1>1 DEF IInv
  <2> QED BY <1>1, <1>4, <2>1 DEF ResultOK, HasMember
<1>11. ASSUME NEW r \in ToSet(resp'[c]) PROVE InitialOK(c, r)'
  <2>1. InitialOK(c, r)
    BY <1>1 DEF IInv
  <2> QED BY <1>7, <2>1 DEF InitialOK
<1>12. ConnOK(c)'
  <2>1. ws'[c] = "up" /\ entry'[c] = FreshEntry /\ ~HasMember(c)'
    BY <1>1, <1>2, <1>4, <1>7, <1>8 DEF FrontTypes, HasMember
  <2>2. ~FreshEntry.closing /\ ~FreshEntry.disconnected /\ ~FreshEntry.bound /\ ~FreshEntry.admitted
    BY DEF FreshEntry
  <2> QED BY <1>1, <2>1, <2>2 DEF ConnOK, LifeOK, HeardOK, VerdictOK, OrphanOK
<1> QED BY <1>1, <1>3, <1>5, <1>6, <1>9, <1>10, <1>11, <1>12, FrontConclude

\* A step that only changes the socket, or drops responses.
LEMMA SocketStep ==
  ASSUME IInv, NEW c \in Conn, ws[c] # "none",
         ws' \in [Conn -> {"none", "up", "draining", "closing", "gone"}], ws'[c] # "none",
         \A d \in Conn \ {c} : ws'[d] = ws[d],
         \A d \in Conn \ {c} : resp'[d] = resp[d],
         resp' \in [Conn -> Seq(Response)], ToSet(resp'[c]) \subseteq ToSet(resp[c]),
         UNCHANGED <<entries, entry, emissions, asked, stopped, known, cancelled, finished,
                     busy, tasks, front, roomVars>>
  PROVE  IInv'
<1>1. UNCHANGED <<identity, member, index, suspended, started>> /\ Ids' = Ids
  BY DEF roomVars, Ids
<1>2. OthersKept(c) /\ FrontTypes'
  BY <1>1 DEF OthersKept, IInv, FrontTypes
<1>3. OneRequest'
  BY OneRequestSame DEF IInv
<1>4. HasMember(c)' <=> HasMember(c)
  BY <1>1 DEF HasMember
<1>5. ASSUME NEW t \in ToSet(tasks') PROVE TaskOK(t)'
  <2>1. TaskOK(t)
    BY DEF IInv
  <2> QED BY <1>1, <2>1 DEF TaskOK, HasMember
<1>6. ASSUME NEW f \in ToSet(front') PROVE ResultOK(f)'
  <2>1. ResultOK(f)
    BY DEF IInv
  <2> QED BY <1>1, <2>1 DEF ResultOK, HasMember
<1>7. ASSUME NEW r \in ToSet(resp'[c]) PROVE InitialOK(c, r)'
  <2>1. InitialOK(c, r)
    BY DEF IInv
  <2> QED BY <1>1, <2>1 DEF InitialOK, HasMember
<1>8. ConnOK(c)'
  <2>1. ConnOK(c)
    BY DEF IInv
  <2> QED BY <1>1, <1>4, <2>1 DEF ConnOK, LifeOK, HeardOK, VerdictOK, OrphanOK, Answered
<1> QED BY <1>2, <1>3, <1>5, <1>6, <1>7, <1>8, FrontConclude

\* WsSignalGateway::Tick closes the socket of a cancelled session.
LEMMA GatewayTickStep ==
  ASSUME IInv, NEW c \in Conn, GatewayTick(c)
  PROVE  IInv'
<1>1. ws' \in [Conn -> {"none", "up", "draining", "closing", "gone"}]
      /\ ws'[c] = "closing" /\ ws[c] # "none" /\ \A d \in Conn \ {c} : ws'[d] = ws[d]
  BY DEF GatewayTick, CloseConnection, IInv, FrontTypes
<1>2. /\ UNCHANGED <<entries, entry, emissions, asked, stopped, known, cancelled, finished, busy, tasks, front, roomVars>>
      /\ resp' = resp
  BY DEF GatewayTick, sessionVars
<1>3. resp' \in [Conn -> Seq(Response)]
  BY <1>2 DEF IInv, FrontTypes
<1> QED BY <1>1, <1>2, <1>3, SocketStep

\* What the front would do does not depend on the deadlines of the entry.
LEMMA VerdictKept ==
  ASSUME NEW c \in Conn, VerdictOK(c), UNCHANGED <<member, known>>,
         c \in entries' => c \in entries, finished \subseteq finished',
         c \in entries' => /\ MustRollBack(entry'[c]) <=> MustRollBack(entry[c])
                           /\ entry'[c].bound <=> entry[c].bound
  PROVE  VerdictOK(c)'
BY DEF VerdictOK, HasMember

\* A channel overflows and cancels the session.
LEMMA OverflowStep ==
  ASSUME IInv, NEW c \in Conn, Overflow(c)
  PROVE  IInv'
<1>1. /\ ws[c] # "none" /\ Cancel(c) /\ FrontTypes /\ ConnOK(c)
      /\ UNCHANGED <<ws, entries, entry, emissions, asked, stopped, known, busy, tasks, front, roomVars>>
  BY DEF Overflow, frontVars, IInv
<1>2. UNCHANGED <<identity, member, index, suspended, started>> /\ Ids' = Ids
  BY <1>1 DEF roomVars, Ids
<1>3. /\ cancelled' = cancelled \cup {c} /\ cancelled' \subseteq Conn /\ finished' = finished
      /\ resp' \in [Conn -> Seq(Response)] /\ ToSet(resp'[c]) = {}
      /\ \A d \in Conn \ {c} : resp'[d] = resp[d]
  BY <1>1, CancelEffect
<1>4. OthersKept(c)
  BY <1>1, <1>3 DEF OthersKept
<1>5. FrontTypes'
  BY <1>1, <1>2, <1>3 DEF FrontTypes
<1>6. OneRequest'
  BY <1>1, OneRequestSame DEF IInv
<1>7. LifeOK(c)'
  BY <1>1, <1>3 DEF ConnOK, LifeOK
<1>8. VerdictOK(c)'
  BY <1>1, <1>2, <1>3, VerdictKept DEF ConnOK
<1> QED BY <1>1, <1>3, <1>4, <1>5, <1>6, <1>7, <1>8, CancelStep

\* What FinishSession does.
LEMMA FinishSessionEffect ==
  ASSUME FrontTypes, NEW c \in Conn, FinishSession(c)
  PROVE  /\ finished' = finished \cup {c} /\ finished' \subseteq Conn /\ cancelled' = cancelled
         /\ resp' \in [Conn -> Seq(Response)]
         /\ \A r \in ToSet(resp'[c]) : r \in ToSet(resp[c]) \/ r.kind = "final"
         /\ \A d \in Conn \ {c} : resp'[d] = resp[d]
<1> DEFINE final == [kind |-> "final"]
           s == resp[c]
<1>1. /\ finished' = finished \cup {c} /\ cancelled' = cancelled
      /\ resp' = [resp EXCEPT ![c] = IF c \in finished THEN s ELSE Append(s, final)]
  BY DEF FinishSession
<1>2. final \in Response /\ final.kind = "final" /\ s \in Seq(Response) /\ resp \in [Conn -> Seq(Response)]
      /\ finished \subseteq Conn
  BY DEF Response, FrontTypes
<1> HIDE DEF final, s
<1>3. Append(s, final) \in Seq(Response) /\ ToSet(Append(s, final)) = ToSet(s) \cup {final}
  BY <1>2, QueueElements, AppendProperties
<1>4. resp' \in [Conn -> Seq(Response)] /\ \A d \in Conn \ {c} : resp'[d] = resp[d]
  BY <1>1, <1>2, <1>3
<1>5. resp'[c] = s \/ resp'[c] = Append(s, final)
  BY <1>1, <1>2
<1>6. \A r \in ToSet(resp'[c]) : r \in ToSet(s) \/ r.kind = "final"
  BY <1>2, <1>3, <1>5
<1> QED BY <1>1, <1>2, <1>4, <1>6 DEF s

\* The deadline of an entry passes: Expire, whoever found out, and whether or not
\* the socket is closed with it.
LEMMA ExpireStep ==
  ASSUME IInv, NEW c \in entries, Expire(c), ~entry[c].closing,
         ws' \in [Conn -> {"none", "up", "draining", "closing", "gone"}], ws'[c] # "none",
         \A d \in Conn \ {c} : ws'[d] = ws[d],
         UNCHANGED <<entries, emissions, asked, stopped, known, busy, front, roomVars>>
  PROVE  IInv'
<1>1. FrontTypes /\ c \in Conn /\ ConnOK(c) /\ entry[c] \in Entry
  BY DEF IInv, FrontTypes
<1>2. UNCHANGED <<identity, member, index, suspended, started>> /\ Ids' = Ids
  BY DEF roomVars, Ids
<1>3. entry' = [entry EXCEPT ![c] = [entry[c] EXCEPT !.closing = TRUE]]
  BY DEF Expire
<1>4. /\ entry' \in [Conn -> Entry] /\ entry'[c] = [entry[c] EXCEPT !.closing = TRUE]
      /\ \A d \in Conn \ {c} : entry'[d] = entry[d]
  <2>1. [entry[c] EXCEPT !.closing = TRUE] \in Entry
    BY <1>1 DEF Entry
  <2> QED BY <1>1, <1>3, <2>1, EntryKept
<1>5. /\ entry'[c].bound = entry[c].bound /\ entry'[c].closing
      /\ entry'[c].disconnected = entry[c].disconnected
      /\ entry'[c].admitted = entry[c].admitted /\ entry'[c].resumed = entry[c].resumed
      /\ entry'[c].pending = entry[c].pending /\ entry'[c].admitting = entry[c].admitting
      /\ entry'[c].gen = entry[c].gen
  BY <1>1, <1>4 DEF Entry
<1>6. MustRollBack(entry'[c]) <=> MustRollBack(entry[c])
  BY <1>5 DEF MustRollBack
<1>7. CASE Cancel(c) /\ \E accepted \in BOOLEAN : Detach(c, accepted)
  <2>1. /\ cancelled' = cancelled \cup {c} /\ cancelled' \subseteq Conn /\ finished' = finished
        /\ resp' \in [Conn -> Seq(Response)] /\ ToSet(resp'[c]) = {}
        /\ \A d \in Conn \ {c} : resp'[d] = resp[d]
    BY <1>1, <1>7, CancelEffect
  <2>2. /\ tasks' \in Seq(Task) /\ ToSet(tasks) \subseteq ToSet(tasks') /\ OneRequest'
        /\ \A t \in ToSet(tasks') \ ToSet(tasks) : t = Cleanup(c, entry[c]) /\ entry[c].bound
    BY <1>1, <1>7, DetachEffect
  <2>3. OthersKept(c)
    BY <1>4, <2>1, <2>2 DEF OthersKept
  <2>4. FrontTypes'
    BY <1>1, <1>2, <1>4, <2>1, <2>2 DEF FrontTypes
  <2>5. LifeOK(c)'
    BY <1>1, <1>5, <2>1 DEF ConnOK, LifeOK
  <2>6. VerdictOK(c)'
    BY <1>1, <1>2, <1>5, <1>6, <2>1, VerdictKept DEF ConnOK
  <2> QED BY <1>1, <1>5, <2>1, <2>2, <2>3, <2>4, <2>5, <2>6, CancelStep
<1>8. CASE FinishSession(c) /\ UNCHANGED tasks
  <2>1. /\ finished' = finished \cup {c} /\ cancelled' = cancelled
        /\ resp' \in [Conn -> Seq(Response)]
        /\ \A r \in ToSet(resp'[c]) : r \in ToSet(resp[c]) \/ r.kind = "final"
        /\ \A d \in Conn \ {c} : resp'[d] = resp[d]
    BY <1>1, <1>8, FinishSessionEffect
  <2>2. OthersKept(c)
    BY <1>4, <1>8, <2>1 DEF OthersKept
  <2>3. FrontTypes'
    BY <1>1, <1>2, <1>4, <1>8, <2>1 DEF FrontTypes
  <2>4. OneRequest'
    BY <1>8, OneRequestSame DEF IInv
  <2>5. ASSUME NEW t \in ToSet(tasks'), t.conn = c PROVE TaskOK(t)'
    <3>1. TaskOK(t)
      BY <1>8 DEF IInv
    <3> QED BY <1>5, <2>1, <2>5, <3>1 DEF TaskOK
  <2>6. ASSUME NEW f \in ToSet(front'), f.conn = c PROVE ResultOK(f)'
    <3>1. ResultOK(f)
      BY DEF IInv
    <3> QED BY <1>2, <1>5, <2>1, <2>6, <3>1 DEF ResultOK, HasMember
  <2>7. ASSUME NEW r \in ToSet(resp'[c]) PROVE InitialOK(c, r)'
    <3>1. CASE r \in ToSet(resp[c])
      <4>1. InitialOK(c, r)
        BY <1>1, <3>1 DEF IInv
      <4> QED BY <1>2, <1>5, <2>1, <4>1 DEF InitialOK
    <3> QED BY <2>1, <3>1 DEF InitialOK
  <2>8. LifeOK(c)'
    BY <1>1, <1>5, <2>1 DEF ConnOK, LifeOK
  <2>9. HeardOK(c)' /\ VerdictOK(c)'
    BY <1>5, <2>1 DEF HeardOK, VerdictOK
  <2>10. OrphanOK(c)'
    BY <1>1, <1>2, <1>5, <1>8 DEF ConnOK, OrphanOK, HasMember
  <2>11. ConnOK(c)'
    BY <2>8, <2>9, <2>10 DEF ConnOK
  <2> QED BY <1>1, <1>8, <2>2, <2>3, <2>4, <2>5, <2>6, <2>7, <2>11, FrontConclude
<1> QED BY <1>7, <1>8 DEF Expire

\* Tick finds an entry past its deadline.
LEMMA TickExpireStep ==
  ASSUME IInv, NEW c \in Conn, TickExpire(c)
  PROVE  IInv'
<1>1. /\ c \in entries /\ ~entry[c].closing /\ Expire(c)
      /\ UNCHANGED <<ws, entries, emissions, asked, stopped, known, busy, front, roomVars>>
  BY DEF TickExpire
<1>2. ws \in [Conn -> {"none", "up", "draining", "closing", "gone"}] /\ LifeOK(c)
  BY DEF IInv, FrontTypes, ConnOK
<1>3. ws[c] # "none"
  BY <1>1, <1>2 DEF LifeOK
<1> QED BY <1>1, <1>2, <1>3, ExpireStep

\* The entry is given up once its cleanup is queued.
LEMMA EntryErased ==
  ASSUME FrontTypes, NEW c \in Conn, entries' = entries \ {c},
         entry' = [entry EXCEPT ![c] = FreshEntry]
  PROVE  /\ entries' \subseteq Conn /\ IsFiniteSet(entries') /\ entry' \in [Conn -> Entry]
         /\ entry'[c] = FreshEntry /\ ~FreshEntry.bound /\ ~FreshEntry.admitted
         /\ ~FreshEntry.closing /\ ~FreshEntry.disconnected
         /\ \A d \in Conn \ {c} : entry'[d] = entry[d] /\ (d \in entries' <=> d \in entries)
<1>1. IsFiniteSet(entries')
  BY FS_RemoveElement, FS_Subset DEF FrontTypes
<1>2. /\ ~FreshEntry.bound /\ ~FreshEntry.admitted /\ ~FreshEntry.closing /\ ~FreshEntry.disconnected
  BY DEF FreshEntry
<1> QED BY <1>1, <1>2, EntryKept, FreshEntryType DEF FrontTypes

\* The socket is gone.
LEMMA ClosedStep ==
  ASSUME IInv, NEW c \in Conn, Closed(c)
  PROVE  IInv'
<1>1. /\ ws[c] # "none" /\ ~stopped /\ ws' = [ws EXCEPT ![c] = "gone"] /\ Cancel(c)
      /\ emissions' = emissions \ {c}
      /\ UNCHANGED <<asked, stopped, known, busy, front, roomVars>>
      /\ FrontTypes /\ ConnOK(c) /\ LifeOK(c) /\ VerdictOK(c)
  BY DEF Closed, IInv, ConnOK
<1>2. UNCHANGED <<identity, member, index, suspended, started>> /\ Ids' = Ids
  BY <1>1 DEF roomVars, Ids
<1>3. /\ cancelled' = cancelled \cup {c} /\ cancelled' \subseteq Conn /\ finished' = finished
      /\ resp' \in [Conn -> Seq(Response)] /\ ToSet(resp'[c]) = {}
      /\ \A d \in Conn \ {c} : resp'[d] = resp[d]
  BY <1>1, CancelEffect
<1>4. /\ ws' \in [Conn -> {"none", "up", "draining", "closing", "gone"}] /\ ws'[c] = "gone"
      /\ \A d \in Conn \ {c} : ws'[d] = ws[d]
  BY <1>1 DEF FrontTypes
<1>5. entry[c] \in Entry /\ (entry[c].bound => c \in entries)
  BY <1>1 DEF FrontTypes, LifeOK, FreshEntry
<1>6. CASE Detach(c, TRUE) /\ entries' = entries \ {c} /\ entry' = [entry EXCEPT ![c] = FreshEntry]
  <2>1. /\ tasks' \in Seq(Task) /\ ToSet(tasks) \subseteq ToSet(tasks') /\ OneRequest'
        /\ \A t \in ToSet(tasks') \ ToSet(tasks) : t = Cleanup(c, entry[c]) /\ entry[c].bound
        /\ ~entry[c].bound \/ Cleanup(c, entry[c]) \in ToSet(tasks')
    BY <1>1, <1>6, DetachEffect
  <2>2. /\ entries' \subseteq Conn /\ IsFiniteSet(entries') /\ entry' \in [Conn -> Entry]
        /\ entry'[c] = FreshEntry /\ ~FreshEntry.bound /\ ~FreshEntry.admitted
        /\ ~FreshEntry.closing /\ ~FreshEntry.disconnected
        /\ \A d \in Conn \ {c} : entry'[d] = entry[d] /\ (d \in entries' <=> d \in entries)
    BY <1>1, <1>6, EntryErased
  <2>3. OthersKept(c)
    BY <1>1, <1>3, <1>4, <2>1, <2>2 DEF OthersKept
  <2>4. FrontTypes'
    BY <1>1, <1>2, <1>3, <1>4, <2>1, <2>2 DEF FrontTypes
  <2>5. LifeOK(c)' /\ VerdictOK(c)' /\ c \notin entries'
    BY <1>3, <1>4, <1>6, <2>2 DEF LifeOK, VerdictOK
  <2> QED BY <1>1, <1>3, <1>5, <2>1, <2>3, <2>4, <2>5, CancelStep
<1>7. CASE /\ Detach(c, FALSE) /\ UNCHANGED entries
           /\ entry' = [entry EXCEPT ![c].closing = TRUE, ![c].disconnected = TRUE]
  <2>1. /\ tasks' \in Seq(Task) /\ ToSet(tasks) \subseteq ToSet(tasks') /\ OneRequest'
        /\ \A t \in ToSet(tasks') \ ToSet(tasks) : t = Cleanup(c, entry[c]) /\ entry[c].bound
    BY <1>1, <1>7, DetachEffect
  <2>2. c \in entries
    BY <1>5, <1>7 DEF Detach
  <2> DEFINE e == [entry[c] EXCEPT !.closing = TRUE, !.disconnected = TRUE]
  <2>3. e \in Entry /\ entry' = [entry EXCEPT ![c] = e]
    BY <1>1, <1>5, <1>7 DEF Entry, FrontTypes
  <2>4. /\ e.bound = entry[c].bound /\ e.admitted = entry[c].admitted
        /\ MustRollBack(e) <=> MustRollBack(entry[c])
    BY <1>5 DEF MustRollBack, Entry
  <2> HIDE DEF e
  <2>5. /\ entry' \in [Conn -> Entry] /\ entry'[c] = e
        /\ \A d \in Conn \ {c} : entry'[d] = entry[d]
    BY <1>1, <2>3, EntryKept
  <2>6. OthersKept(c)
    BY <1>1, <1>3, <1>4, <1>7, <2>1, <2>5 DEF OthersKept
  <2>7. FrontTypes'
    BY <1>1, <1>2, <1>3, <1>4, <1>7, <2>1, <2>5 DEF FrontTypes
  <2>8. LifeOK(c)'
    BY <1>1, <1>3, <1>4, <1>7, <2>2, <2>4, <2>5 DEF LifeOK
  <2>9. VerdictOK(c)'
    BY <1>1, <1>2, <1>3, <2>2, <2>4, <2>5, VerdictKept
  <2> QED BY <1>1, <1>3, <1>7, <2>1, <2>2, <2>4, <2>5, <2>6, <2>7, <2>8, <2>9, CancelStep
<1> QED BY <1>6, <1>7 DEF Closed

\* Tick retries the cleanup of a connection that is gone.
LEMMA TickDetachStep ==
  ASSUME IInv, NEW c \in Conn, TickDetach(c)
  PROVE  IInv'
<1>1. /\ c \in entries /\ entry[c].disconnected /\ Detach(c, TRUE)
      /\ entries' = entries \ {c} /\ entry' = [entry EXCEPT ![c] = FreshEntry]
      /\ UNCHANGED <<ws, emissions, asked, stopped, known, cancelled, finished, resp, busy, front, roomVars>>
      /\ FrontTypes /\ LifeOK(c)
  BY DEF TickDetach, sessionVars, IInv, ConnOK
<1>2. UNCHANGED <<identity, member, index, suspended, started>> /\ Ids' = Ids
  BY <1>1 DEF roomVars, Ids
<1>3. c \in cancelled /\ ws[c] # "none"
  BY <1>1 DEF LifeOK
<1>4. /\ tasks' \in Seq(Task) /\ ToSet(tasks) \subseteq ToSet(tasks') /\ OneRequest'
      /\ \A t \in ToSet(tasks') \ ToSet(tasks) : t = Cleanup(c, entry[c]) /\ entry[c].bound
      /\ ~entry[c].bound \/ Cleanup(c, entry[c]) \in ToSet(tasks')
  BY <1>1, DetachEffect
<1>5. /\ entries' \subseteq Conn /\ IsFiniteSet(entries') /\ entry' \in [Conn -> Entry]
      /\ entry'[c] = FreshEntry /\ ~FreshEntry.bound /\ ~FreshEntry.admitted
      /\ ~FreshEntry.closing /\ ~FreshEntry.disconnected
      /\ \A d \in Conn \ {c} : entry'[d] = entry[d] /\ (d \in entries' <=> d \in entries)
  BY <1>1, EntryErased
<1>6. OthersKept(c)
  BY <1>1, <1>4, <1>5 DEF OthersKept
<1>7. FrontTypes'
  BY <1>1, <1>2, <1>4, <1>5 DEF FrontTypes
<1>8. LifeOK(c)' /\ VerdictOK(c)' /\ c \notin entries'
  BY <1>1, <1>3, <1>5 DEF LifeOK, VerdictOK
<1>9. \A r \in ToSet(resp'[c]) : r.kind # "initial"
  BY <1>1, <1>3 DEF IInv, InitialOK
<1> QED BY <1>1, <1>3, <1>4, <1>6, <1>7, <1>8, <1>9, CancelStep

\* Taking the first response off the channel.
LEMMA RespTail ==
  ASSUME FrontTypes, NEW c \in Conn, resp[c] # <<>>, resp' = [resp EXCEPT ![c] = Tail(resp[c])]
  PROVE  /\ resp' \in [Conn -> Seq(Response)] /\ ToSet(resp'[c]) \subseteq ToSet(resp[c])
         /\ \A d \in Conn \ {c} : resp'[d] = resp[d]
         /\ Head(resp[c]) \in ToSet(resp[c])
<1> DEFINE s == resp[c]
<1>1. s \in Seq(Response) /\ s # <<>> /\ resp \in [Conn -> Seq(Response)]
  BY DEF FrontTypes
<1> HIDE DEF s
<1>2. Tail(s) \in Seq(Response)
  BY <1>1, HeadTailProperties
<1>3. ToSet(Tail(s)) \subseteq ToSet(s) /\ Head(s) \in ToSet(s)
  BY <1>1, QueueElements
<1>4. resp' = [resp EXCEPT ![c] = Tail(s)]
  BY DEF s
<1>5. resp'[c] = Tail(s) /\ resp' \in [Conn -> Seq(Response)] /\ \A d \in Conn \ {c} : resp'[d] = resp[d]
  BY <1>1, <1>2, <1>4
<1> QED BY <1>3, <1>5 DEF s

\* ConfirmInitial: the client has the credentials now, and the rollback is off.
LEMMA ConfirmStep ==
  ASSUME IInv, NEW c \in Conn, NEW r, r \in ToSet(resp[c]), r.kind = "initial", Confirm(c, r),
         known' = known \cup {r.id},
         resp' \in [Conn -> Seq(Response)], ToSet(resp'[c]) \subseteq ToSet(resp[c]),
         \A d \in Conn \ {c} : resp'[d] = resp[d],
         UNCHANGED <<ws, entries, emissions, asked, stopped, cancelled, finished, busy, tasks, front, roomVars>>
  PROVE  IInv'
<1> DEFINE e == IF entry[c].gen # r.gen \/ entry[c].closing THEN entry[c]
                ELSE [entry[c] EXCEPT !.pending = FALSE, !.timed = FALSE]
<1>1. /\ FrontTypes /\ entry[c] \in Entry /\ InitialOK(c, r) /\ ConnOK(c) /\ LifeOK(c)
      /\ VerdictOK(c) /\ RoomInv
  BY DEF IInv, FrontTypes, ConnOK
<1>2. UNCHANGED <<identity, member, index, suspended, started>> /\ Ids' = Ids
  BY DEF roomVars, Ids
<1>3. r.id \in Ids /\ c \in entries \ cancelled /\ index[r.id] \in {c, None}
  BY <1>1 DEF InitialOK
<1>4. e \in Entry /\ entry' = [entry EXCEPT ![c] = e]
  BY <1>1 DEF Confirm, Entry, FrontTypes
<1>5. /\ e.bound = entry[c].bound /\ e.closing = entry[c].closing
      /\ e.disconnected = entry[c].disconnected /\ e.admitted = entry[c].admitted
      /\ e.resumed = entry[c].resumed /\ e.admitting = entry[c].admitting /\ e.gen = entry[c].gen
      /\ entry[c].gen # r.gen => e = entry[c]
      /\ entry[c].gen = r.gen /\ ~entry[c].closing => ~e.pending
  BY <1>1 DEF Entry
<1> HIDE DEF e
<1>6. /\ entry' \in [Conn -> Entry] /\ entry'[c] = e /\ \A d \in Conn \ {c} : entry'[d] = entry[d]
  BY <1>1, <1>4, EntryKept
<1>7. OthersKept(c)
  BY <1>3, <1>6 DEF OthersKept
<1>8. FrontTypes'
  BY <1>1, <1>2, <1>3, <1>6 DEF FrontTypes
<1>9. OneRequest'
  BY OneRequestSame DEF IInv
<1>10. ASSUME NEW t \in ToSet(tasks'), t.conn = c PROVE TaskOK(t)'
  <2>1. TaskOK(t)
    BY DEF IInv
  <2> QED BY <1>3, <1>5, <1>6, <1>10, <2>1 DEF TaskOK
<1>11. ASSUME NEW f \in ToSet(front'), f.conn = c PROVE ResultOK(f)'
  <2>1. ResultOK(f)
    BY DEF IInv
  <2> QED BY <1>2, <1>5, <1>6, <1>11, <2>1 DEF ResultOK, HasMember
<1>12. ASSUME NEW q \in ToSet(resp'[c]) PROVE InitialOK(c, q)'
  <2>1. InitialOK(c, q)
    BY DEF IInv
  <2> QED BY <1>2, <1>5, <1>6, <2>1 DEF InitialOK, HasMember
<1>13. LifeOK(c)'
  BY <1>1, <1>3, <1>5, <1>6 DEF LifeOK
<1>14. HeardOK(c)'
  BY <1>1, <1>2, <1>5, <1>6 DEF ConnOK, HeardOK, HasMember, Answered
<1>15. OrphanOK(c)'
  BY <1>1, <1>2, <1>5, <1>6 DEF ConnOK, OrphanOK, HasMember
<1>16. VerdictOK(c)'
  <2> SUFFICES ASSUME HasMember(c), c \notin finished, entry[c].bound
               PROVE  MustRollBack(e) <=> member[c] \notin known'
    BY <1>2, <1>5, <1>6 DEF VerdictOK, HasMember
  <2>1. ~entry[c].closing
    BY <1>1, <1>3 DEF LifeOK
  <2>2. CASE entry[c].gen = r.gen
    <3>1. entry[c].admitted /\ member[c] = r.id
      BY <1>1, <2>2 DEF InitialOK
    <3> QED BY <1>5, <2>1, <2>2, <3>1 DEF MustRollBack
  <2>3. CASE entry[c].gen # r.gen
    <3>1. index[r.id] = None /\ index[member[c]] = c
      BY <1>1, <2>3 DEF InitialOK, RoomInv, TablesAgree
    <3>2. member[c] # r.id
      BY <3>1, NoneAssumption
    <3> QED BY <1>1, <1>3, <1>5, <2>3, <3>2 DEF VerdictOK
  <2> QED BY <2>2, <2>3
<1>17. ConnOK(c)'
  BY <1>13, <1>14, <1>15, <1>16 DEF ConnOK
<1> QED BY <1>7, <1>8, <1>9, <1>10, <1>11, <1>12, <1>17, FrontConclude

\* The gateway writes the next response.
LEMMA WriteStep ==
  ASSUME IInv, NEW c \in Conn, Write(c)
  PROVE  IInv'
<1> DEFINE r == Head(resp[c])
<1>1. /\ resp[c] # <<>> /\ c \notin cancelled /\ ws[c] # "gone"
      /\ UNCHANGED <<entries, emissions, asked, stopped, busy, front, roomVars>>
  BY DEF Write
<1>2. FrontTypes /\ LifeOK(c)
  BY DEF IInv, ConnOK
<1>3. CASE /\ ws' = [ws EXCEPT ![c] = "closing"] \/ (ws[c] = "up" /\ ws' = [ws EXCEPT ![c] = "draining"])
           /\ resp' = [resp EXCEPT ![c] = Tail(@)]
           /\ UNCHANGED <<entry, known, cancelled, finished, tasks>>
  <2>1. /\ resp' \in [Conn -> Seq(Response)] /\ ToSet(resp'[c]) \subseteq ToSet(resp[c])
        /\ \A d \in Conn \ {c} : resp'[d] = resp[d]
    BY <1>1, <1>2, <1>3, RespTail
  <2>2. /\ ws' \in [Conn -> {"none", "up", "draining", "closing", "gone"}] /\ ws'[c] # "none"
        /\ \A d \in Conn \ {c} : ws'[d] = ws[d]
    BY <1>2, <1>3 DEF FrontTypes
  <2>3. ws[c] # "none"
    BY <1>1, <1>2 DEF LifeOK
  <2> QED BY <1>1, <1>3, <2>1, <2>2, <2>3, SocketStep
<1>4. CASE /\ ws[c] = "up" /\ r.kind = "initial"
           /\ Confirm(c, r) /\ resp' = [resp EXCEPT ![c] = Tail(@)]
           /\ known' = known \cup {r.id}
           /\ UNCHANGED <<ws, cancelled, finished, tasks>>
  <2> HIDE DEF r
  <2>1. /\ resp' \in [Conn -> Seq(Response)] /\ ToSet(resp'[c]) \subseteq ToSet(resp[c])
        /\ \A d \in Conn \ {c} : resp'[d] = resp[d] /\ r \in ToSet(resp[c])
    BY <1>1, <1>2, <1>4, RespTail DEF r
  <2>2. r \in ToSet(resp[c])
    BY <1>1, <1>2, <1>4, RespTail DEF r
  <2> QED BY <1>1, <1>4, <2>1, <2>2, ConfirmStep
<1>5. CASE /\ ws[c] = "up" /\ r.kind = "initial" /\ ~entry[c].closing
           /\ Expire(c) /\ CloseConnection(c) /\ UNCHANGED known
  <2>1. r \in ToSet(resp[c])
    <3>1. resp[c] \in Seq(Response)
      BY <1>2 DEF FrontTypes
    <3> QED BY <1>1, <3>1, QueueElements
  <2>2. c \in entries
    BY <1>5, <2>1 DEF IInv, InitialOK
  <2>3. /\ ws' \in [Conn -> {"none", "up", "draining", "closing", "gone"}] /\ ws'[c] = "closing"
        /\ \A d \in Conn \ {c} : ws'[d] = ws[d]
    BY <1>2, <1>5 DEF FrontTypes, CloseConnection
  <2> QED BY <1>1, <1>5, <2>2, <2>3, ExpireStep
<1> QED BY <1>1, <1>3, <1>4, <1>5 DEF Write, CloseConnection

\* A connection whose request was answered has neither request nor answer left.
LEMMA Idle ==
  ASSUME FrontTypes, OneRequest, NEW c \in Conn, c \notin busy
  PROVE  /\ \A t \in ToSet(tasks) : t.kind = "handle" => t.conn # c
         /\ \A f \in ToSet(front) : f.conn # c
<1>1. ToSet(tasks) = {tasks[k] : k \in 1..Len(tasks)} /\ ToSet(front) = {front[k] : k \in 1..Len(front)}
  <2>1. tasks \in Seq(Task) /\ front \in Seq(Result)
    BY DEF FrontTypes
  <2> QED BY <2>1, QueueElements
<1> QED BY <1>1 DEF OneRequest, Handles, Results

\* A request of a connection that had none is added at a position of its own.
LEMMA OneMore ==
  ASSUME OneRequest, NEW c, c \notin busy, NEW n, n \notin Handles, Handles' = Handles \cup {n},
         Results' = Results, front' = front, busy' = busy \cup {c},
         \A k \in Handles : tasks'[k] = tasks[k], tasks'[n].conn = c
  PROVE  OneRequest'
BY DEF OneRequest

\* A request joins the ones under way.
LEMMA OneRequestReceive ==
  ASSUME FrontTypes, OneRequest, NEW c \in Conn, c \notin busy, NEW t \in Task, t.conn = c, t.kind = "handle",
         tasks' = Append(tasks, t), front' = front, busy' = busy \cup {c}
  PROVE  OneRequest'
<1> DEFINE n == Len(tasks) + 1
<1>1. /\ Len(tasks) \in Nat /\ Len(tasks') = n /\ tasks'[n] = t /\ n \in Nat /\ n > Len(tasks)
      /\ \A k \in 1..Len(tasks) : tasks'[k] = tasks[k]
  BY AppendProperties, LenProperties DEF FrontTypes
<1> HIDE DEF n
<1>2. 1..Len(tasks') = 1..Len(tasks) \cup {n} /\ Len(tasks') = n
  BY <1>1 DEF n
<1>3. Handles' = Handles \cup {n} /\ Handles \subseteq 1..Len(tasks) /\ Results' = Results
  BY <1>1, <1>2 DEF Handles, Results
<1>4. (\A k \in Handles : tasks'[k] = tasks[k]) /\ tasks'[n].conn = c
  BY <1>1, <1>3
<1>5. n \notin Handles
  BY <1>1, <1>3
<1> QED BY <1>3, <1>4, <1>5, OneMore

\* What Receive leaves in the entry.
LEMMA AdmittingFields ==
  ASSUME NEW e \in Entry, NEW r
  PROVE  LET a == Admitting(e, r)
         IN  /\ a \in Entry /\ a.bound /\ a.admitting /\ a.closing = e.closing /\ a.admitted = e.admitted
             /\ a.disconnected = e.disconnected /\ a.pending = e.pending /\ a.gen = e.gen
             /\ ~e.admitted => (a.resumed <=> r.type = "resume")
             /\ e.admitted => a.resumed = e.resumed
<1> DEFINE res == IF e.admitted THEN e.resumed ELSE r.type = "resume"
<1>1. res \in BOOLEAN /\ (e.admitted => res = e.resumed) /\ (~e.admitted => (res <=> r.type = "resume"))
  BY DEF Entry
<1>2. Admitting(e, r) = [e EXCEPT !.bound = TRUE, !.admitting = TRUE, !.resumed = res]
  BY DEF Admitting
<1> HIDE DEF res
<1> QED BY <1>1, <1>2 DEF Entry

\* The server receives a request.
LEMMA ReceiveStep ==
  ASSUME IInv, NEW c \in Conn, NEW r \in Requests, Receive(c, r)
  PROVE  IInv'
<1> DEFINE e == IF IsAdmission(r) THEN Admitting(entry[c], r) ELSE entry[c]
           t == [kind |-> "handle", conn |-> c, req |-> r]
<1>1. /\ c \in entries /\ ~entry[c].closing /\ c \notin cancelled /\ c \notin busy /\ c \notin finished
      /\ asked < MaxRequests /\ asked' = asked + 1
      /\ IsAdmission(r) \/ entry[c].bound
      /\ emissions' = IF IsAdmission(r) THEN emissions \cup {c} ELSE emissions
      /\ UNCHANGED <<ws, entries, stopped, known, front, roomVars>>
  BY DEF Receive, Alive
<1>2. /\ FrontTypes /\ OneRequest /\ RoomInv /\ entry[c] \in Entry /\ LifeOK(c) /\ HeardOK(c)
      /\ VerdictOK(c) /\ OrphanOK(c)
  BY DEF IInv, ConnOK, FrontTypes
<1>3. UNCHANGED <<identity, member, index, suspended, started>> /\ Ids' = Ids
  BY <1>1 DEF roomVars, Ids
<1>4. e \in Entry /\ entry' = [entry EXCEPT ![c] = e]
  <2>1. e \in Entry
    BY <1>2, AdmittingFields
  <2>2. entry' = IF IsAdmission(r) THEN [entry EXCEPT ![c] = Admitting(entry[c], r)] ELSE entry
    BY DEF Receive
  <2>3. entry = [entry EXCEPT ![c] = entry[c]]
    BY <1>2 DEF FrontTypes
  <2> QED BY <2>1, <2>2, <2>3
<1>5. /\ e.bound /\ e.closing = entry[c].closing /\ e.admitted = entry[c].admitted
      /\ e.disconnected = entry[c].disconnected /\ e.pending = entry[c].pending /\ e.gen = entry[c].gen
      /\ IsAdmission(r) => e.admitting /\ (~e.admitted => (e.resumed <=> r.type = "resume"))
      /\ entry[c].admitted => e.resumed = entry[c].resumed
  BY ZenonT(40), <1>1, <1>2, AdmittingFields
<1> HIDE DEF e
<1>6. /\ entry' \in [Conn -> Entry] /\ entry'[c] = e /\ \A d \in Conn \ {c} : entry'[d] = entry[d]
  BY <1>2, <1>4, EntryKept
<1>7. /\ \A u \in ToSet(tasks) : u.kind = "handle" => u.conn # c
      /\ \A f \in ToSet(front) : f.conn # c
  BY <1>1, <1>2, Idle
<1>8. r \in Request /\ (r.type = "resume" => r.id \in known)
  <2>1. Ids \subseteq Nat
    BY <1>2, IdsType DEF RoomInv
  <2> QED BY <1>2, <2>1 DEF Requests, Request, FrontTypes
<1>9. LifeOK(c)'
  <2>0. cancelled \subseteq cancelled' /\ finished' = finished
    BY DEF Receive, Cancel, sessionVars
  <2>1. ws[c] # "none" /\ ~stopped
    BY <1>1, <1>2 DEF LifeOK
  <2>2. c \in emissions'
    BY <1>1, <1>2 DEF LifeOK
  <2> QED BY <1>1, <1>2, <1>5, <1>6, <2>0, <2>1, <2>2 DEF LifeOK
<1>10. VerdictOK(c)'
  <2> SUFFICES ASSUME HasMember(c) PROVE MustRollBack(e) <=> member[c] \notin known
    BY <1>1, <1>3, <1>6 DEF VerdictOK, HasMember
  <2>1. entry[c].admitted
    BY <1>1, <1>2, <1>7 DEF HeardOK, Answered
  <2>2. MustRollBack(entry[c]) <=> member[c] \notin known
    BY <1>1, <1>2, <2>1 DEF VerdictOK, LifeOK
  <2> QED BY <1>5, <2>1, <2>2 DEF MustRollBack
<1>11. asked' \in 0..MaxRequests
  BY <1>1, <1>2, LimitAssumption DEF FrontTypes
<1>12. emissions' \subseteq Conn
  BY <1>1, <1>2 DEF FrontTypes
<1>13. CASE tasks' = Append(tasks, t) /\ busy' = busy \cup {c} /\ UNCHANGED sessionVars
  <2>1. UNCHANGED <<cancelled, finished, resp>>
    BY <1>13 DEF sessionVars
  <2>2. t \in Task /\ t.kind = "handle" /\ t.conn = c /\ t.req = r
    BY <1>8 DEF Task
  <2> HIDE DEF t
  <2>3. tasks' \in Seq(Task) /\ ToSet(tasks') = ToSet(tasks) \cup {t}
    <3>1. tasks \in Seq(Task)
      BY <1>2 DEF FrontTypes
    <3> QED BY <1>13, <2>2, <3>1, QueueElements, AppendProperties
  <2>4. OneRequest'
    BY <1>1, <1>2, <1>13, <2>2, OneRequestReceive
  <2>5. OthersKept(c)
    BY <1>1, <1>6, <2>1, <2>3 DEF OthersKept
  <2>6. FrontTypes'
    BY <1>1, <1>2, <1>3, <1>6, <1>11, <1>12, <1>13, <2>1, <2>3 DEF FrontTypes
  <2>7. TaskOK(t)'
    BY <1>1, <1>5, <1>6, <1>8, <2>2 DEF TaskOK
  <2>8. ASSUME NEW u \in ToSet(tasks), u.conn = c PROVE u.kind = "stop" \/ TaskOK(u)'
    <3>1. TaskOK(u) /\ u.kind # "handle"
      BY <1>7, <2>8 DEF IInv
    <3> QED BY <1>1, <2>8, <3>1 DEF TaskOK
  <2>9. ASSUME NEW q \in ToSet(resp'[c]) PROVE InitialOK(c, q)'
    <3>1. InitialOK(c, q)
      BY <2>1 DEF IInv
    <3> QED BY <1>1, <1>3, <1>5, <1>6, <2>1, <3>1 DEF InitialOK, HasMember
  <2>10. HeardOK(c)' /\ OrphanOK(c)'
    BY <1>1, <1>2, <1>3, <1>5, <1>6, <2>1 DEF HeardOK, OrphanOK, HasMember, Answered
  <2>11. ConnOK(c)'
    BY <1>9, <1>10, <2>10 DEF ConnOK
  <2> QED BY <1>1, <1>7, <2>2, <2>3, <2>4, <2>5, <2>6, <2>7, <2>8, <2>9, <2>11, FrontConclude
<1>14. CASE Cancel(c) /\ UNCHANGED <<tasks, busy>>
  <2>1. /\ cancelled' = cancelled \cup {c} /\ cancelled' \subseteq Conn /\ finished' = finished
        /\ resp' \in [Conn -> Seq(Response)] /\ ToSet(resp'[c]) = {}
        /\ \A d \in Conn \ {c} : resp'[d] = resp[d]
    BY <1>2, <1>14, CancelEffect
  <2>2. OthersKept(c)
    BY <1>1, <1>6, <1>14, <2>1 DEF OthersKept
  <2>3. FrontTypes'
    BY <1>1, <1>2, <1>3, <1>6, <1>11, <1>12, <1>14, <2>1 DEF FrontTypes
  <2>4. OneRequest'
    BY <1>1, <1>2, <1>14, OneRequestSame
  <2> QED BY <1>1, <1>5, <1>6, <1>9, <1>10, <1>14, <2>1, <2>2, <2>3, <2>4, CancelStep
<1> QED BY <1>13, <1>14 DEF Receive

\* What Finish leaves in the entry.
LEMMA ConcludedFields ==
  ASSUME NEW e \in Entry, NEW f \in Result
  PROVE  LET a == Concluded(e, f)
         IN  /\ a \in Entry /\ a.closing = e.closing /\ a.disconnected = e.disconnected
             /\ IsAdmission(f.req) /\ f.ok =>
                  /\ a.admitted /\ a.pending /\ a.bound = e.bound /\ a.gen = e.gen + 1
                  /\ a.resumed <=> f.req.type = "resume"
             /\ IsAdmission(f.req) /\ ~f.ok =>
                  /\ ~a.admitting /\ a.bound = e.admitted /\ a.admitted = e.admitted
                  /\ a.pending = e.pending /\ a.resumed = e.resumed /\ a.gen = e.gen
             /\ f.req.type = "leave" /\ f.ok => ~a.bound /\ ~a.admitted /\ a.gen = e.gen + 1
             /\ ~IsAdmission(f.req) /\ ~(f.req.type = "leave" /\ f.ok) => a = e
<1> DEFINE a == Concluded(e, f)
<1>1. CASE IsAdmission(f.req) /\ f.ok
  <2> DEFINE res == f.req.type = "resume"
  <2>1. res \in BOOLEAN /\ (res <=> f.req.type = "resume")
    OBVIOUS
  <2>2. a = [e EXCEPT !.admitting = FALSE, !.admitted = TRUE, !.pending = TRUE,
                      !.resumed = res, !.gen = e.gen + 1]
    BY <1>1 DEF Concluded
  <2>3. e.gen + 1 \in Nat
    BY DEF Entry
  <2>4. f.req.type # "leave"
    BY <1>1 DEF IsAdmission
  <2> HIDE DEF res, a
  <2>5. /\ a \in Entry /\ a.closing = e.closing /\ a.disconnected = e.disconnected
        /\ a.admitted /\ a.pending /\ a.bound = e.bound /\ a.gen = e.gen + 1 /\ a.resumed = res
    BY <2>1, <2>2, <2>3 DEF Entry
  <2> QED BY <1>1, <2>1, <2>4, <2>5 DEF a
<1>2. CASE IsAdmission(f.req) /\ ~f.ok
  <2>1. a = [e EXCEPT !.admitting = FALSE, !.bound = e.admitted]
    BY <1>2 DEF Concluded
  <2> HIDE DEF a
  <2> QED BY <1>2, <2>1 DEF Entry, a
<1>3. CASE ~IsAdmission(f.req) /\ f.req.type = "leave" /\ f.ok
  <2>1. a = [e EXCEPT !.timed = TRUE, !.gen = e.gen + 1, !.pending = FALSE,
                      !.admitted = FALSE, !.bound = FALSE]
    BY <1>3 DEF Concluded
  <2>2. e.gen + 1 \in Nat
    BY DEF Entry
  <2> HIDE DEF a
  <2> QED BY <1>3, <2>1, <2>2 DEF Entry, a
<1>4. CASE ~IsAdmission(f.req) /\ ~(f.req.type = "leave" /\ f.ok)
  BY <1>4 DEF Concluded
<1> QED BY <1>1, <1>2, <1>3, <1>4

\* An answer is taken off the queue together with its connection's turn.
LEMMA OneLess ==
  ASSUME OneRequest, NEW c, busy' = busy \ {c}, tasks' = tasks, Handles' = Handles,
         Results' \subseteq Nat,
         \A k \in Results' : k + 1 \in Results /\ front'[k] = front[k + 1],
         \A k \in Results' : front'[k].conn # c, \A k \in Handles : tasks[k].conn # c
  PROVE  OneRequest'
<1>1. ASSUME NEW k \in Results', NEW l \in Results', front'[k].conn = front'[l].conn PROVE k = l
  <2>1. k + 1 = l + 1
    BY <1>1 DEF OneRequest
  <2> QED BY <2>1
<1>2. /\ \A k \in Handles' : tasks'[k].conn \in busy'
      /\ \A k, l \in Handles' : tasks'[k].conn = tasks'[l].conn => k = l
  BY DEF OneRequest
<1>3. /\ \A k \in Results' : front'[k].conn \in busy'
      /\ \A k \in Handles', l \in Results' : tasks'[k].conn # front'[l].conn
  BY DEF OneRequest
<1> QED BY <1>1, <1>2, <1>3 DEF OneRequest

\* What Respond does.
LEMMA RespondEffect ==
  ASSUME FrontTypes, NEW c \in Conn, NEW r \in Response, Respond(c, r)
  PROVE  /\ UNCHANGED <<cancelled, finished>> /\ resp' \in [Conn -> Seq(Response)]
         /\ \A d \in Conn \ {c} : resp'[d] = resp[d]
         /\ \A q \in ToSet(resp'[c]) : q \in ToSet(resp[c]) \/ (q = r /\ c \notin finished)
<1> DEFINE s == resp[c]
<1>1. UNCHANGED <<cancelled, finished>>
      /\ resp' = [resp EXCEPT ![c] = IF c \in finished THEN s ELSE Append(s, r)]
  BY DEF Respond
<1>2. s \in Seq(Response) /\ resp \in [Conn -> Seq(Response)]
  BY DEF FrontTypes
<1> HIDE DEF s
<1>3. Append(s, r) \in Seq(Response) /\ ToSet(Append(s, r)) = ToSet(s) \cup {r}
  BY <1>2, QueueElements, AppendProperties
<1>4. resp' \in [Conn -> Seq(Response)] /\ \A d \in Conn \ {c} : resp'[d] = resp[d]
  BY <1>1, <1>2, <1>3
<1>5. resp'[c] = IF c \in finished THEN s ELSE Append(s, r)
  BY <1>1, <1>2
<1>6. \A q \in ToSet(resp'[c]) : q \in ToSet(s) \/ (q = r /\ c \notin finished)
  BY <1>3, <1>5
<1> QED BY <1>1, <1>4, <1>6 DEF s

\* Taking the first answer leaves no other of the same connection.
LEMMA FinishQueue ==
  ASSUME FrontTypes, OneRequest, front # <<>>, front' = Tail(front),
         NEW c \in Conn, c = Head(front).conn, busy' = busy \ {c}, tasks' = tasks
  PROVE  /\ front' \in Seq(Result) /\ Head(front) \in Result /\ Head(front) \in ToSet(front)
         /\ ToSet(front) = {Head(front)} \cup ToSet(front')
         /\ OneRequest'
         /\ \A g \in ToSet(front') : g.conn # c
         /\ \A t \in ToSet(tasks) : t.kind = "handle" => t.conn # c
<1>1. front \in Seq(Result) /\ tasks \in Seq(Task)
  BY DEF FrontTypes
<1>2. /\ front' \in Seq(Result) /\ Len(front') = Len(front) - 1 /\ Len(front) > 0 /\ Head(front) = front[1]
      /\ Len(front) \in Nat /\ \A k \in 1..Len(front') : front'[k] = front[k + 1]
  BY <1>1, HeadTailProperties, EmptySeq, LenProperties
<1>3. Head(front) \in ToSet(front) /\ ToSet(front) = {Head(front)} \cup ToSet(front') /\ Head(front) \in Result
  BY <1>1, QueueElements
<1>4. /\ Results' \subseteq Nat /\ 1 \in Results
      /\ \A k \in Results' : k + 1 \in Results /\ front'[k] = front[k + 1] /\ k + 1 # 1
  BY <1>2 DEF Results
<1>5. \A k \in Results' : front'[k].conn # c
  BY <1>2, <1>4 DEF OneRequest
<1>6. Handles' = Handles /\ Handles \subseteq Nat /\ Results \subseteq Nat
  BY <1>1, PositionsAreNumbers DEF Handles
<1>7. \A k \in Handles : tasks[k].conn # c
  BY <1>2, <1>4 DEF OneRequest
<1>8. OneRequest'
  BY <1>4, <1>5, <1>6, <1>7, OneLess
<1>9. ToSet(front') = {front'[k] : k \in 1..Len(front')} /\ ToSet(tasks) = {tasks[k] : k \in 1..Len(tasks)}
  <2>1. ToSet(tasks) = {tasks[k] : k \in 1..Len(tasks)}
    BY <1>1, QueueElements
  <2> DEFINE s == front'
  <2>2. s \in Seq(Result)
    BY <1>2
  <2> HIDE DEF s
  <2>3. ToSet(s) = {s[k] : k \in 1..Len(s)}
    BY <2>2, QueueElements
  <2> QED BY <2>1, <2>3 DEF s
<1>10. \A g \in ToSet(front') : g.conn # c
  BY <1>5, <1>9 DEF Results
<1>11. \A t \in ToSet(tasks) : t.kind = "handle" => t.conn # c
  BY <1>7, <1>9 DEF Handles
<1> QED BY <1>2, <1>3, <1>8, <1>10, <1>11

\* The front takes the answer f about connection c.
LEMMA FinishOf ==
  ASSUME IInv, Finish, NEW f, NEW c, f = Head(front), c = f.conn
  PROVE  IInv'
<1> DEFINE initial == [kind |-> "initial", id |-> f.id, gen |-> entry'[c].gen]
<1>1. /\ front # <<>> /\ front' = Tail(front) /\ busy' = busy \ {c}
      /\ UNCHANGED <<ws, entries, asked, stopped, known, tasks, roomVars>>
  BY DEF Finish
<1>2. FrontTypes /\ OneRequest /\ RoomInv
  BY DEF IInv
<1>3. f \in ToSet(front) /\ f \in Result
  <2>1. front \in Seq(Result)
    BY <1>2 DEF FrontTypes
  <2> QED BY <1>1, <2>1, QueueElements
<1>4. c \in Conn /\ f.ok \in BOOLEAN /\ f.id \in Nat \cup {None}
  BY <1>3 DEF Result
<1>5. /\ front' \in Seq(Result) /\ ToSet(front) = {f} \cup ToSet(front') /\ OneRequest'
      /\ \A g \in ToSet(front') : g.conn # c
      /\ \A t \in ToSet(tasks) : t.kind = "handle" => t.conn # c
  BY <1>1, <1>2, <1>4, FinishQueue
<1>6. ResultOK(f)
  BY <1>3 DEF IInv
<1>7. /\ LifeOK(c) /\ HeardOK(c) /\ VerdictOK(c) /\ OrphanOK(c) /\ entry[c] \in Entry
  BY <1>2, <1>4 DEF IInv, ConnOK, FrontTypes
<1>8. UNCHANGED <<identity, member, index, suspended, started>> /\ Ids' = Ids
  BY <1>1 DEF roomVars, Ids
<1>9. \/ /\ Alive(c) /\ ~stopped
         /\ entry' = [entry EXCEPT ![c] = Concluded(entry[c], f)]
         /\ emissions' = IF entry'[c].bound THEN emissions ELSE emissions \ {c}
         /\ IF IsAdmission(f.req) /\ f.ok THEN Respond(c, initial) ELSE UNCHANGED sessionVars
      \/ /\ ~Alive(c) \/ stopped
         /\ UNCHANGED <<entry, emissions, sessionVars>>
  BY DEF Finish
<1>10. \A types : Answered(c, types) <=> f.ok /\ f.req.type \in types
  BY <1>5 DEF Answered
<1>11. CASE (~Alive(c) \/ stopped) /\ UNCHANGED <<entry, emissions, sessionVars>>
  <2>1. UNCHANGED <<entry, emissions, cancelled, finished, resp>>
    BY <1>11 DEF sessionVars
  <2>2. OthersKept(c)
    BY <1>1, <1>5, <2>1 DEF OthersKept
  <2>3. FrontTypes'
    BY <1>1, <1>2, <1>5, <1>8, <2>1 DEF FrontTypes
  <2>4. ASSUME NEW t \in ToSet(tasks') PROVE TaskOK(t)'
    <3>1. TaskOK(t)
      BY <1>1 DEF IInv
    <3> QED BY <1>1, <1>8, <2>1, <3>1 DEF TaskOK, HasMember
  <2>5. \A q \in ToSet(resp'[c]) : InitialOK(c, q)'
    <3>1. \A q \in ToSet(resp[c]) : InitialOK(c, q)
      BY <1>4 DEF IInv
    <3> QED BY <1>1, <1>8, <2>1, <3>1 DEF InitialOK, HasMember
  <2>6. LifeOK(c)' /\ VerdictOK(c)' /\ OrphanOK(c)'
    BY <1>1, <1>7, <1>8, <2>1 DEF LifeOK, VerdictOK, OrphanOK, HasMember
  <2>7. HeardOK(c)'
    <3> SUFFICES ASSUME c \in entries \ cancelled PROVE HeardOK(c)'
      BY <1>1, <2>1 DEF HeardOK
    <3>1. entry[c].closing
      BY <1>7, <1>11 DEF LifeOK, Alive
    <3>2. c \in finished
      BY <1>7, <3>1 DEF LifeOK
    <3> QED BY <2>1, <3>1, <3>2 DEF HeardOK
  <2>8. ConnOK(c)'
    BY <2>6, <2>7 DEF ConnOK
  <2> QED BY <1>1, <1>4, <1>5, <2>2, <2>3, <2>4, <2>5, <2>8, FrontConclude
<1>12. CASE /\ Alive(c) /\ ~stopped
            /\ entry' = [entry EXCEPT ![c] = Concluded(entry[c], f)]
            /\ emissions' = IF entry'[c].bound THEN emissions ELSE emissions \ {c}
            /\ IF IsAdmission(f.req) /\ f.ok THEN Respond(c, initial) ELSE UNCHANGED sessionVars
  <2> DEFINE e == Concluded(entry[c], f)
  <2>1. c \in entries /\ ~entry[c].closing /\ c \notin cancelled /\ ws[c] # "none"
    BY <1>7, <1>12 DEF Alive, LifeOK
  <2>2. /\ e \in Entry /\ e.closing = entry[c].closing /\ e.disconnected = entry[c].disconnected
        /\ IsAdmission(f.req) /\ f.ok =>
             /\ e.admitted /\ e.pending /\ e.bound = entry[c].bound /\ e.gen = entry[c].gen + 1
             /\ e.resumed <=> f.req.type = "resume"
        /\ IsAdmission(f.req) /\ ~f.ok =>
             /\ ~e.admitting /\ e.bound = entry[c].admitted /\ e.admitted = entry[c].admitted
             /\ e.pending = entry[c].pending /\ e.resumed = entry[c].resumed /\ e.gen = entry[c].gen
        /\ f.req.type = "leave" /\ f.ok => ~e.bound /\ ~e.admitted /\ e.gen = entry[c].gen + 1
        /\ ~IsAdmission(f.req) /\ ~(f.req.type = "leave" /\ f.ok) => e = entry[c]
    BY <1>3, <1>7, ConcludedFields
  <2> HIDE DEF e
  <2>3. entry' = [entry EXCEPT ![c] = e]
    BY <1>12 DEF e
  <2>4. /\ entry' \in [Conn -> Entry] /\ entry'[c] = e /\ \A d \in Conn \ {c} : entry'[d] = entry[d]
    BY <1>2, <1>4, <2>2, <2>3, EntryKept
  <2>5. /\ emissions' \subseteq Conn /\ (e.bound => emissions' = emissions)
        /\ \A d \in Conn \ {c} : d \in emissions' <=> d \in emissions
    BY <1>2, <1>12, <2>4 DEF FrontTypes
  <2>6. /\ UNCHANGED <<cancelled, finished>> /\ resp' \in [Conn -> Seq(Response)]
        /\ \A d \in Conn \ {c} : resp'[d] = resp[d]
        /\ \A q \in ToSet(resp'[c]) :
              q \in ToSet(resp[c]) \/ (q = initial /\ IsAdmission(f.req) /\ f.ok /\ c \notin finished)
    <3>1. CASE ~(IsAdmission(f.req) /\ f.ok)
      BY <1>2, <1>12, <3>1 DEF FrontTypes, sessionVars
    <3>2. CASE IsAdmission(f.req) /\ f.ok
      <4>1. initial \in Response
        BY <1>4, <2>2, <2>4 DEF Response, Entry
      <4>2. Respond(c, initial)
        BY <1>12, <3>2
      <4> HIDE DEF initial
      <4> QED BY <1>2, <1>4, <3>2, <4>1, <4>2, RespondEffect
    <3> QED BY <3>1, <3>2
  <2>7. OthersKept(c)
    BY <1>1, <1>5, <2>4, <2>5, <2>6 DEF OthersKept
  <2>8. FrontTypes'
    <3>1. busy' \subseteq Conn
      BY <1>1, <1>2 DEF FrontTypes
    <3> QED BY <1>1, <1>2, <1>5, <1>8, <2>4, <2>5, <2>6, <3>1 DEF FrontTypes
  <2>9. ASSUME NEW t \in ToSet(tasks'), t.conn = c PROVE t.kind = "stop" \/ TaskOK(t)'
    <3>1. TaskOK(t) /\ t.kind # "handle"
      BY <1>1, <1>5, <2>9 DEF IInv
    <3> QED BY <2>1, <2>6, <2>9, <3>1 DEF TaskOK
  <2>10. LifeOK(c)'
    <3>1. e.admitted => e.bound
      BY <1>6, <1>7, <2>1, <2>2 DEF LifeOK, ResultOK
    <3>2. e.bound => entry[c].bound
      BY <1>7, <2>2 DEF LifeOK
    <3> QED BY <1>1, <1>7, <2>1, <2>2, <2>4, <2>5, <2>6, <3>1, <3>2 DEF LifeOK
  <2>11. ASSUME NEW q \in ToSet(resp'[c]) PROVE InitialOK(c, q)'
    <3>1. e.gen >= entry[c].gen /\ entry[c].gen \in Nat /\ e.gen \in Nat
          /\ (e.gen = entry[c].gen \/ e.gen = entry[c].gen + 1)
          /\ (e.gen = entry[c].gen => e.admitted = entry[c].admitted)
      BY <1>7, <2>2 DEF Entry
    <3>2. CASE q \in ToSet(resp[c])
      <4> SUFFICES ASSUME q.kind = "initial" PROVE InitialOK(c, q)'
        BY DEF InitialOK
      <4>1. InitialOK(c, q) /\ q.gen \in Nat
        <5>1. q \in Response
          <6>1. resp[c] \in Seq(Response)
            BY <1>2, <1>4 DEF FrontTypes
          <6> QED BY <3>2, <6>1, QueueElements
        <5> QED BY <1>4, <3>2, <5>1 DEF IInv, Response
      <4>2. CASE e.gen = entry[c].gen
        BY <1>1, <1>8, <2>1, <2>4, <2>6, <3>1, <4>1, <4>2 DEF InitialOK, HasMember
      <4>3. CASE e.gen = entry[c].gen + 1
        <5>1. q.gen # e.gen /\ q.gen <= e.gen
          BY <3>1, <4>1, <4>3 DEF InitialOK
        <5>2. c \notin finished => index[q.id] = None
          <6> SUFFICES ASSUME c \notin finished, index[q.id] = c PROVE FALSE
            BY <4>1 DEF InitialOK
          <6>1. q.gen = entry[c].gen
            BY <4>1, NoneAssumption, <1>4 DEF InitialOK
          <6>2. q.id \in Ids /\ member[c] = q.id /\ HasMember(c)
            BY <1>2, <1>4, <4>1, NoneAssumption, IdsType DEF InitialOK, RoomInv, TablesAgree, HasMember
          <6>3. f.ok /\ (IsAdmission(f.req) \/ f.req.type = "leave")
            BY <1>4, <2>2, <3>1, <4>3
          <6>4. entry[c].admitted
            BY <4>1, <6>1 DEF InitialOK
          <6> QED BY <1>6, <2>1, <6>2, <6>3, <6>4 DEF ResultOK
        <5> QED BY <1>1, <1>8, <2>1, <2>4, <2>6, <4>1, <5>1, <5>2 DEF InitialOK
      <4> QED BY <3>1, <4>2, <4>3
    <3>3. CASE q = initial /\ IsAdmission(f.req) /\ f.ok /\ c \notin finished
      <4>1. q.id = f.id /\ q.gen = e.gen /\ q.kind = "initial"
        BY <2>4, <3>3
      <4>2. /\ f.id \in Ids /\ index[f.id] \in {c, None} /\ member[c] = f.id
        BY <1>6, <2>1, <3>3 DEF ResultOK
      <4> QED BY <1>1, <1>8, <2>1, <2>2, <2>4, <2>6, <3>1, <3>3, <4>1, <4>2 DEF InitialOK, HasMember
    <3> QED BY <2>6, <2>11, <3>2, <3>3
  <2>12. HeardOK(c)'
    <3>1. None \notin Ids /\ (IsAdmission(f.req) <=> f.req.type \in {"join", "resume"})
      BY <1>2, IdsType DEF RoomInv, IsAdmission
    <3>2. HasMember(c) => e.admitted
      BY <1>4, <1>6, <1>7, <1>10, <2>1, <2>2, <3>1 DEF HeardOK, ResultOK
    <3>3. e.admitted /\ c \notin finished => HasMember(c)
      BY ZenonT(40), <1>4, <1>6, <1>7, <1>10, <2>1, <2>2, <3>1 DEF HeardOK, ResultOK, HasMember
    <3> QED BY <1>1, <1>8, <2>4, <2>6, <3>2, <3>3 DEF HeardOK, HasMember
  <2>13. OrphanOK(c)'
    BY <1>1, <1>4, <1>6, <1>7, <1>8, <1>10, <2>1, <2>2, <2>4, <2>6
    DEF HeardOK, OrphanOK, ResultOK, HasMember, IsAdmission
  <2>14. VerdictOK(c)'
    BY <1>1, <1>4, <1>6, <1>7, <1>8, <2>1, <2>2, <2>4, <2>6
    DEF VerdictOK, LifeOK, ResultOK, HasMember, MustRollBack, IsAdmission
  <2>15. ConnOK(c)'
    BY <2>10, <2>12, <2>13, <2>14 DEF ConnOK
  <2> QED BY <1>1, <1>4, <1>5, <2>7, <2>8, <2>9, <2>11, <2>15, FrontConclude
<1> QED BY <1>9, <1>11, <1>12

\* The front takes the room's next answer.
LEMMA FinishStep ==
  ASSUME IInv, Finish
  PROVE  IInv'
<1>1. PICK f, c : f = Head(front) /\ c = f.conn
  OBVIOUS
<1> QED BY <1>1, FinishOf

\* The cleanups that Stop queues are a sequence of tasks.
LEMMA CleanupsQueued ==
  ASSUME FrontTypes, NEW accepted \in SUBSET entries,
         NEW s \in SetToSeqs({Cleanup(c, entry[c]) : c \in accepted})
  PROVE  s \in Seq(Task) /\ ToSet(s) \subseteq {Cleanup(c, entry[c]) : c \in accepted}
<1> DEFINE S == {Cleanup(c, entry[c]) : c \in accepted}
           g == [c \in accepted |-> Cleanup(c, entry[c])]
<1>1. accepted \subseteq Conn /\ IsFiniteSet(accepted)
  BY FS_Subset DEF FrontTypes
<1>2. g \in Surjection(accepted, S)
  BY DEF Surjection
<1>3. S \subseteq Task
  BY <1>1, CleanupType
<1> HIDE DEF g, S
<1>4. IsFiniteSet(S)
  BY <1>1, <1>2, FS_Surjection
<1>5. Cardinality(S) \in Nat
  BY <1>4, FS_CardinalityType
<1>6. s \in [1..Cardinality(S) -> S]
  BY DEF SetToSeqs, S
<1>7. s \in Seq(S)
  BY <1>5, <1>6, FunctionIsSeq
<1>8. ToSet(s) \subseteq S
  BY <1>7, QueueElements
<1>9. s \in Seq(Task)
  BY <1>3, <1>5, <1>6, FunctionIsSeq
<1> QED BY <1>8, <1>9 DEF S

\* Elements of a concatenation.
LEMMA ConcatElements ==
  ASSUME NEW S, NEW s \in Seq(S), NEW q \in Seq(S)
  PROVE  /\ s \o q \in Seq(S) /\ Len(s \o q) = Len(s) + Len(q) /\ Len(s) \in Nat /\ Len(q) \in Nat
         /\ \A k \in 1..Len(s) : (s \o q)[k] = s[k]
         /\ \A k \in (Len(s) + 1)..(Len(s) + Len(q)) : (s \o q)[k] = q[k - Len(s)]
         /\ ToSet(s \o q) = ToSet(s) \cup ToSet(q)
<1> DEFINE a == s \o q
<1>1. /\ a \in Seq(S) /\ Len(a) = Len(s) + Len(q) /\ Len(s) \in Nat /\ Len(q) \in Nat
      /\ \A k \in 1..Len(s) : a[k] = s[k]
      /\ \A k \in (Len(s) + 1)..(Len(s) + Len(q)) : a[k] = q[k - Len(s)]
  BY ConcatProperties, LenProperties
<1> HIDE DEF a
<1>2. ToSet(a) = {a[k] : k \in 1..Len(a)}
  BY <1>1, QueueElements
<1>3. ToSet(s) = {s[k] : k \in 1..Len(s)} /\ ToSet(q) = {q[k] : k \in 1..Len(q)}
  BY QueueElements
<1>4. ToSet(s) \subseteq ToSet(a)
  BY SMTT(30), <1>1, <1>2, <1>3
<1>5. ToSet(q) \subseteq ToSet(a)
  <2> SUFFICES ASSUME NEW k \in 1..Len(q) PROVE q[k] \in ToSet(a)
    BY <1>3
  <2>1. Len(s) + k \in (Len(s) + 1)..(Len(s) + Len(q)) /\ (Len(s) + k) - Len(s) = k
        /\ Len(s) + k \in 1..Len(a)
    BY <1>1
  <2>2. a[Len(s) + k] = q[k]
    BY <1>1, <2>1
  <2> QED BY <1>2, <2>1, <2>2
<1>6. ToSet(a) \subseteq ToSet(s) \cup ToSet(q)
  <2> SUFFICES ASSUME NEW k \in 1..Len(a) PROVE a[k] \in ToSet(s) \cup ToSet(q)
    BY <1>2
  <2>1. CASE k \in 1..Len(s)
    BY <1>1, <1>3, <2>1
  <2>2. CASE k \notin 1..Len(s)
    <3>1. k \in (Len(s) + 1)..(Len(s) + Len(q)) /\ k - Len(s) \in 1..Len(q)
      BY <1>1, <2>2
    <3> QED BY <1>1, <1>3, <3>1
  <2> QED BY <2>1, <2>2
<1> QED BY <1>1, <1>4, <1>5, <1>6 DEF a

\* Tasks that are not requests join the queue.
LEMMA TasksJoin ==
  ASSUME FrontTypes, OneRequest, NEW s \in Seq(Task), \A t \in ToSet(s) : t.kind # "handle",
         NEW q, q = tasks \o s, tasks' = q, UNCHANGED <<front, busy>>
  PROVE  q \in Seq(Task) /\ ToSet(q) = ToSet(tasks) \cup ToSet(s) /\ OneRequest'
<1>1. tasks \in Seq(Task)
  BY DEF FrontTypes
<1>2. /\ q \in Seq(Task) /\ ToSet(q) = ToSet(tasks) \cup ToSet(s)
      /\ Len(q) = Len(tasks) + Len(s) /\ Len(tasks) \in Nat /\ Len(s) \in Nat
      /\ \A k \in 1..Len(tasks) : q[k] = tasks[k]
      /\ \A k \in (Len(tasks) + 1)..(Len(tasks) + Len(s)) : q[k] = s[k - Len(tasks)]
  BY <1>1, ConcatElements
<1>3. \A k \in 1..Len(s) : s[k].kind # "handle"
  BY QueueElements
<1>4. \A k \in 1..Len(q) : k \notin 1..Len(tasks) => q[k].kind # "handle"
  <2> SUFFICES ASSUME NEW k \in 1..Len(q), k \notin 1..Len(tasks) PROVE q[k].kind # "handle"
    OBVIOUS
  <2>1. k \in (Len(tasks) + 1)..(Len(tasks) + Len(s)) /\ k - Len(tasks) \in 1..Len(s)
    BY <1>2
  <2> QED BY <1>2, <1>3, <2>1
<1>5. Handles' = {k \in 1..Len(q) : q[k].kind = "handle"} /\ Results' = Results /\ tasks' = q
  BY DEF Handles, Results
<1>6. Handles' = Handles
  BY <1>2, <1>4, <1>5 DEF Handles
<1>7. \A k \in Handles : tasks'[k] = tasks[k]
  BY <1>2, <1>5 DEF Handles
<1> QED BY <1>2, <1>5, <1>6, <1>7, RequestsKept

\* The service stops: every session is cancelled, every entry forgotten.
LEMMA StopStep ==
  ASSUME IInv, Stop
  PROVE  IInv'
<1>1. /\ ~stopped /\ stopped' = TRUE
      /\ ws' = [c \in Conn |-> IF ws[c] = "none" THEN "none" ELSE "gone"]
      /\ cancelled' = {c \in Conn : ws[c] # "none"}
      /\ resp' = [c \in Conn |-> <<>>]
      /\ entries' = {} /\ entry' = [c \in Conn |-> FreshEntry] /\ emissions' = {}
      /\ UNCHANGED <<asked, known, finished, busy, front, roomVars>>
  BY DEF Stop
<1>2. FrontTypes /\ OneRequest /\ RoomInv
  BY DEF IInv
<1>3. UNCHANGED <<identity, member, index, suspended, media, participants, mediaCount, started>> /\ Ids' = Ids
  BY <1>1 DEF roomVars, Ids
<1>4. PICK accepted \in SUBSET {c \in entries : entry[c].bound} :
        \E s \in SetToSeqs({Cleanup(c, entry[c]) : c \in accepted}) :
          tasks' = tasks \o s \o <<[kind |-> "stop"]>>
  BY DEF Stop
<1>5. PICK s \in SetToSeqs({Cleanup(c, entry[c]) : c \in accepted}) :
        tasks' = tasks \o s \o <<[kind |-> "stop"]>>
  BY <1>4
<1>6. s \in Seq(Task) /\ ToSet(s) \subseteq {Cleanup(c, entry[c]) : c \in accepted}
  BY <1>2, CleanupsQueued
<1> DEFINE stop == [kind |-> "stop"]
           p == s \o <<stop>>
<1>7. stop \in Task /\ stop.kind = "stop" /\ <<stop>> \in Seq(Task) /\ ToSet(<<stop>>) = {stop}
  <2>1. stop \in Task /\ stop.kind = "stop"
    BY DEF Task
  <2> HIDE DEF stop
  <2> QED BY <2>1 DEF ToSet
<1> HIDE DEF stop
<1>8. p \in Seq(Task) /\ ToSet(p) = ToSet(s) \cup {stop}
  <2> DEFINE last == <<stop>>
  <2>1. last \in Seq(Task) /\ ToSet(last) = {stop}
    BY <1>7
  <2> HIDE DEF last
  <2>2. s \o last \in Seq(Task) /\ ToSet(s \o last) = ToSet(s) \cup ToSet(last)
    BY <1>6, <2>1, ConcatElements
  <2> QED BY <2>1, <2>2 DEF last
<1>9. tasks' = tasks \o p
  <2>1. tasks \in Seq(Task)
    BY <1>2 DEF FrontTypes
  <2> QED BY <1>5, <1>6, <1>7, <2>1, ConcatAssociative DEF stop
<1> HIDE DEF p
<1>10. \A t \in ToSet(s) : \E c \in entries : entry[c].bound /\ t = Cleanup(c, entry[c])
  BY <1>6
<1>11. \A t \in ToSet(p) : t.kind # "handle"
  <2>1. \A t \in ToSet(s) : t.kind \in {"reject", "closed"}
    <3> SUFFICES ASSUME NEW t \in ToSet(s) PROVE t.kind \in {"reject", "closed"}
      OBVIOUS
    <3>1. PICK c \in entries : t = Cleanup(c, entry[c])
      BY <1>10
    <3>2. c \in Conn
      BY <1>2 DEF FrontTypes
    <3> QED BY <3>1, <3>2, CleanupType
  <2> QED BY <1>7, <1>8, <2>1
<1>12. tasks' \in Seq(Task) /\ ToSet(tasks') = ToSet(tasks) \cup ToSet(p) /\ OneRequest'
  <2>1. PICK q : q = tasks \o p
    OBVIOUS
  <2> QED BY <1>1, <1>2, <1>8, <1>9, <1>11, <2>1, TasksJoin
<1>13. /\ cancelled \subseteq cancelled' /\ entries \subseteq cancelled' /\ cancelled' \subseteq Conn
  BY <1>1, <1>2 DEF IInv, ConnOK, LifeOK, FrontTypes
<1>14. FrontTypes'
  <2>1. resp' \in [Conn -> Seq(Response)]
    BY <1>1, EmptySeq
  <2>2. IsFiniteSet(entries') /\ entries' \subseteq Conn /\ emissions' \subseteq Conn
    BY <1>1, FS_EmptySet
  <2>3. ws' \in [Conn -> {"none", "up", "draining", "closing", "gone"}] /\ entry' \in [Conn -> Entry]
    BY <1>1, <1>2, FreshEntryType DEF FrontTypes
  <2> QED BY <1>1, <1>2, <1>3, <1>12, <1>13, <2>1, <2>2, <2>3 DEF FrontTypes
<1>15. RoomInv'
  BY <1>2, <1>3 DEF RoomInv, RoomTypes, TablesAgree, Counted, Members, HasMember
<1>16. ASSUME NEW t \in ToSet(tasks') PROVE TaskOK(t)'
  <2>1. CASE t \in ToSet(tasks)
    <3>1. TaskOK(t) /\ t \in Task
      BY <1>2, <2>1, QueueElements DEF IInv, FrontTypes
    <3> QED BY <1>1, <1>3, <1>13, <3>1 DEF TaskOK, HasMember
  <2>2. CASE t = stop
    BY <1>1, <1>7, <2>2 DEF TaskOK
  <2>3. CASE t \in ToSet(s)
    <3>1. PICK c \in entries : entry[c].bound /\ t = Cleanup(c, entry[c])
      BY <1>10, <2>3
    <3>2. /\ t.kind \in {"reject", "closed"} /\ t.conn = c /\ c \in Conn
          /\ (t.kind = "reject" <=> MustRollBack(entry[c]))
      BY <1>2, <3>1, CleanupType DEF FrontTypes
    <3>3. VerdictOK(c)
      BY <3>2 DEF IInv, ConnOK
    <3> QED BY <1>1, <1>3, <1>13, <3>1, <3>2, <3>3 DEF TaskOK, VerdictOK, HasMember
  <2> QED BY <1>8, <1>12, <1>16, <2>1, <2>2, <2>3
<1>17. ASSUME NEW f \in ToSet(front') PROVE ResultOK(f)'
  <2>1. ResultOK(f)
    BY <1>1 DEF IInv
  <2> QED BY <1>3, <1>13, <2>1 DEF ResultOK, HasMember
<1>18. \A c \in Conn : \A r \in ToSet(resp'[c]) : InitialOK(c, r)'
  BY <1>1 DEF ToSet
<1>19. ASSUME NEW c \in Conn PROVE ConnOK(c)'
  <2>1. entry'[c] = FreshEntry /\ ~FreshEntry.bound /\ ~FreshEntry.admitted
        /\ ~FreshEntry.closing /\ ~FreshEntry.disconnected /\ c \notin entries' /\ c \notin emissions'
        /\ resp'[c] = <<>>
    BY <1>1 DEF FreshEntry
  <2>2. ws'[c] = "none" <=> c \notin cancelled'
    BY <1>1
  <2>3. LifeOK(c)'
    BY <2>1, <2>2 DEF LifeOK
  <2>4. HeardOK(c)' /\ VerdictOK(c)'
    BY <2>1 DEF HeardOK, VerdictOK
  <2>5. OrphanOK(c)'
    BY <1>7, <1>8, <1>12 DEF OrphanOK, Ends
  <2> QED BY <2>3, <2>4, <2>5 DEF ConnOK
<1>20. \A i \in suspended' : SuspendedOK(i)'
  BY <1>1, <1>3, <1>13 DEF IInv, SuspendedOK
<1> QED BY <1>12, <1>14, <1>15, <1>16, <1>17, <1>18, <1>19, <1>20 DEF IInv

-----------------------------------------------------------------------------
(***************************************************************************)
(* Steps of the room.                                                      *)
(***************************************************************************)

\* A step of the room, as far as connections outside D go: none of them gains a
\* member, and one that the front still counts on keeps its member unless the
\* session is cancelled or finished with it.  A participant moves only if it was
\* suspended.
RoomMoves(D) ==
  /\ UNCHANGED frontVars /\ Ids \subseteq Ids'
  /\ cancelled \subseteq cancelled' /\ finished \subseteq finished'
  /\ \A c \in Conn : ws[c] = "none" => resp'[c] = <<>> /\ c \notin cancelled'
  /\ \A c \in Conn : c \notin cancelled' =>
       \A r \in ToSet(resp'[c]) : r \in ToSet(resp[c]) \/ r.kind = "final"
  /\ \A c \in cancelled' : \A r \in ToSet(resp'[c]) : r.kind # "initial"
  /\ ToSet(tasks') \subseteq ToSet(tasks) /\ ToSet(front) \subseteq ToSet(front')
  /\ \A i \in Ids : index'[i] \in {index[i], None} \/ i \in suspended
  /\ \A c \in Conn \ D :
       /\ HasMember(c)' => member'[c] = member[c]
       /\ HasMember(c) /\ c \in entries /\ entry[c].bound =>
            member'[c] = member[c] \/ c \in cancelled' \cup finished'
       /\ HasMember(c)' /\ member'[c] \in suspended => member'[c] \in suspended'
       /\ HasMember(c)' /\ (\E t \in ToSet(tasks) \ ToSet(tasks') : Ends(t, c)) =>
            member'[c] \in suspended'

\* Such a step keeps the protocol, if it does so for the connections in D.
LEMMA RoomConclude ==
  ASSUME IInv, NEW D \in SUBSET Conn, RoomMoves(D), FrontTypes', RoomInv', OneRequest',
         \A i \in suspended' : SuspendedOK(i)',
         \A f \in ToSet(front') \ ToSet(front) : ResultOK(f)',
         \A c \in D : /\ c \notin cancelled
                      /\ \A f \in ToSet(front) : f.conn # c
                      /\ \A r \in ToSet(resp'[c]) : InitialOK(c, r)'
                      /\ ConnOK(c)'
  PROVE  IInv'
<1>1. /\ UNCHANGED <<ws, entries, entry, emissions, asked, stopped, known>>
      /\ Ids \subseteq Ids' /\ cancelled \subseteq cancelled' /\ finished \subseteq finished'
  BY DEF RoomMoves, frontVars
<1>2. \A c \in Conn \ D : HasMember(c)' => member'[c] = member[c] /\ HasMember(c)
  BY DEF RoomMoves, HasMember
<1>3. ASSUME NEW t \in ToSet(tasks') PROVE TaskOK(t)'
  <2>1. t \in ToSet(tasks) /\ TaskOK(t)
    BY DEF RoomMoves, IInv
  <2>2. t \in Task
    BY <2>1, QueueElements DEF IInv, FrontTypes
  <2>3. CASE t.kind \in {"reject", "closed"}
    <3>1. t.conn \in Conn \ D
      BY <2>1, <2>2, <2>3, TaskFields DEF TaskOK
    <3> QED BY <1>1, <1>2, <2>1, <2>3, <3>1 DEF TaskOK
  <2>4. CASE t.kind \notin {"reject", "closed"}
    BY <1>1, <2>1, <2>4 DEF TaskOK
  <2> QED BY <2>3, <2>4
<1>4. \A i \in Ids : index[i] = None => index'[i] = None
  BY DEF RoomMoves, IInv, RoomInv, TablesAgree
<1>5. ASSUME NEW i \in Ids, NEW c \in Conn, index[i] \in {c, None}, c \notin cancelled
      PROVE  index'[i] \in {c, None}
  <2>1. CASE i \in suspended
    BY <1>4, <1>5, <2>1 DEF IInv, SuspendedOK
  <2>2. CASE i \notin suspended
    BY <1>5, <2>2 DEF RoomMoves
  <2> QED BY <2>1, <2>2
<1>6. ASSUME NEW f \in ToSet(front') PROVE ResultOK(f)'
  <2>1. CASE f \in ToSet(front)
    <3>1. f \in Result /\ ResultOK(f)
      BY <2>1, QueueElements DEF IInv, FrontTypes
    <3>2. f.conn \in Conn \ D
      BY <2>1, <3>1 DEF Result
    <3>3. f.ok /\ f.req.type = "leave" => ~HasMember(f.conn)'
      BY <1>2, <3>1, <3>2 DEF ResultOK
    <3>4. ASSUME f.ok, IsAdmission(f.req)
          PROVE  /\ f.id \in Ids'
                 /\ f.conn \notin cancelled' =>
                      /\ f.conn \in entries' /\ entry'[f.conn].bound /\ entry'[f.conn].admitting
                      /\ index'[f.id] \in {f.conn, None}
      BY <1>1, <1>5, <3>1, <3>2, <3>4 DEF ResultOK
    <3>5. ASSUME f.ok, IsAdmission(f.req), f.conn \notin cancelled' \cup finished'
          PROVE  /\ member'[f.conn] = f.id /\ ~entry'[f.conn].admitted
                 /\ entry'[f.conn].resumed <=> f.req.type = "resume"
      <4>1. /\ member[f.conn] = f.id /\ f.id \in Ids /\ f.conn \in entries /\ entry[f.conn].bound
            /\ ~entry[f.conn].admitted /\ (entry[f.conn].resumed <=> f.req.type = "resume")
        BY <1>1, <3>1, <3>5 DEF ResultOK
      <4>2. HasMember(f.conn)
        BY <4>1, IdsType DEF HasMember, IInv, RoomInv
      <4>3. member'[f.conn] = member[f.conn]
        BY <3>2, <3>5, <4>1, <4>2 DEF RoomMoves
      <4> QED BY <1>1, <4>1, <4>3
    <3> QED BY <3>3, <3>4, <3>5 DEF ResultOK
  <2> QED BY <1>6, <2>1
<1>7. ASSUME NEW c \in Conn \ D, NEW r \in ToSet(resp'[c]) PROVE InitialOK(c, r)'
  <2> SUFFICES ASSUME r.kind = "initial" PROVE InitialOK(c, r)'
    BY DEF InitialOK
  <2>1. c \notin cancelled' /\ r \in ToSet(resp[c])
    BY DEF RoomMoves
  <2>2. InitialOK(c, r) /\ c \notin cancelled
    BY <1>1, <2>1 DEF IInv
  <2>3. index'[r.id] \in {c, None}
    BY <1>5, <2>2 DEF InitialOK
  <2> QED BY <1>1, <1>2, <1>4, <2>1, <2>2, <2>3 DEF InitialOK
<1>8. ASSUME NEW c \in Conn \ D PROVE ConnOK(c)'
  <2>1. LifeOK(c) /\ HeardOK(c) /\ VerdictOK(c) /\ OrphanOK(c)
    BY DEF IInv, ConnOK
  <2>2. LifeOK(c)'
    BY <1>1, <2>1 DEF LifeOK, RoomMoves
  <2>3. HeardOK(c)'
    <3>1. \A types : Answered(c, types) => Answered(c, types)'
      BY DEF Answered, RoomMoves
    <3>2. c \notin cancelled' \cup finished' /\ c \in entries /\ entry[c].admitted /\ HasMember(c)
             => HasMember(c)'
      BY <2>1 DEF RoomMoves, LifeOK, HasMember
    <3> QED BY <1>1, <1>2, <2>1, <3>1, <3>2 DEF HeardOK
  <2>4. VerdictOK(c)'
    BY <1>1, <1>2, <2>1 DEF VerdictOK
  <2>5. OrphanOK(c)'
    <3> SUFFICES ASSUME HasMember(c)', member'[c] \notin suspended', ~(c \in entries /\ entry[c].bound)
                 PROVE  \E t \in ToSet(tasks') : Ends(t, c)
      BY <1>1 DEF OrphanOK
    <3>1. HasMember(c) /\ member[c] \notin suspended
      BY <1>2 DEF RoomMoves
    <3>2. PICK t \in ToSet(tasks) : Ends(t, c)
      BY <2>1, <3>1 DEF OrphanOK
    <3>3. t \in ToSet(tasks')
      BY <3>2 DEF RoomMoves
    <3> QED BY <3>2, <3>3
  <2> QED BY <2>2, <2>3, <2>4, <2>5 DEF ConnOK
<1>9. \A c \in Conn : ConnOK(c)' /\ \A r \in ToSet(resp'[c]) : InitialOK(c, r)'
  BY <1>7, <1>8
<1> QED BY <1>3, <1>6, <1>9 DEF IInv

\* The first task is taken off the queue.
LEMMA TaskTaken ==
  ASSUME IInv, tasks # <<>>, NEW t, t = Head(tasks), tasks' = Tail(tasks)
  PROVE  /\ t \in Task /\ t \in ToSet(tasks) /\ TaskOK(t)
         /\ tasks' \in Seq(Task) /\ ToSet(tasks) = {t} \cup ToSet(tasks')
         /\ Len(tasks) \in Nat /\ Len(tasks') = Len(tasks) - 1 /\ Len(tasks) > 0 /\ t = tasks[1]
         /\ \A k \in 1..Len(tasks') : tasks'[k] = tasks[k + 1]
         /\ \A k \in Handles' : k + 1 \in Handles /\ tasks'[k] = tasks[k + 1] /\ k \in Nat
         /\ t.kind = "handle" => 1 \in Handles
<1>1. tasks \in Seq(Task)
  BY DEF IInv, FrontTypes
<1>2. /\ tasks' \in Seq(Task) /\ Len(tasks') = Len(tasks) - 1 /\ Len(tasks) > 0 /\ t = tasks[1]
      /\ Len(tasks) \in Nat /\ \A k \in 1..Len(tasks') : tasks'[k] = tasks[k + 1]
  BY <1>1, HeadTailProperties, EmptySeq, LenProperties
<1>3. t \in ToSet(tasks) /\ ToSet(tasks) = {t} \cup ToSet(tasks') /\ t \in Task
  BY <1>1, QueueElements
<1>4. TaskOK(t)
  BY <1>3 DEF IInv
<1>5. \A k \in Handles' : k + 1 \in Handles /\ tasks'[k] = tasks[k + 1] /\ k \in Nat
  BY <1>2 DEF Handles
<1>6. t.kind = "handle" => 1 \in Handles
  BY <1>2 DEF Handles
<1> QED BY <1>2, <1>3, <1>4, <1>5, <1>6

\* The requests under way when a task that is not a request is done.
LEMMA OneRequestTaken ==
  ASSUME OneRequest, front' = front, busy' = busy,
         \A k \in Handles' : k + 1 \in Handles /\ tasks'[k] = tasks[k + 1] /\ k \in Nat
  PROVE  OneRequest'
<1>1. Results' = Results
  BY DEF Results
<1>2. ASSUME NEW k \in Handles', NEW l \in Handles', tasks'[k].conn = tasks'[l].conn PROVE k = l
  <2>1. k + 1 = l + 1
    BY <1>2 DEF OneRequest
  <2> QED BY <2>1
<1>3. /\ \A k \in Handles' : tasks'[k].conn \in busy'
      /\ \A k \in Handles', l \in Results' : tasks'[k].conn # front'[l].conn
  BY <1>1 DEF OneRequest
<1>4. /\ \A k \in Results' : front'[k].conn \in busy'
      /\ \A k, l \in Results' : front'[k].conn = front'[l].conn => k = l
  BY <1>1 DEF OneRequest
<1> QED BY <1>2, <1>3, <1>4 DEF OneRequest

\* The sessions as they are fit a step of the room.
LEMMA SessionsKept ==
  ASSUME IInv, UNCHANGED <<cancelled, finished, resp>>
  PROVE  /\ \A c \in Conn : ws[c] = "none" => resp'[c] = <<>> /\ c \notin cancelled'
         /\ \A c \in Conn : c \notin cancelled' =>
              \A r \in ToSet(resp'[c]) : r \in ToSet(resp[c]) \/ r.kind = "final"
         /\ \A c \in cancelled' : \A r \in ToSet(resp'[c]) : r.kind # "initial"
<1>1. \A c \in Conn : LifeOK(c) /\ \A r \in ToSet(resp[c]) : InitialOK(c, r)
  BY DEF IInv, ConnOK
<1>2. cancelled \subseteq Conn
  BY DEF IInv, FrontTypes
<1> QED BY <1>1, <1>2 DEF LifeOK, InitialOK

\* What losing one membership does to the tables.
LEMMA UnlinkMoves ==
  ASSUME IInv, NEW c \in Conn, Unlinked(c)
  PROVE  /\ \A i \in Ids : index'[i] \in {index[i], None}
         /\ \A d \in Conn : HasMember(d)' => member'[d] = member[d] /\ d # c
         /\ \A d \in Conn \ {c} : member'[d] = member[d]
         /\ \A d \in Conn : HasMember(d)' /\ member'[d] \in suspended => member'[d] \in suspended'
         /\ \A i \in suspended' : i \in suspended /\ index'[i] = index[i]
<1>1. \A d \in Conn : member'[d] = IF d = c THEN None ELSE member[d]
  BY DEF Unlinked, IInv, RoomInv, RoomTypes
<1>2. \A d \in Conn : HasMember(d)' => member'[d] = member[d] /\ d # c
  BY <1>1 DEF HasMember
<1>3. ASSUME NEW d \in Conn, HasMember(d)', member'[d] \in suspended PROVE member'[d] \in suspended'
  <2>1. member'[d] = member[d] /\ d # c /\ HasMember(d) /\ member[d] \in Ids
    BY <1>2, <1>3 DEF HasMember, IInv, RoomInv, RoomTypes
  <2>2. index[member[d]] = d
    BY <2>1 DEF IInv, RoomInv, TablesAgree
  <2> QED BY <1>3, <2>1, <2>2 DEF Unlinked
<1>4. \A i \in suspended' : i \in suspended /\ i \in Ids
  BY DEF Unlinked, IInv, RoomInv, RoomTypes
<1>5. \A i \in suspended' : index'[i] = index[i]
  BY <1>4 DEF Unlinked
<1>6. \A i \in Ids : index'[i] \in {index[i], None}
  BY DEF Unlinked
<1> QED BY <1>1, <1>2, <1>3, <1>4, <1>5, <1>6

\* RemoveSession on a connection the front does not count on any more.
LEMMA RemoveStep ==
  ASSUME IInv, NEW c \in Conn, RemoveSession(c), UNCHANGED <<frontVars, busy, front>>,
         finished \subseteq finished', cancelled' = cancelled, finished' \subseteq Conn,
         resp' \in [Conn -> Seq(Response)],
         \A d \in Conn : ws[d] = "none" => resp'[d] = <<>>,
         \A d \in Conn : \A r \in ToSet(resp'[d]) : r \in ToSet(resp[d]) \/ r.kind = "final",
         HasMember(c) /\ c \in entries /\ entry[c].bound => c \in cancelled' \cup finished',
         tasks' \in Seq(Task), OneRequest', ToSet(tasks') \subseteq ToSet(tasks),
         \A t \in ToSet(tasks) \ ToSet(tasks') : t.kind # "stop" /\ t.conn = c
  PROVE  IInv'
<1>1. RoomInv' /\ Unlinked(c) /\ UNCHANGED <<identity, started>> /\ Ids' = Ids
  BY RemoveKeeps DEF IInv, Ids
<1>2. /\ \A i \in Ids : index'[i] \in {index[i], None}
      /\ \A d \in Conn : HasMember(d)' => member'[d] = member[d] /\ d # c
      /\ \A d \in Conn \ {c} : member'[d] = member[d]
      /\ \A d \in Conn : HasMember(d)' /\ member'[d] \in suspended => member'[d] \in suspended'
      /\ \A i \in suspended' : i \in suspended /\ index'[i] = index[i]
  BY <1>1, UnlinkMoves
<1>3. UNCHANGED <<ws, entries, entry, emissions, asked, stopped, known>>
  BY DEF frontVars
<1>4. FrontTypes'
  BY <1>1, <1>3 DEF IInv, FrontTypes
<1>5. \A i \in suspended' : SuspendedOK(i)'
  BY <1>2, <1>3 DEF IInv, SuspendedOK
<1>6. \A d \in Conn : LifeOK(d) /\ \A r \in ToSet(resp[d]) : InitialOK(d, r)
  BY DEF IInv, ConnOK
<1>7. \A d \in Conn : ws[d] = "none" => resp'[d] = <<>> /\ d \notin cancelled'
  BY <1>6 DEF LifeOK
<1>8. \A d \in cancelled' : \A r \in ToSet(resp'[d]) : r.kind # "initial"
  BY <1>6 DEF InitialOK, IInv, FrontTypes
<1>9. \A d \in Conn : HasMember(d)' => ~\E t \in ToSet(tasks) \ ToSet(tasks') : Ends(t, d)
  BY <1>2 DEF Ends
<1>10. ToSet(front) \subseteq ToSet(front') /\ ToSet(front') \ ToSet(front) = {}
  OBVIOUS
<1>11. RoomMoves({})
  BY <1>1, <1>2, <1>7, <1>8, <1>9, <1>10 DEF RoomMoves
<1> QED BY <1>1, <1>4, <1>5, <1>10, <1>11, RoomConclude

\* A cleanup that finds nothing to suspend, or is a rollback.
LEMMA RejectStep ==
  ASSUME IInv, tasks # <<>>, NEW t, t = Head(tasks), tasks' = Tail(tasks), t.kind \in {"reject", "closed"},
         RemoveSession(t.conn), UNCHANGED <<frontVars, busy, front, sessionVars>>
  PROVE  IInv'
<1>1. /\ t \in Task /\ TaskOK(t) /\ tasks' \in Seq(Task) /\ ToSet(tasks) = {t} \cup ToSet(tasks')
      /\ \A k \in Handles' : k + 1 \in Handles /\ tasks'[k] = tasks[k + 1] /\ k \in Nat
  BY TaskTaken
<1>2. t.conn \in Conn /\ t.conn \in cancelled /\ t.kind # "stop"
  BY <1>1, TaskFields DEF TaskOK
<1>3. OneRequest'
  BY <1>1, OneRequestTaken DEF IInv
<1>4. UNCHANGED <<cancelled, finished, resp>> /\ FrontTypes
  BY DEF sessionVars, IInv
<1>5. finished' \subseteq Conn /\ resp' \in [Conn -> Seq(Response)]
  BY <1>4 DEF FrontTypes
<1>6. /\ \A d \in Conn : ws[d] = "none" => resp'[d] = <<>>
      /\ \A d \in Conn : \A r \in ToSet(resp'[d]) : r \in ToSet(resp[d]) \/ r.kind = "final"
  BY <1>4, SessionsKept
<1> QED BY <1>1, <1>2, <1>3, <1>4, <1>5, <1>6, RemoveStep

\* The reconnect window of a suspended member is over.
LEMMA RoomExpireStep ==
  ASSUME IInv, NEW c \in Conn, RoomExpire(c)
  PROVE  IInv'
<1>1. /\ HasMember(c) /\ member[c] \in suspended /\ RemoveSession(c)
      /\ UNCHANGED <<frontVars, sessionVars, busy, tasks, front>>
  BY DEF RoomExpire
<1>2. UNCHANGED <<cancelled, finished, resp>> /\ FrontTypes
  BY <1>1 DEF sessionVars, IInv
<1>3. c \in cancelled
  BY <1>1 DEF IInv, SuspendedOK, RoomInv, TablesAgree
<1>4. finished' \subseteq Conn /\ resp' \in [Conn -> Seq(Response)] /\ tasks' \in Seq(Task)
  BY <1>1, <1>2 DEF FrontTypes
<1>5. /\ \A d \in Conn : ws[d] = "none" => resp'[d] = <<>>
      /\ \A d \in Conn : \A r \in ToSet(resp'[d]) : r \in ToSet(resp[d]) \/ r.kind = "final"
  BY <1>2, SessionsKept
<1>6. OneRequest'
  BY <1>1, OneRequestSame DEF IInv
<1> QED BY <1>1, <1>2, <1>3, <1>4, <1>5, <1>6, RemoveStep

\* The room removes a connected member.
LEMMA RoomRemoveStep ==
  ASSUME IInv, NEW c \in Conn, RoomRemove(c)
  PROVE  IInv'
<1>1. /\ HasMember(c) /\ RemoveSession(c) /\ UNCHANGED <<frontVars, busy, tasks, front>>
      /\ IF c \in emissions /\ c \notin cancelled THEN FinishSession(c) ELSE UNCHANGED sessionVars
  BY DEF RoomRemove
<1>2. FrontTypes /\ LifeOK(c) /\ tasks' \in Seq(Task)
  BY <1>1 DEF IInv, ConnOK, FrontTypes
<1>3. OneRequest'
  BY <1>1, OneRequestSame DEF IInv
<1>4. CASE c \in emissions /\ c \notin cancelled
  <2>1. /\ finished' = finished \cup {c} /\ finished' \subseteq Conn /\ cancelled' = cancelled
        /\ resp' \in [Conn -> Seq(Response)]
        /\ \A r \in ToSet(resp'[c]) : r \in ToSet(resp[c]) \/ r.kind = "final"
        /\ \A d \in Conn \ {c} : resp'[d] = resp[d]
    BY <1>1, <1>2, <1>4, FinishSessionEffect
  <2>2. \A d \in Conn : ws[d] = "none" => resp'[d] = <<>>
    BY <1>4, <2>1 DEF IInv, ConnOK, LifeOK
  <2> QED BY <1>1, <1>2, <1>3, <2>1, <2>2, RemoveStep
<1>5. CASE ~(c \in emissions /\ c \notin cancelled)
  <2>1. UNCHANGED <<cancelled, finished, resp>>
    BY <1>1, <1>5 DEF sessionVars
  <2>2. c \in entries /\ entry[c].bound => c \in cancelled
    BY <1>2, <1>5 DEF LifeOK
  <2>3. finished' \subseteq Conn /\ resp' \in [Conn -> Seq(Response)]
    BY <1>2, <2>1 DEF FrontTypes
  <2>4. /\ \A d \in Conn : ws[d] = "none" => resp'[d] = <<>>
        /\ \A d \in Conn : \A r \in ToSet(resp'[d]) : r \in ToSet(resp[d]) \/ r.kind = "final"
    BY <2>1, SessionsKept
  <2> QED BY <1>1, <1>2, <1>3, <2>1, <2>2, <2>3, <2>4, RemoveStep
<1> QED BY <1>4, <1>5

\* The member of a broken connection is suspended.
LEMMA SuspendStep ==
  ASSUME IInv, tasks # <<>>, NEW t, t = Head(tasks), tasks' = Tail(tasks), t.kind = "closed",
         OnSignalingClosed(t.conn), started, HasMember(t.conn),
         UNCHANGED <<frontVars, busy, front, sessionVars>>
  PROVE  IInv'
<1>1. /\ t \in Task /\ TaskOK(t) /\ tasks' \in Seq(Task) /\ ToSet(tasks) = {t} \cup ToSet(tasks')
      /\ \A k \in Handles' : k + 1 \in Handles /\ tasks'[k] = tasks[k + 1] /\ k \in Nat
  BY TaskTaken
<1>2. PICK c \in Conn : c = t.conn
  BY <1>1, TaskFields
<1>3. c \in cancelled /\ t.kind # "stop" /\ (c \in finished \/ member[c] \in known)
  BY <1>1, <1>2 DEF TaskOK
<1>4. /\ RoomInv' /\ UNCHANGED <<identity, started>> /\ Ids' = Ids
      /\ suspended' = suspended \cup {member[c]} /\ UNCHANGED <<member, index>>
  BY <1>2, ClosedKeeps DEF IInv, OnSignalingClosed, Ids
<1>5. UNCHANGED <<cancelled, finished, resp>> /\ FrontTypes
      /\ UNCHANGED <<ws, entries, entry, emissions, asked, stopped, known>>
  BY DEF sessionVars, IInv, frontVars
<1>6. OneRequest'
  BY <1>1, OneRequestTaken DEF IInv
<1>7. FrontTypes'
  BY <1>1, <1>4, <1>5 DEF FrontTypes
<1>8. \A i \in suspended' : SuspendedOK(i)'
  BY <1>2, <1>3, <1>4, <1>5 DEF IInv, SuspendedOK, RoomInv, TablesAgree
<1>9. \A d \in Conn : (\E u \in ToSet(tasks) \ ToSet(tasks') : Ends(u, d)) => d = c
  BY <1>1, <1>2, <1>3 DEF Ends
<1>10. RoomMoves({})
  BY <1>1, <1>4, <1>5, <1>9, SessionsKept DEF RoomMoves, HasMember
<1> QED BY <1>4, <1>6, <1>7, <1>8, <1>10, RoomConclude

\* RoomSignalHandler::Stop.
LEMMA StopTaskStep ==
  ASSUME IInv, tasks # <<>>, NEW t, t = Head(tasks), tasks' = Tail(tasks), t.kind = "stop",
         StopTask, UNCHANGED frontVars
  PROVE  IInv'
<1>1. /\ t \in Task /\ TaskOK(t) /\ tasks' \in Seq(Task) /\ ToSet(tasks) = {t} \cup ToSet(tasks')
      /\ \A k \in Handles' : k + 1 \in Handles /\ tasks'[k] = tasks[k + 1] /\ k \in Nat
  BY TaskTaken
<1>2. /\ RoomInv' /\ UNCHANGED identity /\ Members' = {} /\ suspended' = {} /\ ~started' /\ Ids' = Ids
      /\ \A i \in Ids : index'[i] = None
  BY StopKeeps DEF IInv, Ids
<1>3. UNCHANGED <<cancelled, finished, resp, busy, front>> /\ FrontTypes
      /\ UNCHANGED <<ws, entries, entry, emissions, asked, stopped, known>>
  BY DEF sessionVars, IInv, frontVars, StopTask
<1>4. OneRequest'
  BY <1>1, <1>3, OneRequestTaken DEF IInv
<1>5. stopped
  BY <1>1 DEF TaskOK
<1>6. FrontTypes'
  BY <1>1, <1>2, <1>3, <1>5 DEF FrontTypes
<1>7. \A d \in Conn : ~HasMember(d)' /\ d \notin entries
  <2>1. \A d \in Conn : LifeOK(d)
    BY DEF IInv, ConnOK
  <2> QED BY <1>2, <1>5, <2>1 DEF Members, LifeOK
<1>8. RoomMoves({})
  BY <1>1, <1>2, <1>3, <1>7, SessionsKept DEF RoomMoves
<1> QED BY <1>2, <1>3, <1>4, <1>6, <1>8, RoomConclude

\* The answer f of the room to the request of connection c.
Answer(c, f) ==
  \/ /\ front' = Append(front, f) /\ UNCHANGED <<busy, sessionVars>>
  \/ /\ Cancel(c) /\ busy' = busy \ {c} /\ UNCHANGED front

\* The answer takes the place of the request.
LEMMA AnswerAdded ==
  ASSUME OneRequest, NEW c \in busy, NEW n, n \notin Results, Results' = Results \cup {n}, busy' = busy,
         \A k \in Results : front'[k] = front[k], front'[n].conn = c,
         \A k \in Results : front[k].conn # c, \A k \in Handles' : tasks'[k].conn # c,
         \A k \in Handles' : tasks'[k].conn \in busy \ {c},
         \A k \in Handles', l \in Handles' : tasks'[k].conn = tasks'[l].conn => k = l,
         \A k \in Handles', l \in Results : tasks'[k].conn # front[l].conn
  PROVE  OneRequest'
BY DEF OneRequest

\* The queues once the room has answered: the request is over.
LEMMA AnswerQueues ==
  ASSUME FrontTypes, OneRequest, NEW c \in Conn, NEW f \in Result, f.conn = c, Answer(c, f),
         1 \in Handles, tasks[1].conn = c,
         \A k \in Handles' : k + 1 \in Handles /\ tasks'[k] = tasks[k + 1] /\ k \in Nat
  PROVE  /\ OneRequest' /\ busy' \subseteq Conn
         /\ front' \in Seq(Result) /\ ToSet(front) \subseteq ToSet(front')
         /\ ToSet(front') \subseteq ToSet(front) \cup {f}
         /\ \A g \in ToSet(front) : g.conn # c
         /\ c \notin cancelled' => f \in ToSet(front')
<1>1. front \in Seq(Result) /\ busy \subseteq Conn /\ Len(front) \in Nat /\ Results = 1..Len(front)
  BY LenProperties DEF FrontTypes, Results
<1>2. \A k \in Handles' : tasks'[k].conn # c
  <2> SUFFICES ASSUME NEW k \in Handles', tasks[k + 1].conn = c PROVE FALSE
    OBVIOUS
  <2>1. k + 1 = 1 /\ k >= 1
    BY DEF OneRequest, Handles
  <2> QED BY <2>1
<1>3. \A k \in Results : front[k].conn # c
  BY DEF OneRequest
<1>4. \A g \in ToSet(front) : g.conn # c
  BY <1>1, <1>3, QueueElements
<1>5. /\ \A k \in Handles' : tasks'[k].conn \in busy \ {c}
      /\ \A k \in Handles', l \in Handles' : tasks'[k].conn = tasks'[l].conn => k = l
      /\ \A k \in Handles', l \in Results : tasks'[k].conn # front[l].conn
  <2>1. \A k \in Handles' : tasks'[k].conn \in busy \ {c}
    BY <1>2 DEF OneRequest
  <2>2. ASSUME NEW k \in Handles', NEW l \in Handles', tasks'[k].conn = tasks'[l].conn PROVE k = l
    <3>1. k + 1 = l + 1
      BY <2>2 DEF OneRequest
    <3> QED BY <3>1
  <2>3. \A k \in Handles', l \in Results : tasks'[k].conn # front[l].conn
    BY DEF OneRequest
  <2> QED BY <2>1, <2>2, <2>3
<1>6. CASE Cancel(c) /\ busy' = busy \ {c} /\ UNCHANGED front
  <2>1. Results' = Results /\ front' = front /\ c \in cancelled'
    BY <1>6 DEF Results, Cancel
  <2>2. /\ \A k \in Results' : front'[k].conn \in busy'
        /\ \A k, l \in Results' : front'[k].conn = front'[l].conn => k = l
    BY <1>3, <1>6, <2>1 DEF OneRequest
  <2>3. OneRequest'
    BY <1>5, <1>6, <2>1, <2>2 DEF OneRequest
  <2> QED BY <1>1, <1>4, <1>6, <2>1, <2>3
<1>7. CASE front' = Append(front, f) /\ UNCHANGED <<busy, sessionVars>>
  <2>1. PICK q : q = Append(front, f)
    OBVIOUS
  <2>2. q \in Seq(Result) /\ ToSet(q) = ToSet(front) \cup {f}
    BY <1>1, <2>1, QueueElements, AppendProperties
  <2>3. /\ Len(q) = Len(front) + 1 /\ q[Len(front) + 1] = f
        /\ \A k \in 1..Len(front) : q[k] = front[k]
    BY <1>1, <2>1, AppendProperties
  <2>4. PICK n \in Nat : n = Len(front) + 1
    BY <1>1
  <2>5. front' = q /\ Results' = Results \cup {n} /\ n \notin Results /\ busy' = busy
    BY <1>1, <1>7, <2>1, <2>3, <2>4 DEF Results
  <2>6. (\A k \in Results : front'[k] = front[k]) /\ front'[n].conn = c
    BY <1>1, <2>3, <2>4, <2>5
  <2>7. c \in busy
    BY DEF OneRequest
  <2>8. OneRequest'
    BY <1>2, <1>3, <1>5, <2>5, <2>6, <2>7, AnswerAdded
  <2> QED BY <1>1, <1>4, <1>7, <2>2, <2>5, <2>8
<1> QED BY <1>6, <1>7 DEF Answer

\* A request of connection c that the room has just handled, with answer f.
Handled(c, t, f) ==
  /\ tasks # <<>> /\ t = Head(tasks) /\ tasks' = Tail(tasks) /\ t.kind = "handle" /\ t.conn = c
  /\ \E ok \in BOOLEAN : f = [conn |-> c, req |-> t.req, ok |-> ok, id |-> member'[c]]
  /\ Answer(c, f) /\ UNCHANGED frontVars

\* What every handled request leaves behind, whatever it did to the tables.
LEMMA HandledEffect ==
  ASSUME IInv, NEW c \in Conn, NEW t, NEW f, Handled(c, t, f), RoomInv', started' = started, Ids \subseteq Ids'
  PROVE  /\ t \in Task /\ t.req \in Request /\ TaskOK(t)
         /\ FrontTypes' /\ OneRequest'
         /\ ToSet(tasks') \subseteq ToSet(tasks)
         /\ \A d \in Conn : ~\E u \in ToSet(tasks) \ ToSet(tasks') : Ends(u, d)
         /\ ToSet(front) \subseteq ToSet(front') /\ ToSet(front') \subseteq ToSet(front) \cup {f}
         /\ \A g \in ToSet(front) : g.conn # c
         /\ c \notin cancelled' => f \in ToSet(front')
         /\ cancelled \subseteq cancelled' /\ finished' = finished
         /\ \A d \in Conn : ws[d] = "none" => resp'[d] = <<>> /\ d \notin cancelled'
         /\ \A d \in Conn : d \notin cancelled' =>
              \A r \in ToSet(resp'[d]) : r \in ToSet(resp[d]) \/ r.kind = "final"
         /\ \A d \in cancelled' : \A r \in ToSet(resp'[d]) : r.kind # "initial"
<1>1. /\ t \in Task /\ TaskOK(t) /\ tasks' \in Seq(Task) /\ ToSet(tasks) = {t} \cup ToSet(tasks')
      /\ \A k \in Handles' : k + 1 \in Handles /\ tasks'[k] = tasks[k + 1] /\ k \in Nat
      /\ t = tasks[1] /\ 1 \in Handles
  BY TaskTaken DEF Handled
<1>2. t.kind = "handle" /\ t.conn = c /\ t.req \in Request
  BY <1>1, TaskFields DEF Handled
<1>3. f \in Result /\ f.conn = c
  <2>1. member'[c] \in Nat \cup {None}
    <3>1. RoomTypes'
      BY DEF RoomInv
    <3>2. Ids' \subseteq Nat
      <4>1. Len(identity)' \in Nat
        BY <3>1, LenProperties DEF RoomTypes
      <4> QED BY <4>1 DEF Ids
    <3> QED BY <3>1, <3>2 DEF RoomTypes
  <2> QED BY <1>2, <2>1 DEF Handled, Result
<1>4. FrontTypes /\ OneRequest
  BY DEF IInv
<1>5. /\ OneRequest' /\ busy' \subseteq Conn
      /\ front' \in Seq(Result) /\ ToSet(front) \subseteq ToSet(front')
      /\ ToSet(front') \subseteq ToSet(front) \cup {f}
      /\ \A g \in ToSet(front) : g.conn # c
      /\ c \notin cancelled' => f \in ToSet(front')
  BY <1>1, <1>2, <1>3, <1>4, AnswerQueues DEF Handled
<1>6. UNCHANGED <<ws, entries, entry, emissions, asked, stopped, known>>
  BY DEF Handled, frontVars
<1>7. /\ cancelled \subseteq cancelled' /\ cancelled' \subseteq Conn /\ finished' = finished
      /\ resp' \in [Conn -> Seq(Response)]
      /\ \A d \in Conn : ws[d] = "none" => resp'[d] = <<>> /\ d \notin cancelled'
      /\ \A d \in Conn : d \notin cancelled' =>
           \A r \in ToSet(resp'[d]) : r \in ToSet(resp[d]) \/ r.kind = "final"
      /\ \A d \in cancelled' : \A r \in ToSet(resp'[d]) : r.kind # "initial"
  <2>1. CASE UNCHANGED sessionVars
    <3>1. UNCHANGED <<cancelled, finished, resp>>
      BY <2>1 DEF sessionVars
    <3> QED BY <1>4, <3>1, SessionsKept DEF FrontTypes
  <2>2. CASE Cancel(c)
    <3>1. /\ cancelled' = cancelled \cup {c} /\ cancelled' \subseteq Conn /\ finished' = finished
          /\ resp' \in [Conn -> Seq(Response)] /\ resp'[c] = <<>> /\ ToSet(resp'[c]) = {}
          /\ \A d \in Conn \ {c} : resp'[d] = resp[d]
      BY <1>4, <2>2, CancelEffect
    <3>2. \A d \in Conn : LifeOK(d) /\ \A r \in ToSet(resp[d]) : InitialOK(d, r)
      BY DEF IInv, ConnOK
    <3>3. ws[c] # "none"
      BY <1>1, <1>2, <3>2 DEF LifeOK, TaskOK
    <3> QED BY <3>1, <3>2, <3>3 DEF LifeOK, InitialOK
  <2> QED BY <2>1, <2>2 DEF Handled, Answer
<1>8. FrontTypes'
  BY <1>1, <1>4, <1>5, <1>6, <1>7 DEF FrontTypes
<1>9. \A d \in Conn : ~\E u \in ToSet(tasks) \ ToSet(tasks') : Ends(u, d)
  BY <1>1, <1>2 DEF Ends
<1> QED BY <1>1, <1>2, <1>5, <1>7, <1>8, <1>9

\* A request that gives no connection a member and takes none from a live one.
LEMMA QuietHandled ==
  ASSUME IInv, NEW c \in Conn, NEW t, NEW f, Handled(c, t, f), RoomInv', started' = started, Ids' = Ids,
         f.ok => ~IsAdmission(f.req) /\ f.req.type # "leave",
         \A i \in Ids : index'[i] \in {index[i], None},
         \A d \in Conn : HasMember(d)' => member'[d] = member[d],
         \A d \in Conn : HasMember(d) => member'[d] = member[d] \/ d \in cancelled,
         \A d \in Conn : HasMember(d)' /\ member'[d] \in suspended => member'[d] \in suspended',
         \A i \in suspended' : i \in suspended /\ index'[i] = index[i]
  PROVE  IInv'
<1>1. /\ FrontTypes' /\ OneRequest'
      /\ ToSet(tasks') \subseteq ToSet(tasks)
      /\ \A d \in Conn : ~\E u \in ToSet(tasks) \ ToSet(tasks') : Ends(u, d)
      /\ ToSet(front) \subseteq ToSet(front') /\ ToSet(front') \subseteq ToSet(front) \cup {f}
      /\ cancelled \subseteq cancelled' /\ finished' = finished
      /\ \A d \in Conn : ws[d] = "none" => resp'[d] = <<>> /\ d \notin cancelled'
      /\ \A d \in Conn : d \notin cancelled' =>
           \A r \in ToSet(resp'[d]) : r \in ToSet(resp[d]) \/ r.kind = "final"
      /\ \A d \in cancelled' : \A r \in ToSet(resp'[d]) : r.kind # "initial"
  BY HandledEffect
<1>2. UNCHANGED frontVars /\ UNCHANGED known
  BY DEF Handled, frontVars
<1>3. ResultOK(f)'
  BY DEF ResultOK
<1>4. \A i \in suspended' : SuspendedOK(i)'
  BY <1>1, <1>2 DEF IInv, SuspendedOK
<1>5. RoomMoves({})
  BY <1>1, <1>2 DEF RoomMoves
<1> QED BY <1>1, <1>3, <1>4, <1>5, RoomConclude

\* A request that changes the membership of its own connection.
LEMMA OwnHandled ==
  ASSUME IInv, NEW c \in Conn, NEW t, NEW f, Handled(c, t, f), RoomInv', started' = started, Ids \subseteq Ids',
         c \notin cancelled,
         \A i \in Ids : index'[i] \in {index[i], None} \/ i \in suspended,
         \A d \in Conn \ {c} : HasMember(d)' => member'[d] = member[d],
         \A d \in Conn \ {c} : HasMember(d) => member'[d] = member[d] \/ d \in cancelled,
         \A d \in Conn \ {c} : HasMember(d)' /\ member'[d] \in suspended => member'[d] \in suspended',
         \A i \in suspended' : i \in suspended /\ index'[i] = index[i],
         ResultOK(f)', VerdictOK(c)',
         HasMember(c)' => c \in entries /\ entry[c].bound,
         HasMember(c)' => f.ok /\ IsAdmission(f.req),
         ~HasMember(c)' => f.ok /\ f.req.type = "leave",
         \A r \in ToSet(resp[c]) : r.kind = "initial" =>
           /\ index'[r.id] \in {c, None}
           /\ c \notin finished =>
                /\ r.gen = entry[c].gen => ~HasMember(c)'
                /\ r.gen # entry[c].gen => index'[r.id] = None
  PROVE  IInv'
<1>1. /\ FrontTypes' /\ OneRequest'
      /\ ToSet(tasks') \subseteq ToSet(tasks)
      /\ \A d \in Conn : ~\E u \in ToSet(tasks) \ ToSet(tasks') : Ends(u, d)
      /\ ToSet(front) \subseteq ToSet(front') /\ ToSet(front') \subseteq ToSet(front) \cup {f}
      /\ \A g \in ToSet(front) : g.conn # c
      /\ c \notin cancelled' => f \in ToSet(front')
      /\ cancelled \subseteq cancelled' /\ finished' = finished
      /\ \A d \in Conn : ws[d] = "none" => resp'[d] = <<>> /\ d \notin cancelled'
      /\ \A d \in Conn : d \notin cancelled' =>
           \A r \in ToSet(resp'[d]) : r \in ToSet(resp[d]) \/ r.kind = "final"
      /\ \A d \in cancelled' : \A r \in ToSet(resp'[d]) : r.kind # "initial"
  BY HandledEffect
<1>2. UNCHANGED frontVars /\ UNCHANGED <<ws, entries, entry, emissions, asked, stopped, known>> /\ f.conn = c
  BY DEF Handled, frontVars
<1>3. \A i \in suspended' : SuspendedOK(i)'
  BY <1>1, <1>2 DEF IInv, SuspendedOK
<1>4. ASSUME NEW r \in ToSet(resp'[c]) PROVE InitialOK(c, r)'
  <2> SUFFICES ASSUME r.kind = "initial" PROVE InitialOK(c, r)'
    BY DEF InitialOK
  <2>1. r \in ToSet(resp[c]) /\ c \notin cancelled'
    BY <1>1
  <2>2. InitialOK(c, r)
    BY <2>1 DEF IInv
  <2> QED BY <1>1, <1>2, <2>1, <2>2 DEF InitialOK
<1>5. LifeOK(c)'
  <2>1. LifeOK(c)
    BY DEF IInv, ConnOK
  <2> QED BY <1>1, <1>2, <2>1 DEF LifeOK
<1>6. HeardOK(c)'
  BY <1>1, <1>2 DEF HeardOK, Answered, IsAdmission
<1>7. OrphanOK(c)'
  BY <1>2 DEF OrphanOK
<1>8. ConnOK(c)'
  BY <1>5, <1>6, <1>7 DEF ConnOK
<1>9. RoomMoves({c})
  BY <1>1, <1>2 DEF RoomMoves
<1> QED BY <1>1, <1>2, <1>3, <1>4, <1>8, <1>9, RoomConclude

\* A connection whose request is being handled has heard all earlier answers.
LEMMA NothingUnheard ==
  ASSUME IInv, NEW c \in Conn, c \in entries \ cancelled, ~HasMember(c), \A g \in ToSet(front) : g.conn # c
  PROVE  c \in finished \/ ~entry[c].admitted
<1>1. HeardOK(c)
  BY DEF IInv, ConnOK
<1> QED BY <1>1 DEF HeardOK, Answered

\* A join that succeeds.
LEMMA JoinStep ==
  ASSUME IInv, NEW c \in Conn, NEW t, NEW f, Handled(c, t, f), f.ok, c \notin cancelled,
         t.req.type = "join", JoinRoom(c, t.req.subject)
  PROVE  IInv'
<1>1. t.req.subject \in Subject
  <2>1. tasks \in Seq(Task) /\ t \in Task
    <3>1. tasks \in Seq(Task)
      BY DEF IInv, FrontTypes
    <3> QED BY <3>1, QueueElements DEF Handled
  <2> QED BY <2>1, TaskFields, RequestFields DEF Handled
<1>2. PICK n : n = Len(identity) + 1
  OBVIOUS
<1>3. /\ RoomInv' /\ n \notin Ids /\ Ids' = Ids \cup {n} /\ n \in Nat
      /\ ~HasMember(c) /\ member' = [member EXCEPT ![c] = n]
      /\ \A i \in Ids : index'[i] = index[i]
      /\ index'[n] = c /\ UNCHANGED <<suspended, started>>
  BY <1>1, <1>2, JoinKeeps DEF IInv
<1>4. /\ t \in Task /\ TaskOK(t) /\ t.kind = "handle" /\ t.conn = c
      /\ \A g \in ToSet(front) : g.conn # c /\ finished' = finished /\ cancelled \subseteq cancelled'
  BY <1>3, HandledEffect DEF Handled
<1>5. finished' = finished /\ cancelled \subseteq cancelled'
  BY <1>3, HandledEffect
<1>6. /\ c \in entries /\ entry[c].bound /\ entry[c].admitting
      /\ ~entry[c].admitted => ~entry[c].resumed
  BY <1>4 DEF TaskOK, IsAdmission
<1>7. c \in finished \/ ~entry[c].admitted
  BY <1>3, <1>4, <1>6, NothingUnheard
<1>8. /\ UNCHANGED <<entries, entry, known>> /\ f.conn = c /\ f.req = t.req /\ f.id = member'[c]
  BY DEF Handled, frontVars
<1>9. \A d \in Conn : member'[d] = IF d = c THEN n ELSE member[d]
  BY <1>3 DEF IInv, RoomInv, RoomTypes
<1>10. n # None /\ HasMember(c)'
  BY <1>3, <1>9, NoneAssumption DEF HasMember
<1>11. ResultOK(f)'
  BY <1>3, <1>5, <1>6, <1>7, <1>8, <1>9 DEF ResultOK, IsAdmission
<1>12. VerdictOK(c)'
  <2>1. n \notin known
    BY <1>3 DEF IInv, FrontTypes
  <2> QED BY <1>5, <1>6, <1>7, <1>8, <1>9, <2>1 DEF VerdictOK, MustRollBack
<1>13. ASSUME NEW r \in ToSet(resp[c]), r.kind = "initial"
       PROVE  /\ index'[r.id] \in {c, None}
              /\ c \notin finished => r.gen # entry[c].gen /\ index'[r.id] = None
  <2>1. InitialOK(c, r)
    BY DEF IInv
  <2> QED BY <1>3, <1>7, <1>13, <2>1 DEF InitialOK
<1>14. \A i \in suspended' : i \in suspended /\ index'[i] = index[i]
  BY <1>3 DEF IInv, RoomInv, RoomTypes
<1>15. f.ok /\ IsAdmission(f.req)
  BY <1>8 DEF IsAdmission
<1> QED BY <1>3, <1>6, <1>9, <1>10, <1>11, <1>12, <1>13, <1>14, <1>15, OwnHandled DEF HasMember

\* A resume that succeeds.
LEMMA ResumeStep ==
  ASSUME IInv, NEW c \in Conn, NEW t, NEW f, Handled(c, t, f), f.ok, c \notin cancelled,
         t.req.type = "resume", ResumeRoom(c, t.req.id)
  PROVE  IInv'
<1>1. t \in ToSet(tasks) /\ TaskOK(t)
  BY TaskTaken DEF Handled
<1>2. PICK i \in Ids : i = t.req.id /\ i \in known
  BY <1>1 DEF TaskOK, IInv, FrontTypes, Handled
<1>3. PICK p : p = index[i]
  OBVIOUS
<1>4. /\ RoomInv' /\ UNCHANGED <<identity, started>> /\ Ids' = Ids
      /\ ~HasMember(c) /\ i \in suspended /\ suspended' = suspended \ {i}
      /\ index' = [index EXCEPT ![i] = c] /\ p \in Members /\ p # c
      /\ member' = [member EXCEPT ![c] = i, ![p] = None]
  BY <1>2, <1>3, ResumeKeeps DEF IInv, Ids
<1>5. /\ t.kind = "handle" /\ t.conn = c
      /\ \A g \in ToSet(front) : g.conn # c
  BY <1>4, HandledEffect DEF Handled
<1>6. finished' = finished /\ cancelled \subseteq cancelled'
  BY <1>4, HandledEffect
<1>7. /\ c \in entries /\ entry[c].bound /\ entry[c].admitting
      /\ ~entry[c].admitted => entry[c].resumed
  BY <1>1, <1>5 DEF TaskOK, IsAdmission
<1>8. c \in finished \/ ~entry[c].admitted
  BY <1>4, <1>5, <1>7, NothingUnheard
<1>9. /\ UNCHANGED <<entries, entry, known>> /\ f.conn = c /\ f.req = t.req /\ f.id = member'[c]
  BY DEF Handled, frontVars
<1>10. \A d \in Conn : member'[d] = IF d = p THEN None ELSE IF d = c THEN i ELSE member[d]
  BY <1>4 DEF IInv, RoomInv, RoomTypes, Members
<1>11. \A j \in Ids : index'[j] = IF j = i THEN c ELSE index[j]
  BY <1>4 DEF IInv, RoomInv, RoomTypes
<1>12. p \in cancelled /\ None \notin Ids
  BY <1>3, <1>4, IdsType DEF IInv, SuspendedOK, RoomInv
<1>13. member'[c] = i /\ HasMember(c)'
  BY <1>4, <1>10, <1>12 DEF HasMember
<1>14. ResultOK(f)'
  BY <1>4, <1>6, <1>7, <1>8, <1>9, <1>11, <1>13 DEF ResultOK, IsAdmission
<1>15. VerdictOK(c)'
  BY <1>2, <1>6, <1>7, <1>8, <1>9, <1>13 DEF VerdictOK, MustRollBack
<1>16. ASSUME NEW r \in ToSet(resp[c]), r.kind = "initial"
       PROVE  /\ index'[r.id] \in {c, None}
              /\ c \notin finished => r.gen # entry[c].gen /\ index'[r.id] = None
  <2>1. InitialOK(c, r)
    BY DEF IInv
  <2>2. p # None
    BY <1>4, NoneAssumption DEF Members
  <2>3. r.id \in Ids /\ r.id # i
    BY <1>3, <1>4, <1>16, <2>1, <2>2 DEF InitialOK
  <2> QED BY <1>8, <1>11, <1>16, <2>1, <2>3 DEF InitialOK
<1>17. \A j \in suspended' : j \in suspended /\ index'[j] = index[j]
  BY <1>4, <1>11 DEF IInv, RoomInv, RoomTypes
<1>18. f.ok /\ IsAdmission(f.req)
  BY <1>9 DEF IsAdmission
<1>19. ASSUME NEW d \in Conn \ {c}, HasMember(d)', member'[d] \in suspended PROVE member'[d] \in suspended'
  <2>1. d # p /\ member'[d] = member[d] /\ HasMember(d)
    BY <1>10, <1>19 DEF HasMember
  <2>2. index[member[d]] = d
    BY <2>1 DEF IInv, RoomInv, TablesAgree
  <2> QED BY <1>3, <1>4, <1>19, <2>1, <2>2
<1>20. \A d \in Conn \ {c} : /\ HasMember(d)' => member'[d] = member[d]
                             /\ HasMember(d) => member'[d] = member[d] \/ d \in cancelled
  BY <1>10, <1>12 DEF HasMember
<1>21. \A j \in Ids : index'[j] \in {index[j], None} \/ j \in suspended
  BY <1>4, <1>11
<1> QED BY <1>4, <1>7, <1>13, <1>14, <1>15, <1>16, <1>17, <1>18, <1>19, <1>20, <1>21, OwnHandled

\* A leave.
LEMMA LeaveStep ==
  ASSUME IInv, NEW c \in Conn, NEW t, NEW f, Handled(c, t, f), f.ok, c \notin cancelled,
         t.req.type = "leave", RemoveSession(c)
  PROVE  IInv'
<1>1. RoomInv' /\ Unlinked(c) /\ UNCHANGED <<identity, started>> /\ Ids' = Ids
  BY RemoveKeeps DEF IInv, Ids
<1>2. /\ \A i \in Ids : index'[i] \in {index[i], None}
      /\ \A d \in Conn : HasMember(d)' => member'[d] = member[d] /\ d # c
      /\ \A d \in Conn \ {c} : member'[d] = member[d]
      /\ \A d \in Conn : HasMember(d)' /\ member'[d] \in suspended => member'[d] \in suspended'
      /\ \A i \in suspended' : i \in suspended /\ index'[i] = index[i]
  BY <1>1, UnlinkMoves
<1>3. f.conn = c /\ f.req = t.req /\ ~HasMember(c)'
  BY <1>2 DEF Handled
<1>4. ResultOK(f)' /\ VerdictOK(c)'
  BY <1>3 DEF ResultOK, VerdictOK, IsAdmission
<1>5. ASSUME NEW r \in ToSet(resp[c]), r.kind = "initial"
      PROVE  /\ index'[r.id] \in {c, None}
             /\ c \notin finished /\ r.gen # entry[c].gen => index'[r.id] = None
  <2>1. InitialOK(c, r)
    BY DEF IInv
  <2> QED BY <1>2, <1>5, <2>1 DEF InitialOK
<1> QED BY <1>1, <1>2, <1>3, <1>4, <1>5, OwnHandled

\* A resume that comes too late, or whose media cannot be moved, ends the member.
LEMMA FailedResumeStep ==
  ASSUME IInv, NEW c \in Conn, NEW t, NEW f, Handled(c, t, f), ~f.ok,
         t.req.type = "resume", CanResume(c, t.req.id), RemoveSession(index[t.req.id])
  PROVE  IInv'
<1>1. t \in ToSet(tasks) /\ TaskOK(t)
  BY TaskTaken DEF Handled
<1>2. PICK i \in Ids : i = t.req.id
  BY <1>1 DEF TaskOK, IInv, FrontTypes, Handled
<1>3. PICK p \in Conn : p = index[i] /\ i \in suspended
  BY <1>2 DEF CanResume, IInv, RoomInv, RoomTypes
<1>4. p \in cancelled /\ RemoveSession(p)
  BY <1>2, <1>3 DEF IInv, SuspendedOK
<1>5. RoomInv' /\ Unlinked(p) /\ UNCHANGED <<identity, started>> /\ Ids' = Ids
  BY <1>4, RemoveKeeps DEF IInv, Ids
<1>6. /\ \A j \in Ids : index'[j] \in {index[j], None}
      /\ \A d \in Conn : HasMember(d)' => member'[d] = member[d] /\ d # p
      /\ \A d \in Conn \ {p} : member'[d] = member[d]
      /\ \A d \in Conn : HasMember(d)' /\ member'[d] \in suspended => member'[d] \in suspended'
      /\ \A j \in suspended' : j \in suspended /\ index'[j] = index[j]
  BY <1>5, UnlinkMoves
<1>7. \A d \in Conn : HasMember(d) => member'[d] = member[d] \/ d \in cancelled
  BY <1>4, <1>6
<1> QED BY <1>5, <1>6, <1>7, QuietHandled

\* A request that leaves the memberships alone.
LEMMA NoMoveStep ==
  ASSUME IInv, NEW c \in Conn, NEW t, NEW f, Handled(c, t, f), RoomInv',
         UNCHANGED <<identity, member, index, suspended, started>>,
         f.ok => ~IsAdmission(f.req) /\ f.req.type # "leave"
  PROVE  IInv'
<1>1. Ids' = Ids
  BY DEF Ids
<1> QED BY <1>1, QuietHandled DEF HasMember

\* The room handles a request.
LEMMA HandleStep ==
  ASSUME IInv, tasks # <<>>, NEW t, t = Head(tasks), tasks' = Tail(tasks), t.kind = "handle",
         HandleTask(t), UNCHANGED frontVars
  PROVE  IInv'
<1>1. t \in Task /\ TaskOK(t)
  BY TaskTaken
<1>2. PICK c \in Conn : c = t.conn
  BY <1>1, TaskFields
<1>3. PICK ok \in BOOLEAN :
        /\ \/ c \notin cancelled /\ started /\ Handle(c, t.req, ok)
           \/ ok = FALSE /\ UNCHANGED roomVars
        /\ \/ /\ front' = Append(front, [conn |-> c, req |-> t.req, ok |-> ok, id |-> member'[c]])
              /\ UNCHANGED <<busy, sessionVars>>
           \/ Cancel(c) /\ busy' = busy \ {c} /\ UNCHANGED front
  BY <1>2 DEF HandleTask
<1>4. PICK f : f = [conn |-> c, req |-> t.req, ok |-> ok, id |-> member'[c]]
  OBVIOUS
<1>5. Handled(c, t, f)
  BY <1>2, <1>3, <1>4 DEF Handled, Answer
<1>6. f.ok = ok /\ f.req = t.req
  BY <1>4
<1>7. RoomInv
  BY DEF IInv
<1>8. CASE ~ok /\ UNCHANGED roomVars
  <2>1. UNCHANGED <<identity, member, index, suspended, media, participants, mediaCount, started>>
    BY <1>8 DEF roomVars
  <2>2. RoomInv'
    BY <1>7, <2>1 DEF RoomInv, RoomTypes, TablesAgree, Counted, Members, HasMember, Ids
  <2> QED BY <1>5, <1>6, <1>8, <2>1, <2>2, NoMoveStep
<1>9. CASE c \notin cancelled /\ started /\ Handle(c, t.req, ok)
  <2>1. CASE t.req.type = "join" /\ ok /\ JoinRoom(c, t.req.subject)
    BY <1>5, <1>6, <1>9, <2>1, JoinStep
  <2>2. CASE t.req.type = "resume" /\ ok /\ ResumeRoom(c, t.req.id)
    BY <1>5, <1>6, <1>9, <2>2, ResumeStep
  <2>3. CASE t.req.type = "resume" /\ ~ok /\ CanResume(c, t.req.id) /\ RemoveSession(index[t.req.id])
    BY <1>5, <1>6, <1>9, <2>3, FailedResumeStep
  <2>4. CASE t.req.type = "leave" /\ ok /\ RemoveSession(c)
    BY <1>5, <1>6, <1>9, <2>4, LeaveStep
  <2>5. CASE /\ t.req.type \in {"publish", "unpublish"}
             /\ \/ CreateSession(c)
                \/ RemoveMediaSession(c)
                     /\ UNCHANGED <<identity, member, index, suspended, participants, started>>
    <3>1. RoomInv' /\ UNCHANGED <<identity, member, index, suspended, started>>
      BY <1>7, <2>5, MediaKeeps
    <3>2. ~IsAdmission(f.req) /\ f.req.type # "leave"
      BY <1>6, <2>5 DEF IsAdmission
    <3> QED BY <1>5, <3>1, <3>2, NoMoveStep
  <2> QED BY <1>8, <1>9, <2>1, <2>2, <2>3, <2>4, <2>5 DEF Handle
<1> QED BY <1>3, <1>8, <1>9

\* The room owner runs its next task.
LEMMA RoomTaskStep ==
  ASSUME IInv, RoomStep
  PROVE  IInv'
<1>1. PICK t : t = Head(tasks)
  OBVIOUS
<1>2. /\ tasks # <<>> /\ tasks' = Tail(tasks) /\ UNCHANGED frontVars
      /\ \/ t.kind = "handle" /\ HandleTask(t)
         \/ t.kind = "reject" /\ RemoveSession(t.conn) /\ UNCHANGED <<busy, front, sessionVars>>
         \/ t.kind = "closed" /\ OnSignalingClosed(t.conn) /\ UNCHANGED <<busy, front, sessionVars>>
         \/ t.kind = "stop" /\ StopTask
  BY <1>1 DEF RoomStep
<1>3. CASE t.kind = "handle" /\ HandleTask(t)
  BY <1>1, <1>2, <1>3, HandleStep
<1>4. CASE t.kind = "reject" /\ RemoveSession(t.conn) /\ UNCHANGED <<busy, front, sessionVars>>
  BY <1>1, <1>2, <1>4, RejectStep
<1>5. CASE t.kind = "closed" /\ OnSignalingClosed(t.conn) /\ UNCHANGED <<busy, front, sessionVars>>
  <2>1. CASE started /\ HasMember(t.conn)
    BY <1>1, <1>2, <1>5, <2>1, SuspendStep
  <2>2. CASE ~(started /\ HasMember(t.conn))
    <3>1. RemoveSession(t.conn)
      BY <1>5, <2>2 DEF OnSignalingClosed
    <3> QED BY <1>1, <1>2, <1>5, <3>1, RejectStep
  <2> QED BY <2>1, <2>2
<1>6. CASE t.kind = "stop" /\ StopTask
  BY <1>1, <1>2, <1>6, StopTaskStep
<1> QED BY <1>2, <1>3, <1>4, <1>5, <1>6

-----------------------------------------------------------------------------
(***************************************************************************)
(* The invariant, and what follows from it.                                *)
(***************************************************************************)

\* The protocol invariant holds when the service starts.
LEMMA InitInv == Init => IInv
<1> SUFFICES ASSUME Init PROVE IInv
  OBVIOUS
<1>1. ToSet(<<>>) = {} /\ Len(<<>>) = 0
  BY DEF ToSet
<1>2. /\ tasks = <<>> /\ front = <<>> /\ identity = <<>> /\ index = <<>> /\ Ids = {}
      /\ resp = [c \in Conn |-> <<>>] /\ member = [c \in Conn |-> None]
      /\ suspended = {} /\ media = {} /\ Members = {}
  BY <1>1 DEF Init, Ids, Members, HasMember
<1>3. FrontTypes
  <2>1. /\ ws \in [Conn -> {"none", "up", "draining", "closing", "gone"}] /\ entry \in [Conn -> Entry]
        /\ asked \in 0..MaxRequests
    BY FreshEntryType, LimitAssumption DEF Init
  <2>2. tasks \in Seq(Task) /\ front \in Seq(Result) /\ resp \in [Conn -> Seq(Response)]
    BY <1>2
  <2>3. IsFiniteSet(entries)
    BY FS_EmptySet DEF Init
  <2> QED BY <2>1, <2>2, <2>3 DEF Init, FrontTypes
<1>4. RoomTypes
  BY <1>2, EmptySeq DEF Init, RoomTypes
<1>5. Counted
  BY <1>2, FS_EmptySet, LimitAssumption DEF Init, Counted
<1>6. TablesAgree
  BY <1>2 DEF TablesAgree, HasMember
<1>7. OneRequest
  BY <1>1, <1>2 DEF OneRequest, Handles, Results
<1>8. \A c \in Conn : ConnOK(c)
  BY <1>2 DEF Init, ConnOK, LifeOK, HeardOK, VerdictOK, OrphanOK, HasMember, FreshEntry
<1> QED BY <1>1, <1>2, <1>3, <1>4, <1>5, <1>6, <1>7, <1>8 DEF IInv, RoomInv

\* Nothing in the invariant depends on anything but the state.
LEMMA StutterInv ==
  ASSUME IInv, UNCHANGED vars
  PROVE  IInv'
<1>1. /\ UNCHANGED <<ws, entries, entry, emissions, asked, stopped, known, cancelled, finished, resp>>
      /\ UNCHANGED <<busy, tasks, front>>
      /\ UNCHANGED <<identity, member, index, suspended, media, participants, mediaCount, started>>
  BY DEF vars, frontVars, sessionVars, roomVars
<1>2. RoomInv' /\ Ids' = Ids /\ \A c \in Conn : HasMember(c)' <=> HasMember(c)
  BY <1>1 DEF IInv, RoomInv, RoomTypes, TablesAgree, Counted, Members, HasMember, Ids
<1>3. FrontTypes' /\ OneRequest'
  BY <1>1, <1>2, OneRequestSame DEF IInv, FrontTypes
<1>4. RoomMoves({})
  BY <1>1, <1>2, SessionsKept DEF RoomMoves, frontVars
<1>5. \A i \in suspended' : SuspendedOK(i)'
  BY <1>1 DEF IInv, SuspendedOK
<1> QED BY <1>1, <1>2, <1>3, <1>4, <1>5, RoomConclude

\* The protocol invariant is inductive.
THEOREM ProtocolInvariant == Spec => []IInv
<1>1. ASSUME IInv, [Next]_vars PROVE IInv'
  <2>1. CASE UNCHANGED vars
    BY <1>1, <2>1, StutterInv
  <2>2. ASSUME NEW c \in Conn, NEW r \in Requests, Receive(c, r) PROVE IInv'
    BY <1>1, <2>2, ReceiveStep
  <2>3. ASSUME NEW c \in Conn, \/ Open(c) \/ Write(c) \/ Closed(c) \/ Overflow(c)
                               \/ TickExpire(c) \/ TickDetach(c) \/ GatewayTick(c)
        PROVE  IInv'
    BY <1>1, <2>3, OpenStep, WriteStep, ClosedStep, OverflowStep, TickExpireStep, TickDetachStep, GatewayTickStep
  <2>4. ASSUME NEW c \in Conn, RoomExpire(c) \/ RoomRemove(c) PROVE IInv'
    BY <1>1, <2>4, RoomExpireStep, RoomRemoveStep
  <2>5. CASE Finish \/ RoomStep \/ Stop
    BY <1>1, <2>5, FinishStep, RoomTaskStep, StopStep
  <2> QED BY <1>1, <2>1, <2>2, <2>3, <2>4, <2>5 DEF Next
<1> QED BY <1>1, InitInv, PTL DEF Spec

\* Types of the coordinator's, the gateway's and the room's tables, for any number
\* of connections, subjects and requests.
THEOREM AdmissionTypeCorrect == Spec => []TypeOK
<1>1. IInv => TypeOK
  BY DEF IInv, FrontTypes, RoomInv, RoomTypes, TypeOK
<1> QED BY <1>1, ProtocolInvariant, PTL

\* RoomCapacity counts exactly the memberships and the media sessions, and never
\* exceeds its limit, whichever operations ended them and in whatever order.
THEOREM CapacityIsExact == Spec => []CapacityExact
<1>1. IInv => CapacityExact
  BY DEF IInv, RoomInv, Counted, CapacityExact
<1> QED BY <1>1, ProtocolInvariant, PTL

\* The room's tables agree with each other after every operation.
THEOREM TablesInAgreement == Spec => []TablesAgree
<1>1. IInv => TablesAgree
  BY DEF IInv, RoomInv
<1> QED BY <1>1, ProtocolInvariant, PTL

\* A connected membership always has somebody responsible for ending it.
THEOREM NobodyOrphaned == Spec => []NoOrphan
<1>1. ASSUME IInv PROVE NoOrphan
  <2> SUFFICES ASSUME NEW c \in Members, member[c] \notin suspended
               PROVE  (c \in entries /\ entry[c].bound) \/ Queued(c, {"reject", "closed", "stop"})
    BY DEF NoOrphan
  <2>1. OrphanOK(c) /\ HasMember(c)
    BY <1>1 DEF IInv, ConnOK, Members
  <2>2. CASE \E t \in ToSet(tasks) : Ends(t, c)
    <3>1. PICK t \in ToSet(tasks) : Ends(t, c)
      BY <2>2
    <3>2. tasks \in Seq(Task)
      BY <1>1 DEF IInv, FrontTypes
    <3>3. PICK k \in 1..Len(tasks) : t = tasks[k]
      BY <3>2, QueueElements
    <3> QED BY <3>1, <3>3 DEF Queued, Ends
  <2> QED BY <2>1, <2>2 DEF OrphanOK
<1> QED BY <1>1, ProtocolInvariant, PTL

\* A queued rollback never hits a participant whose credentials a client has, on a
\* connection the room had not ended.
THEOREM RollbackSparesTheKnown == Spec => []RollbackSparesKnown
<1>1. ASSUME IInv PROVE RollbackSparesKnown
  <2> SUFFICES ASSUME NEW c \in Members \ finished, NEW k \in 1..Len(tasks),
                      tasks[k].kind = "reject", tasks[k].conn = c
               PROVE  member[c] \notin known
    BY DEF RollbackSparesKnown, Queued
  <2>1. tasks \in Seq(Task)
    BY <1>1 DEF IInv, FrontTypes
  <2>2. tasks[k] \in ToSet(tasks)
    BY <2>1, QueueElements
  <2>3. TaskOK(tasks[k])
    BY <1>1, <2>2 DEF IInv
  <2> QED BY <2>3 DEF TaskOK, Members
<1> QED BY <1>1, ProtocolInvariant, PTL

\* A suspended participant can be resumed by a client, or its connection had been
\* ended by the room.
THEOREM SuspendedAreRecoverable == Spec => []Recoverable
<1>1. IInv => Recoverable
  BY DEF IInv, SuspendedOK, Recoverable
<1> QED BY <1>1, ProtocolInvariant, PTL
=============================================================================
