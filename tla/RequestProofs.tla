---------------------------- MODULE RequestProofs ----------------------------
(***************************************************************************)
(* Proofs about Request: for any requests, any tree of files and any files *)
(* on the card, any content types, and names of any length.                *)
(***************************************************************************)
EXTENDS Request, SequenceTheorems, FiniteSetTheorems, WellFoundedInduction, TLAPS

(* A text is a sequence of characters.  (The provers do not know that a    *)
(* literal is a string; two are named for them.)                           *)
Char == STRING \cup {"/", "."}
Text == Seq(Char)
Paths == Seq(Text)

LEMMA Strings ==
    /\ \A s \in Seq(STRING) : s \in Text
    /\ \A p \in Seq(Seq(STRING)) : p \in Paths
    /\ << >> \in Text /\ << >> \in Paths /\ << "/" >> \in Text
<1>1. \A s \in Seq(STRING) : s \in Text
  BY SeqMonotonic DEF Text, Char
<1>2. Seq(STRING) \subseteq Text
  BY <1>1
<1>3. \A p \in Seq(Seq(STRING)) : p \in Paths
  BY <1>2, SeqMonotonic DEF Paths
<1>4. ASSUME NEW S, NEW c \in S PROVE << c >> \in Seq(S)
  OBVIOUS
<1>5. "/" \in Char
  BY DEF Char
<1>6. << "/" >> \in Text
  BY <1>4, <1>5, Zenon DEF Text
<1> QED BY <1>1, <1>3, <1>6, EmptySeq DEF Text, Paths

LEMMA Associates ==
    ASSUME NEW s \in Text, NEW t \in Text, NEW u \in Text
    PROVE  (s \o t) \o u = s \o (t \o u)
BY ConcatAssociative DEF Text

(* The variables have their types.                                         *)
Shaped == TypeOK /\ buffer \in Text

LEMMA Settings ==
    /\ HTTPD_FILENAME_MAX_LENGTH \in Nat \ {0} /\ MMC_PATH_MAX \in Nat \ {0}
    /\ CGI_BIN \in Text /\ MMC \in Text /\ GZ \in Text
    /\ << >> \in DOMAIN Tree /\ Tree[<< >>] = "dir"
    /\ << >> \in Text /\ Len(<< >>) = 0
    /\ \A p \in DOMAIN Tree : p \in Paths
BY RequestAssumption, Strings

LEMMA Streams ==
    ASSUME NEW r \in Requests
    PROVE  /\ r \in Text /\ Len(r) \in Nat /\ Len(r) > 2 /\ r[Len(r)] = " "
           /\ Start(r) \in Nat /\ Start(r) >= 2 /\ Start(r) < Len(r)
           /\ \A i \in 1 .. Len(r) : r[i] \in Char
<1>1. r \in Text /\ Len(r) > 2 /\ r[Len(r)] = " "
  BY RequestAssumption, Strings DEF Last
<1>2. Len(r) \in Nat /\ \A i \in 1 .. Len(r) : r[i] \in Char
  BY <1>1, LenProperties, ElementOfSeq DEF Text
<1>3. Start(r) \in {2, 5, 6}
  BY DEF Start, Skip
<1>4. Start(r) > 2 => Start(r) < Len(r)
  BY RequestAssumption
<1>5. Start(r) < Len(r)
  <2>1. CASE Start(r) > 2
    BY <1>4, <2>1
  <2>2. CASE Start(r) = 2
    <3>1. Len(r) > 2
      BY <1>1
    <3> QED BY <2>2, <3>1
  <2> QED BY <1>3, <2>1, <2>2
<1>6. Start(r) \in Nat /\ Start(r) >= 2
  BY <1>3
<1> QED BY <1>1, <1>2, <1>5, <1>6

(* A read takes at least one character and none that has not arrived.      *)
LEMMA Taking ==
    ASSUME Shaped, NEW k \in Nat \ {0}, Take(k), Available > 0
    PROVE  /\ taken' \in 0 .. arrived /\ taken' > taken
           /\ k = 1 => taken' = taken + 1
           /\ stream \in Text /\ taken + 1 \in 1 .. Len(stream) /\ Next1 \in Char
<1>1. /\ arrived \in 0 .. Len(stream) /\ taken \in 0 .. arrived /\ Len(stream) \in Nat
      /\ stream \in Text /\ \A i \in 1 .. Len(stream) : stream[i] \in Char
  BY Streams DEF Shaped, TypeOK
<1> QED BY <1>1 DEF Take, Available, Next1

LEMMA ShapedInit == Init => Shaped
<1> SUFFICES ASSUME Init PROVE Shaped
  OBVIOUS
<1>1. Len(stream) \in Nat
  BY Streams DEF Init
<1> QED BY <1>1, Settings DEF Init, Shaped, TypeOK, Answers, Statuses

LEMMA Typed ==
    ASSUME NEW name
    PROVE  ContentType(name) \in {"none", "text/html", "application/octet-stream"}
                                   \cup {Types[e] : e \in DOMAIN Types}
<1> DEFINE extension == SubSeq(name, SelectInSeq(name, LAMBDA c : c = ".") + 1, Len(name))
<1> HIDE DEF extension
<1>1. ContentType(name) =
        IF name = << >> THEN "text/html"
        ELSE IF "." \in ToSet(name) /\ extension \in DOMAIN Types THEN Types[extension]
        ELSE "application/octet-stream"
  BY DEF ContentType, extension
<1> QED BY <1>1

LEMMA ShapedNext == Shaped /\ [Next]_vars => Shaped'
<1> SUFFICES ASSUME Shaped, [Next]_vars PROVE Shaped'
  OBVIOUS
<1> DEFINE types == {"none", "text/html", "application/octet-stream"} \cup {Types[e] : e \in DOMAIN Types}
<1>0. /\ stream \in Requests /\ Len(stream) \in Nat
      /\ arrived \in 0 .. Len(stream) /\ taken \in 0 .. arrived /\ Available = arrived - taken
      /\ type \in types /\ skip \in Nat /\ Len(buffer) \in Nat /\ maxlen \in Nat /\ buffer \in Text
  <2>1. Len(buffer) \in Nat
    BY LenProperties DEF Shaped, Text
  <2>2. skip \in Nat
    BY DEF Shaped, TypeOK
  <2> QED BY <2>1, <2>2, Streams DEF Shaped, TypeOK, Available
<1> HIDE DEF types
<1>1. CASE UNCHANGED vars
  BY <1>1 DEF vars, netVars, pathVars, Shaped, TypeOK
<1>2. CASE Arrive
  BY <1>0, <1>2 DEF Arrive, pathVars, Shaped, TypeOK
<1>3. CASE HangUp
  BY <1>0, <1>3 DEF HangUp, pathVars, Shaped, TypeOK
<1>4. CASE ReadMethod
  <2>1. taken' \in 0 .. arrived
    BY <1>4, Taking DEF ReadMethod
  <2>2. skip' \in {0, 3, 4}
    BY <1>4 DEF ReadMethod, Skip
  <2> QED BY <1>4, <2>1, <2>2 DEF ReadMethod, Answer, Answers, netVars, pathVars, Shaped, TypeOK
<1>5. CASE NoMethod
  BY <1>5 DEF NoMethod, netVars, pathVars, Shaped, TypeOK
<1>6. CASE MethodStatus
  BY <1>6 DEF MethodStatus, Answer, Answers, netVars, pathVars, Shaped, TypeOK
<1>7. CASE SkipMethod
  <2>1. taken' \in 0 .. arrived
    BY <1>0, <1>7 DEF SkipMethod, Take
  <2>2. begin' \in 0 .. Len(stream)
    BY <1>0, <1>7, <2>1 DEF SkipMethod
  <2> QED BY <1>7, <2>1, <2>2 DEF SkipMethod, netVars, pathVars, Shaped, TypeOK
<1>8. CASE NoSkip
  BY <1>8 DEF NoSkip, netVars, pathVars, Shaped, TypeOK
<1>9. CASE SkipStatus
  BY <1>0, <1>9 DEF SkipStatus, netVars, pathVars, Shaped, TypeOK
<1>10. CASE ReadChar
  <2>1. taken' \in 0 .. arrived /\ Next1 \in Char
    BY <1>10, Taking DEF ReadChar
  <2>2. status' \in Statuses
    BY <1>10 DEF ReadChar, StatusOf, Shaped, TypeOK, Statuses
  <2>3. /\ buffer' \in Text /\ maxlen' \in Nat /\ Len(buffer') + maxlen' = Len(buffer) + maxlen
        /\ pc' \in {"word", "path"}
    <3> DEFINE longer == Append(buffer, Next1)
    <3>1. longer \in Text /\ Len(longer) = Len(buffer) + 1
      BY <1>0, <2>1, AppendProperties DEF Text
    <3>2. \/ pc' = "word" /\ buffer' = buffer /\ maxlen' = maxlen
          \/ /\ buffer' = longer /\ maxlen' = maxlen - 1
             /\ pc' = "path" /\ maxlen # 0
      BY <1>10 DEF ReadChar
    <3> HIDE DEF longer
    <3> QED BY <1>0, <3>1, <3>2
  <2> QED BY <1>10, <2>1, <2>2, <2>3 DEF ReadChar, netVars, Shaped, TypeOK
<1>11. CASE NoChar
  BY <1>11 DEF NoChar, netVars, pathVars, Shaped, TypeOK
<1>12. CASE PathStatus
  BY <1>12 DEF PathStatus, Statuses, netVars, Shaped, TypeOK
<1>13. CASE Delegate
  <2>1. /\ buffer' \in Text /\ maxlen' \in Nat
        /\ Len(buffer') + maxlen' \in {HTTPD_FILENAME_MAX_LENGTH, MMC_PATH_MAX}
    <3>1. Len(buffer) + maxlen \in {HTTPD_FILENAME_MAX_LENGTH, MMC_PATH_MAX}
      BY DEF Shaped, TypeOK
    <3>2. CASE buffer = CGI_BIN
      BY <1>0, <1>13, <3>1, <3>2 DEF Delegate
    <3>3. CASE buffer # CGI_BIN
      BY <1>13, <3>3, Settings DEF Delegate
    <3> QED BY <3>2, <3>3
  <2>2. answer' \in Answers /\ pc' \in {"done", "mmc"}
    BY <1>13 DEF Delegate, Answers, Shaped, TypeOK
  <2> QED BY <1>13, <2>1, <2>2 DEF Delegate, netVars, Shaped, TypeOK
<1>14. CASE OpenDirectory
  BY <1>14, Settings DEF OpenDirectory, NextWord, netVars, Shaped, TypeOK
<1>15. CASE NoDirectory
  BY <1>15 DEF NoDirectory, Answer, Answers, netVars, pathVars, Shaped, TypeOK
<1>16. CASE EndOfPath
  BY <1>16 DEF EndOfPath, Statuses, netVars, Shaped, TypeOK
<1>17. CASE DropWord
  BY <1>17, Settings DEF DropWord, NextWord, netVars, Shaped, TypeOK
<1>18. CASE OpenFile
  <2>1. ASSUME NEW node \in DOMAIN Tree, NEW line \in {"200", "200 gzip"}, Found(node, line)
        PROVE  filenode' \in DOMAIN Tree /\ type' \in types /\ answer' \in Answers /\ pc' = "done"
    <3>1. ContentType(buffer) \in types
      BY Typed DEF types
    <3> QED BY <1>0, <2>1, <3>1 DEF Found, Answer, Answers, Shaped, TypeOK
  <2>2. filenode' \in DOMAIN Tree /\ type' \in types /\ answer' \in Answers /\ pc' \in {"done", "overrun"}
    <3>1. UNCHANGED << filenode, type >> => filenode' \in DOMAIN Tree /\ type' \in types
      BY <1>0 DEF Shaped, TypeOK
    <3>2. Answer("404") => answer' \in Answers /\ pc' = "done"
      BY DEF Answer, Answers
    <3>3. answer \in Answers
      BY DEF Shaped, TypeOK
    <3> QED BY <1>18, <2>1, <3>1, <3>2, <3>3 DEF OpenFile
  <2> QED BY <1>18, <2>2 DEF OpenFile, netVars, pathVars, Shaped, TypeOK, types
<1>19. CASE MmcChar
  <2>1. taken' \in 0 .. arrived /\ Next1 \in Char
    <3>1. Take(1) /\ Available > 0
      BY <1>19 DEF MmcChar
    <3> QED BY <3>1, Taking
  <2>2. /\ buffer' \in Text /\ maxlen' \in Nat /\ Len(buffer') + maxlen' = Len(buffer) + maxlen
        /\ pc' \in {"mmcOpen", "mmc"}
    <3> DEFINE longer == Append(buffer, Next1)
    <3>1. longer \in Text /\ Len(longer) = Len(buffer) + 1
      BY <1>0, <2>1, AppendProperties DEF Text
    <3>2. \/ pc' = "mmcOpen" /\ buffer' = buffer /\ maxlen' = maxlen
          \/ /\ buffer' = longer /\ maxlen' = maxlen - 1
             /\ pc' = "mmc" /\ maxlen # 0
      BY <1>19 DEF MmcChar
    <3> HIDE DEF longer
    <3> QED BY <1>0, <3>1, <3>2
  <2> QED BY <1>19, <2>1, <2>2 DEF MmcChar, netVars, Shaped, TypeOK
<1>20. CASE MmcNoChar
  BY <1>20 DEF MmcNoChar, netVars, pathVars, Shaped, TypeOK
<1>21. CASE MmcStatus
  BY <1>21 DEF MmcStatus, netVars, pathVars, Shaped, TypeOK
<1>22. CASE MmcOpen
  <2>1. ContentType(buffer) \in types
    BY Typed DEF types
  <2>2. answer' \in Answers /\ pc' = "done" /\ type' \in types
    BY <1>0, <1>22, <2>1 DEF MmcOpen, Answer, Answers
  <2> QED BY <1>22, <2>2 DEF MmcOpen, netVars, pathVars, Shaped, TypeOK, types
<1> QED BY <1>1, <1>2, <1>3, <1>4, <1>5, <1>6, <1>7, <1>8, <1>9, <1>10, <1>11, <1>12, <1>13, <1>14,
           <1>15, <1>16, <1>17, <1>18, <1>19, <1>20, <1>21, <1>22 DEF Next, Server

(* The variables have their types, for any requests and any tree (httpd.c, *)
(* romfs.c).                                                               *)
THEOREM TypeCorrect == Spec => []TypeOK
<1>1. Shaped => TypeOK
  BY DEF Shaped
<1> QED BY ShapedInit, ShapedNext, <1>1, PTL DEF Spec
-----------------------------------------------------------------------------
(* Every non-empty set of natural numbers has a least one.  Proofs about   *)
(* recursive functions take the least counterexample.                      *)
LEMMA LeastNumber ==
    ASSUME NEW T, T \subseteq Nat, T # {}
    PROVE  \E m \in T : \A k \in T : m <= k
<1>1. \E m \in T : \A k \in T : ~ (<< k, m >> \in OpToRel(<, Nat))
  BY WFMin, NatLessThanWellFounded, Zenon
<1>2. PICK m \in T : \A k \in T : ~ (<< k, m >> \in OpToRel(<, Nat))
  BY <1>1
<1>3. ASSUME NEW k \in T PROVE m <= k
  <2>1. ~(k < m)
    BY <1>2, <1>3 DEF OpToRel
  <2> QED BY <2>1
<1> QED BY <1>3

(* FlattenSeq() is the last value of a recursive function.                 *)
FlatStep(f, s, i) == IF i = 1 THEN s[i] ELSE f[i - 1] \o s[i]
Flattens(f, s, n) == f = [i \in 1 .. n |-> FlatStep(f, s, i)]

LEMMA FlattenExists ==
    ASSUME NEW s, NEW N \in Nat
    PROVE  \E f : Flattens(f, s, N)
<1> DEFINE T == {n \in Nat : ~ \E f : Flattens(f, s, n)}
<1>1. SUFFICES ASSUME T # {} PROVE FALSE
  OBVIOUS
<1>2. PICK m \in T : \A k \in T : m <= k
  BY <1>1, LeastNumber
<1>3. CASE m = 0
  <2>1. Flattens(<< >>, s, 0)
    BY DEF Flattens
  <2> QED BY <1>2, <1>3, <2>1
<1>4. CASE m # 0
  <2>1. m - 1 \in Nat /\ m - 1 \notin T
    BY <1>2, <1>4
  <2>2. PICK f : Flattens(f, s, m - 1)
    BY <2>1
  <2> DEFINE last == IF m = 1 THEN s[m] ELSE f[m - 1] \o s[m]
             g == [i \in 1 .. m |-> IF i = m THEN last ELSE f[i]]
  <2>3. \A i \in 1 .. m : g[i] = FlatStep(g, s, i)
    <3> TAKE i \in 1 .. m
    <3>1. CASE i = m
      BY <3>1, <1>4 DEF FlatStep
    <3>2. CASE i # m
      <4>1. i \in 1 .. m - 1 /\ (i = 1 \/ i - 1 \in 1 .. m - 1)
        BY <3>2, <1>2
      <4>2. f[i] = FlatStep(f, s, i)
        BY <4>1, <2>2 DEF Flattens
      <4>3. g[i] = f[i]
        BY <3>2
      <4>4. i = 1 \/ g[i - 1] = f[i - 1]
        BY <4>1
      <4> QED BY <4>1, <4>2, <4>3, <4>4 DEF FlatStep
    <3> QED BY <3>1, <3>2
  <2>4. g = [i \in 1 .. m |-> FlatStep(g, s, i)]
    BY <2>3
  <2>5. Flattens(g, s, m)
    BY <2>4 DEF Flattens
  <2> QED BY <1>2, <2>5
<1> QED BY <1>3, <1>4

LEMMA FlattenAgrees ==
    ASSUME NEW f, NEW s, NEW N \in Nat, Flattens(f, s, N),
           NEW g, NEW t, NEW M \in Nat, Flattens(g, t, M),
           NEW K \in Nat, K <= N, K <= M, \A i \in 1 .. K : s[i] = t[i]
    PROVE  \A i \in 1 .. K : f[i] = g[i]
<1> DEFINE T == {i \in 1 .. K : f[i] # g[i]}
<1>1. SUFFICES ASSUME T # {} PROVE FALSE
  OBVIOUS
<1>2. PICK m \in T : \A k \in T : m <= k
  <2>1. T \subseteq Nat
    OBVIOUS
  <2> QED BY <1>1, <2>1, LeastNumber
<1>3. m \in 1 .. K /\ m \in 1 .. N /\ m \in 1 .. M /\ s[m] = t[m] /\ f[m] # g[m]
  OBVIOUS
<1>4. f[m] = FlatStep(f, s, m) /\ g[m] = FlatStep(g, t, m)
  BY <1>3 DEF Flattens
<1>5. m = 1 \/ f[m - 1] = g[m - 1]
  <2>1. m = 1 \/ m - 1 \in (1 .. K) \ T
    BY <1>2, <1>3
  <2> QED BY <2>1
<1> QED BY <1>3, <1>4, <1>5 DEF FlatStep

LEMMA FlattenIs ==
    ASSUME NEW s, Len(s) \in Nat \ {0}
    PROVE  \E f : Flattens(f, s, Len(s)) /\ FlattenSeq(s) = f[Len(s)]
<1> DEFINE flatten == CHOOSE f : f = [i \in 1 .. Len(s) |-> IF i = 1 THEN s[i] ELSE f[i - 1] \o s[i]]
<1>1. PICK f : Flattens(f, s, Len(s))
  BY FlattenExists
<1>2. f = [i \in 1 .. Len(s) |-> IF i = 1 THEN s[i] ELSE f[i - 1] \o s[i]]
  BY <1>1 DEF Flattens, FlatStep
<1>3. flatten = [i \in 1 .. Len(s) |-> IF i = 1 THEN s[i] ELSE flatten[i - 1] \o s[i]]
  BY <1>2
<1>4. Flattens(flatten, s, Len(s))
  BY <1>3 DEF Flattens, FlatStep
<1>5. FlattenSeq(s) = flatten[Len(s)]
  BY DEF FlattenSeq
<1> QED BY <1>4, <1>5

LEMMA FlattenOne ==
    ASSUME NEW s, Len(s) = 1
    PROVE  FlattenSeq(s) = s[1]
<1>0. Len(s) \in Nat \ {0}
  OBVIOUS
<1>1. PICK f : Flattens(f, s, Len(s)) /\ FlattenSeq(s) = f[Len(s)]
  BY <1>0, FlattenIs, Zenon
<1>2. f[1] = FlatStep(f, s, 1)
  BY <1>1 DEF Flattens
<1> QED BY <1>1, <1>2 DEF FlatStep

LEMMA FlattenMore ==
    ASSUME NEW s, NEW t, Len(s) \in Nat \ {0}, Len(t) = Len(s) + 1,
           \A i \in 1 .. Len(s) : s[i] = t[i]
    PROVE  FlattenSeq(t) = FlattenSeq(s) \o t[Len(t)]
<1>1. PICK f : Flattens(f, s, Len(s)) /\ FlattenSeq(s) = f[Len(s)]
  BY FlattenIs
<1>2. PICK g : Flattens(g, t, Len(t)) /\ FlattenSeq(t) = g[Len(t)]
  BY FlattenIs
<1>3. f[Len(s)] = g[Len(s)]
  BY <1>1, <1>2, FlattenAgrees
<1>4. g[Len(t)] = g[Len(s)] \o t[Len(t)]
  <2>1. g[Len(t)] = FlatStep(g, t, Len(t))
    BY <1>2 DEF Flattens
  <2>2. Len(t) # 1 /\ Len(t) - 1 = Len(s)
    OBVIOUS
  <2> QED BY <2>1, <2>2, Zenon DEF FlatStep
<1> QED BY <1>1, <1>2, <1>3, <1>4
-----------------------------------------------------------------------------
(* The URL of a path: behind the URL of a directory and a slash comes the  *)
(* name of the entry.                                                      *)
Above(path) == IF path = << >> THEN << >> ELSE UrlOf(path) \o << "/" >>
Parts(path) == [k \in DOMAIN path |-> IF k = 1 THEN path[k] ELSE << "/" >> \o path[k]]

LEMMA PartsAre ==
    ASSUME NEW path \in Paths
    PROVE  /\ UrlOf(path) = FlattenSeq(Parts(path))
           /\ Parts(path) \in Paths /\ Len(Parts(path)) = Len(path)
<1>1. UrlOf(path) = FlattenSeq(Parts(path))
  BY DEF UrlOf, Parts
<1>2. Len(path) \in Nat /\ DOMAIN path = 1 .. Len(path) /\ \A k \in 1 .. Len(path) : path[k] \in Text
  BY LenProperties, ElementOfSeq DEF Paths
<1>3. \A k \in 1 .. Len(path) : Parts(path)[k] \in Text
  <2> TAKE k \in 1 .. Len(path)
  <2>1. << "/" >> \in Text
    BY Strings
  <2>2. << "/" >> \o path[k] \in Text
    BY <1>2, <2>1, ConcatProperties DEF Text
  <2> QED BY <1>2, <2>2 DEF Parts
<1>4. Parts(path) \in [1 .. Len(path) -> Text]
  BY <1>2, <1>3 DEF Parts
<1> QED BY <1>1, <1>2, <1>4 DEF Paths

LEMMA UrlOfEntry ==
    ASSUME NEW path \in Paths, NEW name \in Text
    PROVE  UrlOf(Append(path, name)) = IF path = << >> THEN name
                                       ELSE UrlOf(path) \o (<< "/" >> \o name)
<1> DEFINE entry == Append(path, name)
<1>1. /\ entry \in Paths /\ Len(entry) = Len(path) + 1 /\ Len(path) \in Nat
      /\ \A k \in 1 .. Len(path) : entry[k] = path[k]
      /\ entry[Len(path) + 1] = name
      /\ DOMAIN path = 1 .. Len(path) /\ DOMAIN entry = 1 .. Len(path) + 1
  BY AppendProperties, LenProperties DEF Paths
<1> HIDE DEF entry
<1>2. /\ UrlOf(entry) = FlattenSeq(Parts(entry)) /\ Len(Parts(entry)) = Len(path) + 1
      /\ UrlOf(path) = FlattenSeq(Parts(path)) /\ Len(Parts(path)) = Len(path)
  BY <1>1, PartsAre
<1>3. Parts(entry)[Len(path) + 1] = IF Len(path) = 0 THEN name ELSE << "/" >> \o name
  BY <1>1 DEF Parts
<1>4. CASE path = << >>
  <2>1. Len(Parts(entry)) = 1 /\ Parts(entry)[1] = name
    BY <1>1, <1>2, <1>3, <1>4
  <2>2. FlattenSeq(Parts(entry)) = name
    BY <2>1, FlattenOne
  <2> QED BY <1>2, <1>4, <2>2 DEF entry
<1>5. CASE path # << >>
  <2>1. Len(path) \in Nat \ {0}
    BY <1>5, EmptySeq DEF Paths
  <2>2. \A k \in 1 .. Len(path) : Parts(path)[k] = Parts(entry)[k]
    BY <1>1 DEF Parts
  <2>3. FlattenSeq(Parts(entry)) = FlattenSeq(Parts(path)) \o Parts(entry)[Len(path) + 1]
    BY <1>2, <2>1, <2>2, FlattenMore
  <2> QED BY <1>2, <1>3, <1>5, <2>1, <2>3 DEF entry
<1> QED BY <1>4, <1>5

LEMMA UrlIsText ==
    ASSUME NEW path \in Paths
    PROVE  UrlOf(path) \in Text
<1> DEFINE T == {n \in Nat : \E p \in Paths : Len(p) = n /\ UrlOf(p) \notin Text}
<1>1. SUFFICES ASSUME UrlOf(path) \notin Text PROVE FALSE
  OBVIOUS
<1>2. Len(path) \in T
  BY <1>1, LenProperties DEF Paths
<1>3. PICK m \in T : \A k \in T : m <= k
  <2>1. T \subseteq Nat /\ T # {}
    BY <1>2
  <2> HIDE DEF T
  <2> QED BY <2>1, LeastNumber
<1>4. PICK p \in Paths : Len(p) = m /\ UrlOf(p) \notin Text
  OBVIOUS
<1>5. CASE p = << >>
  <2>1. Parts(p) = << >> /\ Len(Parts(p)) = 0
    BY <1>5 DEF Parts
  <2>2. UrlOf(p) = << >>
    BY <2>1, PartsAre DEF FlattenSeq
  <2> QED BY <1>4, <2>2, Strings
<1>6. CASE p # << >>
  <2>1. PICK q \in Paths, name \in Text : p = Append(q, name)
    BY <1>6, SequenceEmptyOrAppend DEF Paths
  <2>2. Len(q) \in Nat /\ Len(p) = Len(q) + 1
    BY <2>1, AppendProperties, LenProperties DEF Paths
  <2>3. UrlOf(q) \in Text
    BY <1>3, <1>4, <2>2
  <2>4. UrlOf(q) \o (<< "/" >> \o name) \in Text
    BY <2>1, <2>3, Strings, ConcatProperties DEF Text
  <2> QED BY <1>4, <2>1, <2>4, UrlOfEntry
<1> QED BY <1>5, <1>6

LEMMA AboveEntry ==
    ASSUME NEW path \in Paths, NEW name \in Text
    PROVE  /\ Append(path, name) \in Paths
           /\ UrlOf(Append(path, name)) = Above(path) \o name
           /\ Above(Append(path, name)) = (Above(path) \o name) \o << "/" >>
           /\ Above(path) \in Text
<1>1. Append(path, name) \in Paths /\ Append(path, name) # << >>
  BY AppendProperties DEF Paths
<1>2. UrlOf(path) \in Text /\ << "/" >> \in Text
  BY UrlIsText, Strings
<1>3. Above(path) \in Text
  <2>1. UrlOf(path) \o << "/" >> \in Text
    BY <1>2, ConcatProperties DEF Text
  <2> QED BY <2>1, Strings DEF Above
<1>4. UrlOf(Append(path, name)) = Above(path) \o name
  <2>1. CASE path = << >>
    BY <2>1, UrlOfEntry, ConcatEmptySeq DEF Above, Text
  <2>2. CASE path # << >>
    <3>1. (UrlOf(path) \o << "/" >>) \o name = UrlOf(path) \o (<< "/" >> \o name)
      BY <1>2, Associates
    <3> QED BY <2>2, <3>1, UrlOfEntry DEF Above
  <2> QED BY <2>1, <2>2
<1>5. Above(Append(path, name)) = UrlOf(Append(path, name)) \o << "/" >>
  BY <1>1 DEF Above
<1> QED BY <1>1, <1>3, <1>4, <1>5
-----------------------------------------------------------------------------
(* Pieces of a text.                                                       *)
LEMMA Slice ==
    ASSUME NEW t \in Text, NEW a \in Nat \ {0}, NEW b \in Int, b <= Len(t)
    PROVE  /\ SubSeq(t, a, b) \in Text
           /\ Len(SubSeq(t, a, b)) = IF a <= b THEN b - a + 1 ELSE 0
           /\ \A i \in 1 .. (b - a + 1) : SubSeq(t, a, b)[i] = t[a + i - 1]
<1>1. \A i \in a .. b : t[i] \in Char
  <2> TAKE i \in a .. b
  <2>1. i \in 1 .. Len(t)
    BY LenProperties DEF Text
  <2> QED BY <2>1, ElementOfSeq DEF Text
<1> QED BY <1>1, SubSeqProperties DEF Text

LEMMA SliceOfSlice ==
    ASSUME NEW t \in Text, NEW a \in Nat \ {0}, NEW n \in Nat, (a + n) - 1 <= Len(t)
    PROVE  SubSeq(SubSeq(t, a, Len(t)), 1, n) = SubSeq(t, a, (a + n) - 1)
<1> DEFINE w == SubSeq(t, a, Len(t))
           u == SubSeq(w, 1, n)
           v == SubSeq(t, a, (a + n) - 1)
<1>1. Len(t) \in Nat
  BY LenProperties DEF Text
<1>2. /\ w \in Text /\ Len(w) = IF a <= Len(t) THEN Len(t) - a + 1 ELSE 0
      /\ \A i \in 1 .. (Len(t) - a + 1) : w[i] = t[a + i - 1]
  BY <1>1, Slice
<1>3. v \in Text /\ Len(v) = n /\ \A i \in 1 .. n : v[i] = t[a + i - 1]
  <2> DEFINE b == (a + n) - 1
  <2>1. b \in Int /\ b <= Len(t) /\ b - a + 1 = n /\ (n = 0 <=> ~ (a <= b))
    OBVIOUS
  <2> HIDE DEF b
  <2>2. /\ SubSeq(t, a, b) \in Text
        /\ Len(SubSeq(t, a, b)) = IF a <= b THEN b - a + 1 ELSE 0
        /\ \A i \in 1 .. (b - a + 1) : SubSeq(t, a, b)[i] = t[a + i - 1]
    BY <2>1, Slice
  <2>3. v = SubSeq(t, a, b)
    BY DEF b
  <2> HIDE DEF v
  <2> QED BY <2>1, <2>2, <2>3
<1> HIDE DEF w, v
<1>4. n <= Len(w) /\ \A i \in 1 .. n : i \in 1 .. (Len(t) - a + 1)
  BY <1>1, <1>2
<1>5. u \in Text /\ Len(u) = n /\ \A i \in 1 .. n : u[i] = w[i]
  <2>1. /\ u \in Text /\ Len(u) = IF 1 <= n THEN n - 1 + 1 ELSE 0
        /\ \A i \in 1 .. (n - 1 + 1) : u[i] = w[1 + i - 1]
    BY <1>2, <1>4, Slice
  <2>2. n - 1 + 1 = n /\ \A i \in 1 .. n : 1 + i - 1 = i
    OBVIOUS
  <2> HIDE DEF u
  <2> QED BY <2>1, <2>2
<1> HIDE DEF u
<1>6. \A i \in 1 .. n : u[i] = v[i]
  BY <1>2, <1>3, <1>4, <1>5
<1>7. u = v
  BY <1>3, <1>5, <1>6, SeqEqual DEF Text
<1> QED BY <1>7 DEF u, v, w

(* The URL ends before the first space or question mark.                   *)
End == {" ", "?"}
UpTo(t) == SubSeq(t, 1, SelectInSeq(t, LAMBDA c : c \in {" ", "?"}) - 1)

LEMMA FirstEnd ==
    ASSUME NEW t \in Text, NEW last \in 1 .. Len(t), t[last] \in End
    PROVE  \E m \in 1 .. Len(t) : /\ t[m] \in End
                                  /\ \A k \in 1 .. m - 1 : t[k] \notin End
                                  /\ UpTo(t) = SubSeq(t, 1, m - 1)
<1> DEFINE I == {i \in 1 .. Len(t) : t[i] \in End}
<1>1. I \subseteq Nat /\ I # {}
  OBVIOUS
<1>2. PICK m \in I : \A k \in I : m <= k
  <2> HIDE DEF I
  <2> QED BY <1>1, LeastNumber
<1>3. Min(I) = m
  <2> HIDE DEF I
  <2>1. Min(I) \in I /\ \A k \in I : Min(I) <= k
    BY <1>2 DEF Min
  <2>2. Min(I) <= m /\ m <= Min(I) /\ m \in Nat /\ Min(I) \in Nat
    BY <1>1, <1>2, <2>1
  <2> QED BY <2>2
<1>4. SelectInSeq(t, LAMBDA c : c \in {" ", "?"}) = Min(I)
  BY <1>1 DEF SelectInSeq, End
<1>5. \A k \in 1 .. m - 1 : t[k] \notin End
  BY <1>1, <1>2
<1> QED BY <1>3, <1>4, <1>5 DEF UpTo

LEMMA EndBehind ==
    ASSUME NEW t \in Text, NEW s \in Nat, s < Len(t), t[Len(t)] \in End
    PROVE  \E e \in (s + 1) .. Len(t) :
              /\ t[e] \in End
              /\ \A k \in (s + 1) .. (e - 1) : t[k] \notin End
              /\ UpTo(SubSeq(t, s + 1, Len(t))) = SubSeq(t, s + 1, e - 1)
<1>1. Len(t) \in Nat
  BY LenProperties DEF Text
<1> DEFINE after == SubSeq(t, s + 1, Len(t))
<1>3. /\ after \in Text /\ Len(after) = Len(t) - s
      /\ \A i \in 1 .. Len(after) : after[i] = t[s + i]
  <2>1. s + 1 \in Nat \ {0} /\ s + 1 <= Len(t) /\ Len(t) - (s + 1) + 1 = Len(t) - s
    BY <1>1
  <2>2. /\ after \in Text /\ Len(after) = Len(t) - (s + 1) + 1
        /\ \A i \in 1 .. (Len(t) - (s + 1) + 1) : after[i] = t[(s + 1) + i - 1]
    BY <1>1, <2>1, Slice
  <2>3. \A i \in 1 .. Len(t) - s : (s + 1) + i - 1 = s + i
    BY <1>1
  <2> HIDE DEF after
  <2> QED BY <2>1, <2>2, <2>3
<1>4. Len(after) \in 1 .. Len(after) /\ after[Len(after)] \in End
  <2> HIDE DEF after
  <2>1. Len(after) \in 1 .. Len(after) /\ s + Len(after) = Len(t)
    BY <1>1, <1>3
  <2> QED BY <1>1, <1>3, <2>1 DEF End
<1>5. PICK m \in 1 .. Len(after) : /\ after[m] \in End
                                   /\ \A k \in 1 .. m - 1 : after[k] \notin End
                                   /\ UpTo(after) = SubSeq(after, 1, m - 1)
  <2> HIDE DEF after
  <2> QED BY <1>3, <1>4, FirstEnd
<1>6. SubSeq(after, 1, m - 1) = SubSeq(t, s + 1, (s + m) - 1)
  <2>1. s + 1 \in Nat \ {0} /\ m - 1 \in Nat /\ ((s + 1) + (m - 1)) - 1 = (s + m) - 1 /\ (s + m) - 1 <= Len(t)
    BY <1>1, <1>3
  <2> QED BY <1>1, <2>1, SliceOfSlice
<1>7. s + m \in (s + 1) .. Len(t) /\ t[s + m] \in End
  <2> HIDE DEF after
  <2> QED BY <1>1, <1>3, <1>5
<1>8. ASSUME NEW k \in (s + 1) .. ((s + m) - 1) PROVE t[k] \notin End
  <2> HIDE DEF after
  <2>1. k - s \in 1 .. m - 1 /\ k - s \in 1 .. Len(after) /\ s + (k - s) = k
    BY <1>1, <1>3
  <2> QED BY <1>3, <1>5, <2>1
<1>9. (s + m) - 1 = s + m - 1
  OBVIOUS
<1> QED BY <1>5, <1>6, <1>7, <1>8, <1>9

LEMMA UrlEnds ==
    ASSUME Shaped
    PROVE  \E e \in (Start(stream) + 1) .. Len(stream) :
              /\ stream[e] \in End
              /\ \A k \in (Start(stream) + 1) .. (e - 1) : stream[k] \notin End
              /\ Url = SubSeq(stream, Start(stream) + 1, e - 1)
<1>1. /\ stream \in Text /\ stream[Len(stream)] \in End
      /\ Start(stream) \in Nat /\ Start(stream) < Len(stream)
  BY Streams DEF Shaped, TypeOK, End
<1>2. Url = UpTo(SubSeq(stream, Start(stream) + 1, Len(stream)))
  BY DEF Url, UpTo
<1> QED BY <1>1, <1>2, EndBehind
-----------------------------------------------------------------------------
(* What has been read of the URL, up to the word's separator.              *)
Upto == IF pc \in {"word", "file", "mmcOpen"} THEN taken - 1 ELSE taken
Got == SubSeq(stream, begin + 1, Upto)

InPath == pc \in {"path", "pathStatus", "word", "file"}
InMmc == pc \in {"mmc", "mmcStatus", "mmcOpen"}

StartInv ==
    /\ pc \in {"method", "methodStatus", "skip", "skipStatus"} =>
          buffer = << >> /\ dirnode = << >> /\ maxlen = HTTPD_FILENAME_MAX_LENGTH
    /\ answer # "none" \/ type # "none" => pc = "done"

(* While the connection is open, the end of the URL is not behind the      *)
(* program, and the status of a word is that of its separator.             *)
GotInv ==
    open /\ (InPath \/ InMmc) =>
        /\ begin <= Upto
        /\ \A i \in (begin + 1) .. Upto : stream[i] \notin End
        /\ pc = "word" => status = StatusOf(stream[taken])

(* The buffer holds the last characters read; on the card, those behind    *)
(* the name mmc.                                                           *)
WordInv ==
    open =>
        /\ InPath => \E x \in Text : Got = x \o buffer
        /\ InMmc => \E x \in Text : Got = (x \o (MMC \o << "/" >>)) \o buffer

(* With a plain URL, what was read is the way to the directory reached,    *)
(* and the buffer.                                                         *)
Plain == open /\ FromStart /\ PlainUrl /\ InPath

PlainInv ==
    Plain =>
        /\ Got = Above(dirnode) \o buffer
        /\ NoSlash(buffer)
        /\ Len(buffer) + maxlen = HTTPD_FILENAME_MAX_LENGTH
        /\ pc = "word" => stream[taken] \in {"/"} \cup End
        /\ pc = "file" => stream[taken] \in End

(* Every entry that the URL names, compressed or not, lies below that      *)
(* directory.                                                              *)
Named(p) == p \in DOMAIN Tree \ {<< >>} /\ UrlOf(p) \in {Url, Url \o GZ}
Below(p, d) == Len(d) < Len(p) /\ SubSeq(p, 1, Len(d)) = d

PathsInv == Plain => \A p \in DOMAIN Tree : Named(p) => Below(p, dirnode)

(* The kinds of steps on the way through the URL.                          *)
Enters ==
    /\ pc' = "path" /\ begin' = taken' /\ stream' = stream
    /\ taken' \in 0 .. Len(stream)
    /\ buffer' = << >> /\ dirnode' = << >> /\ maxlen' = HTTPD_FILENAME_MAX_LENGTH

Ends ==
    /\ pc = "path" /\ pc' = "word" /\ taken' = taken + 1 /\ taken' \in 1 .. Len(stream)
    /\ status' = StatusOf(stream[taken'])
    /\ stream[taken'] \in Separators \/ maxlen = 0

Stays ==
    /\ UNCHANGED << stream, begin, Upto, buffer, dirnode, maxlen >> /\ open
    /\ (InPath' <=> InPath) /\ (InMmc' <=> InMmc)
    /\ \/ Ends
       \/ pc' # "word"
       \/ pc = "word" /\ UNCHANGED << taken, status >>
    /\ pc' = "file" =>
          UNCHANGED taken /\ (pc = "file" \/ (pc = "word" /\ status \in {"DONE", "QUERY_STRING"}))

ReadsOne ==
    /\ pc \in {"path", "mmc"} /\ pc' = pc /\ UNCHANGED << stream, begin, dirnode, open >> /\ open
    /\ Upto' = Upto + 1 /\ Upto' \in 1 .. Len(stream)
    /\ buffer' = Append(buffer, stream[Upto']) /\ maxlen # 0 /\ maxlen' = maxlen - 1
    /\ stream[Upto'] \notin IF pc = "path" THEN Separators ELSE End

GoesOn ==
    /\ pc = "word" /\ UNCHANGED << stream, begin, open >> /\ open
    /\ taken' = taken /\ Upto' = Upto + 1 /\ Upto' = taken /\ taken \in 1 .. Len(stream)
    /\ buffer' = << >>

Opens ==
    /\ GoesOn /\ pc' = "path" /\ stream[taken] = "/"
    /\ Entry \in DOMAIN Tree /\ Tree[Entry] = "dir"
    /\ dirnode' = Entry /\ maxlen' = HTTPD_FILENAME_MAX_LENGTH

Drops ==
    /\ GoesOn /\ pc' = "path" /\ stream[taken] \in {"&", "="}
    /\ dirnode' = dirnode /\ maxlen' = HTTPD_FILENAME_MAX_LENGTH

ToCard == GoesOn /\ pc' = "mmc" /\ stream[taken] = "/" /\ buffer = MMC

LEMMA StartNext == Shaped /\ StartInv /\ [Next]_vars => StartInv'
<1> SUFFICES ASSUME Shaped, StartInv, [Next]_vars PROVE StartInv'
  OBVIOUS
<1>1. CASE UNCHANGED vars
  BY <1>1 DEF vars, netVars, pathVars, StartInv
<1>2. CASE Arrive \/ HangUp
  BY <1>2 DEF Arrive, HangUp, netVars, pathVars, StartInv
<1>3. CASE ReadMethod \/ NoMethod \/ MethodStatus
  BY <1>3 DEF ReadMethod, NoMethod, MethodStatus, Answer, netVars, pathVars, StartInv
<1>4. CASE SkipMethod \/ NoSkip \/ SkipStatus
  BY <1>4 DEF SkipMethod, NoSkip, SkipStatus, netVars, pathVars, StartInv
<1>5. CASE ReadChar \/ NoChar \/ PathStatus
  BY <1>5 DEF ReadChar, NoChar, PathStatus, netVars, pathVars, StartInv
<1>6. CASE Delegate \/ OpenDirectory \/ NoDirectory \/ EndOfPath \/ DropWord
  BY <1>6 DEF Delegate, OpenDirectory, NoDirectory, EndOfPath, DropWord, NextWord, Answer, netVars, pathVars, StartInv
<1>7. CASE OpenFile
  BY <1>7 DEF OpenFile, Found, Answer, netVars, pathVars, StartInv
<1>8. CASE MmcChar \/ MmcNoChar \/ MmcStatus \/ MmcOpen
  BY <1>8 DEF MmcChar, MmcNoChar, MmcStatus, MmcOpen, Answer, netVars, pathVars, StartInv
<1> QED BY <1>1, <1>2, <1>3, <1>4, <1>5, <1>6, <1>7, <1>8 DEF Next, Server

LEMMA StillOpen ==
    ASSUME [Next]_vars, open'
    PROVE  open
<1>1. UNCHANGED open => open
  OBVIOUS
<1>2. [Next]_vars => UNCHANGED open \/ HangUp
  BY DEF Next, Server, Arrive, ReadMethod, NoMethod, MethodStatus, SkipMethod, NoSkip, SkipStatus, ReadChar,
         NoChar, PathStatus, Delegate, OpenDirectory, NoDirectory, EndOfPath, DropWord, OpenFile, MmcChar,
         MmcNoChar, MmcStatus, MmcOpen, vars, netVars
<1> QED BY <1>1, <1>2 DEF HangUp

LEMMA Waits ==
    ASSUME open, UNCHANGED << stream, begin, taken, pc, status, buffer, dirnode, maxlen >>
    PROVE  Stays
<1>1. Upto' = Upto /\ (InPath' <=> InPath) /\ (InMmc' <=> InMmc)
  BY DEF Upto, InPath, InMmc
<1>2. pc' # "word" \/ (pc = "word" /\ UNCHANGED << taken, status >>)
  OBVIOUS
<1>3. pc' = "file" => UNCHANGED taken /\ pc = "file"
  OBVIOUS
<1>4. UNCHANGED << stream, begin, Upto, buffer, dirnode, maxlen >>
  BY <1>1
<1> QED BY <1>1, <1>2, <1>3, <1>4 DEF Stays

LEMMA Kinds ==
    ASSUME Shaped, StartInv, GotInv, [Next]_vars, open', (InPath \/ InMmc)'
    PROVE  Enters \/ Stays \/ ReadsOne \/ Opens \/ Drops \/ ToCard
<1>0. /\ Len(stream) \in Nat /\ arrived \in 0 .. Len(stream) /\ taken \in 0 .. arrived
      /\ Available = arrived - taken
  BY Streams DEF Shaped, TypeOK, Available
<1>a. open
  BY StillOpen
<1>1. CASE UNCHANGED vars
  BY <1>a, <1>1, Waits DEF vars, netVars, pathVars
<1>2. CASE Arrive \/ HangUp
  <2>1. CASE Arrive
    BY <1>a, <2>1, Waits DEF Arrive, pathVars
  <2>2. CASE HangUp
    BY <2>2 DEF HangUp
  <2> QED BY <1>2, <2>1, <2>2
<1>3. CASE ReadMethod \/ NoMethod \/ MethodStatus
  BY <1>3 DEF ReadMethod, NoMethod, MethodStatus, Answer, InPath, InMmc
<1>4. CASE SkipMethod
  <2>1. taken' \in 0 .. arrived
    <3>1. skip \in Nat
      BY DEF Shaped, TypeOK
    <3> QED BY <1>0, <1>4, <3>1 DEF SkipMethod, Take
  <2> QED BY <1>0, <1>4, <2>1 DEF SkipMethod, StartInv, Enters, netVars, pathVars
<1>5. CASE NoSkip \/ SkipStatus
  BY <1>5 DEF NoSkip, SkipStatus, netVars, InPath, InMmc
<1>6. CASE ReadChar
  <2>1. taken' = taken + 1 /\ taken' \in 1 .. Len(stream) /\ Next1 = stream[taken']
    BY <1>0, <1>6 DEF ReadChar, Take, Next1
  <2>2. CASE Next1 \in Separators \/ maxlen = 0
    BY <1>0, <1>a, <1>6, <2>1, <2>2 DEF ReadChar, netVars, Stays, Ends, Upto, InPath, InMmc
  <2>3. CASE ~ (Next1 \in Separators \/ maxlen = 0)
    BY <1>0, <1>a, <1>6, <2>1, <2>3 DEF ReadChar, netVars, ReadsOne, Upto
  <2> QED BY <2>2, <2>3
<1>7. CASE NoChar \/ PathStatus
  BY <1>a, <1>7 DEF NoChar, PathStatus, netVars, pathVars, Stays, Upto, InPath, InMmc
<1>8. ASSUME pc = "word", open
      PROVE  /\ taken \in 1 .. Len(stream)
             /\ status = "PATH" => stream[taken] = "/"
             /\ status \in {"QUERY_PARAM", "QUERY_VALUE"} => stream[taken] \in {"&", "="}
  <2>1. begin \in Nat /\ begin <= taken - 1 /\ status = StatusOf(stream[taken])
    BY <1>8 DEF GotInv, InPath, Upto, Shaped, TypeOK
  <2> QED BY <1>0, <2>1 DEF StatusOf
<1>9. CASE Delegate
  BY <1>a, <1>0, <1>8, <1>9 DEF Delegate, Reserved, netVars, ToCard, GoesOn, Upto, InPath, InMmc
<1>10. CASE OpenDirectory
  BY <1>a, <1>0, <1>8, <1>10 DEF OpenDirectory, NextWord, netVars, Opens, GoesOn, Upto
<1>11. CASE DropWord
  BY <1>a, <1>0, <1>8, <1>11 DEF DropWord, NextWord, netVars, Drops, GoesOn, Upto
<1>12. CASE NoDirectory
  BY <1>12 DEF NoDirectory, Answer, InPath, InMmc
<1>13. CASE EndOfPath
  BY <1>13 DEF EndOfPath, netVars, Stays, Upto, InPath, InMmc
<1>14. CASE OpenFile
  BY <1>14 DEF OpenFile, Found, Answer, InPath, InMmc
<1>15. CASE MmcChar
  <2>1. taken' = taken + 1 /\ taken' \in 1 .. Len(stream) /\ Next1 = stream[taken']
    <3>1. Take(1) /\ Available > 0
      BY <1>15 DEF MmcChar
    <3> QED BY <1>0, <3>1 DEF Take, Next1
  <2>2. CASE Next1 \in {" ", "?"} \/ maxlen = 0
    <3>1. /\ pc = "mmc" /\ pc' = "mmcOpen"
          /\ UNCHANGED << stream, begin, buffer, dirnode, maxlen >>
      BY <1>15, <2>2 DEF MmcChar, netVars
    <3>2. Upto' = Upto
      BY <1>0, <2>1, <3>1 DEF Upto
    <3> QED BY <1>a, <3>1, <3>2 DEF Stays, InPath, InMmc
  <2>3. CASE ~ (Next1 \in {" ", "?"} \/ maxlen = 0)
    BY <1>0, <1>a, <1>15, <2>1, <2>3 DEF MmcChar, netVars, ReadsOne, Upto, End
  <2> QED BY <2>2, <2>3
<1>16. CASE MmcNoChar \/ MmcStatus
  BY <1>a, <1>16 DEF MmcNoChar, MmcStatus, netVars, pathVars, Stays, Upto, InPath, InMmc
<1>17. CASE MmcOpen
  BY <1>17 DEF MmcOpen, Answer, InPath, InMmc
<1> QED BY <1>1, <1>2, <1>3, <1>4, <1>5, <1>6, <1>7, <1>9, <1>10, <1>11, <1>12, <1>13, <1>14,
           <1>15, <1>16, <1>17 DEF Next, Server

LEMMA OneMoreRead ==
    ASSUME NEW t \in Text, NEW b \in Nat, NEW k \in Nat, b <= k, k < Len(t)
    PROVE  /\ SubSeq(t, b + 1, k + 1) = Append(SubSeq(t, b + 1, k), t[k + 1])
           /\ SubSeq(t, b + 1, k) \in Text /\ t[k + 1] \in Char
<1>0. Len(t) \in Nat /\ t[k + 1] \in Char
  BY LenProperties, ElementOfSeq DEF Text
<1>1. SubSeq(t, b + 1, k) \in Text /\ SubSeq(t, k + 1, k + 1) = << t[k + 1] >>
  <2>1. b + 1 \in Nat \ {0} /\ k + 1 \in Nat \ {0} /\ k <= Len(t) /\ k + 1 <= Len(t)
        /\ k + 1 - (k + 1) + 1 = 1 /\ k + 1 + 1 - 1 = k + 1
    BY <1>0
  <2>2. SubSeq(t, b + 1, k) \in Text
    BY <2>1, Slice
  <2>3. Len(SubSeq(t, k + 1, k + 1)) = 1 /\ SubSeq(t, k + 1, k + 1)[1] = t[k + 1] /\ SubSeq(t, k + 1, k + 1) \in Text
    BY <2>1, Slice
  <2>4. << t[k + 1] >> \in Text
    BY <1>0 DEF Text
  <2> DEFINE one == SubSeq(t, k + 1, k + 1)
             c == t[k + 1]
  <2>5. Len(<< c >>) = 1 /\ << c >>[1] = c
    OBVIOUS
  <2>6. \A i \in 1 .. Len(one) : one[i] = << c >>[i]
    BY <2>3, <2>5
  <2> QED BY <2>2, <2>3, <2>4, <2>5, <2>6, SeqEqual DEF Text
<1>2. SubSeq(t, b + 1, k) \o SubSeq(t, k + 1, k + 1) = SubSeq(t, b + 1, k + 1)
  <2>1. /\ b + 1 \in 1 .. Len(t) + 1 /\ k \in (b + 1) - 1 .. Len(t) /\ k + 1 \in k .. Len(t)
    BY <1>0
  <2> QED BY <2>1, ConcatAdjacentSubSeq DEF Text
<1>3. Append(SubSeq(t, b + 1, k), t[k + 1]) = SubSeq(t, b + 1, k) \o << t[k + 1] >>
  BY <1>0, <1>1, AppendIsConcat DEF Text
<1> QED BY <1>0, <1>1, <1>2, <1>3

LEMMA AppendBehind ==
    ASSUME NEW x \in Text, NEW w \in Text, NEW c \in Char
    PROVE  /\ Append(x \o w, c) = x \o Append(w, c)
           /\ Append(x \o w, c) = x \o (w \o << c >>)
           /\ x \o w \in Text
<1>1. << c >> \in Text /\ x \o w \in Text
  BY ConcatProperties DEF Text
<1>2. Append(x \o w, c) = (x \o w) \o << c >> /\ Append(w, c) = w \o << c >>
  BY <1>1, AppendIsConcat DEF Text
<1>3. (x \o w) \o << c >> = x \o (w \o << c >>)
  BY <1>1, Associates
<1> QED BY <1>1, <1>2, <1>3

(* What is read when a step reads nothing, or one character more.          *)
LEMMA GotSteps ==
    ASSUME Shaped, GotInv, open, InPath \/ InMmc, stream' = stream, begin' = begin
    PROVE  /\ Got \in Text /\ begin \in Nat /\ Upto \in Nat /\ begin <= Upto /\ Upto <= Len(stream)
           /\ Upto' = Upto => Got' = Got
           /\ Upto' = Upto + 1 /\ Upto' \in 1 .. Len(stream) =>
                 Got' = Append(Got, stream[Upto']) /\ stream[Upto'] \in Char
<1>1. /\ stream \in Text /\ begin \in Nat /\ Len(stream) \in Nat
      /\ arrived \in 0 .. Len(stream) /\ taken \in 0 .. arrived /\ begin <= Upto
  <2>1. begin <= Upto
    BY DEF GotInv
  <2>2. stream \in Text /\ Len(stream) \in Nat
    BY Streams DEF Shaped, TypeOK
  <2> QED BY <2>1, <2>2 DEF Shaped, TypeOK
<1>2. Upto \in Nat /\ Upto <= Len(stream)
  <2>1. Upto \in Int /\ Upto <= taken
    BY <1>1 DEF Upto
  <2> QED BY <1>1, <2>1
<1>3. Got \in Text
  <2>1. begin + 1 \in Nat \ {0}
    BY <1>1
  <2> QED BY <1>1, <1>2, <2>1, Slice DEF Got
<1>4. Got' = SubSeq(stream, begin + 1, Upto')
  BY DEF Got
<1>5. ASSUME Upto' = Upto + 1, Upto' \in 1 .. Len(stream)
      PROVE  Got' = Append(Got, stream[Upto']) /\ stream[Upto'] \in Char
  <2>1. Upto < Len(stream)
    BY <1>1, <1>2, <1>5
  <2> QED BY <1>1, <1>2, <1>4, <1>5, <2>1, OneMoreRead DEF Got
<1> QED BY <1>1, <1>2, <1>3, <1>4, <1>5 DEF Got

LEMMA GotNext ==
    ASSUME Shaped, StartInv, GotInv, [Next]_vars
    PROVE  GotInv'
<1> SUFFICES ASSUME open', (InPath \/ InMmc)'
             PROVE  /\ begin' <= Upto'
                    /\ \A i \in (begin' + 1) .. Upto' : stream'[i] \notin End
                    /\ pc' = "word" => status' = StatusOf(stream'[taken'])
  BY DEF GotInv
<1>0. begin \in Nat /\ Len(stream) \in Nat
  <2>1. Len(stream) \in Nat
    BY Streams DEF Shaped, TypeOK
  <2> QED BY <2>1 DEF Shaped, TypeOK
<1>1. CASE Enters
  <2>1. Upto' = taken' /\ taken' \in Nat
    BY <1>0, <1>1 DEF Enters, Upto
  <2>2. begin' = Upto' /\ pc' # "word"
    BY <1>1, <2>1 DEF Enters
  <2>3. \A k \in Nat : (k + 1) .. k = {}
    OBVIOUS
  <2>4. (begin' + 1) .. Upto' = {}
    <3> DEFINE k == Upto'
    <3>1. k \in Nat /\ begin' = k
      BY <2>1, <2>2
    <3> HIDE DEF k
    <3>2. (begin' + 1) .. k = {}
      BY <2>3, <3>1
    <3> QED BY <3>2 DEF k
  <2>5. begin' <= Upto'
    <3> DEFINE k == Upto'
    <3>1. k \in Nat /\ begin' = k
      BY <2>1, <2>2
    <3> HIDE DEF k
    <3>2. begin' <= k
      BY <3>1
    <3> QED BY <3>2 DEF k
  <2>6. \A i \in (begin' + 1) .. Upto' : stream'[i] \notin End
    BY <2>4, Zenon
  <2> QED BY <2>2, <2>5, <2>6
<1>2. CASE Stays
  <2>1. /\ begin <= Upto /\ \A i \in (begin + 1) .. Upto : stream[i] \notin End
        /\ pc = "word" => status = StatusOf(stream[taken])
    BY <1>2 DEF Stays, GotInv
  <2>2. pc' = "word" => status' = StatusOf(stream'[taken'])
    BY <1>2, <2>1 DEF Stays, Ends
  <2> QED BY <1>2, <2>1, <2>2 DEF Stays
<1>3. CASE ReadsOne \/ Opens \/ Drops \/ ToCard
  <2>1. /\ open /\ (InPath \/ InMmc) /\ UNCHANGED << stream, begin >> /\ pc' # "word"
        /\ Upto' = Upto + 1 /\ stream[Upto'] \notin End
    BY <1>3 DEF ReadsOne, Opens, Drops, ToCard, GoesOn, InPath, InMmc, End, Separators
  <2>2. Upto \in Nat /\ begin <= Upto /\ \A i \in (begin + 1) .. Upto : stream[i] \notin End
    BY <2>1, GotSteps DEF GotInv
  <2> QED BY <1>0, <2>1, <2>2
<1> QED BY <1>1, <1>2, <1>3, Kinds

LEMMA WordNext ==
    ASSUME Shaped, StartInv, GotInv, WordInv, [Next]_vars
    PROVE  WordInv'
<1> SUFFICES ASSUME open', (InPath \/ InMmc)'
             PROVE  /\ InPath' => \E x \in Text : Got' = x \o buffer'
                    /\ InMmc' => \E x \in Text : Got' = (x \o (MMC \o << "/" >>)) \o buffer'
  BY DEF WordInv
<1>0. buffer \in Text /\ MMC \in Text /\ << "/" >> \in Text /\ << >> \in Text /\ ~ (InPath /\ InMmc)
      /\ MMC \o << "/" >> \in Text
  <2>1. MMC \in Text /\ << "/" >> \in Text
    BY Settings, Strings
  <2>2. MMC \o << "/" >> \in Text
    BY <2>1, ConcatProperties DEF Text
  <2> QED BY <2>1, <2>2, Strings DEF Shaped, InPath, InMmc
<1>1. CASE Enters
  <2>1. Upto' = taken' /\ taken' \in Nat /\ InPath' /\ ~ InMmc' /\ buffer' = << >>
    <3>1. Len(stream) \in Nat
      BY Streams DEF Shaped, TypeOK
    <3> QED BY <1>1, <3>1 DEF Enters, Upto, InPath, InMmc
  <2>2. Got' = << >>
    <3> DEFINE k == taken'
    <3>1. Got' = SubSeq(stream', begin' + 1, Upto') /\ begin' = k /\ Upto' = k /\ k \in Nat
      BY <1>1, <2>1 DEF Enters, Got
    <3> HIDE DEF k
    <3>2. k < k + 1 /\ k + 1 \in Int /\ k \in Int
      BY <3>1
    <3>3. SubSeq(stream', k + 1, k) = << >>
      BY <3>2, SubSeqEmpty
    <3> QED BY <3>1, <3>3
  <2> QED BY <1>0, <2>1, <2>2, ConcatEmptySeq DEF Text
<1>2. CASE Stays
  <2>1. open /\ (InPath \/ InMmc) /\ Got' = Got /\ buffer' = buffer /\ (InPath' <=> InPath) /\ (InMmc' <=> InMmc)
    BY <1>2, GotSteps DEF Stays
  <2> QED BY <2>1 DEF WordInv
<1>3. CASE ReadsOne
  <2> DEFINE c == stream[Upto']
  <2>1. /\ open /\ (InPath \/ InMmc) /\ UNCHANGED << stream, begin >>
        /\ (InPath' <=> InPath) /\ (InMmc' <=> InMmc) /\ buffer' = Append(buffer, c)
    BY <1>3 DEF ReadsOne, InPath, InMmc
  <2>2. Got' = Append(Got, c) /\ c \in Char
    BY <1>3, <2>1, GotSteps DEF ReadsOne
  <2> HIDE DEF c
  <2>3. ASSUME NEW y \in Text, Got = y \o buffer PROVE Got' = y \o buffer'
    BY <1>0, <2>1, <2>2, <2>3, AppendBehind
  <2>4. ASSUME InPath PROVE \E x \in Text : Got' = x \o buffer'
    BY <2>1, <2>3, <2>4 DEF WordInv
  <2>5. ASSUME InMmc PROVE \E x \in Text : Got' = (x \o (MMC \o << "/" >>)) \o buffer'
    <3>1. PICK x \in Text : Got = (x \o (MMC \o << "/" >>)) \o buffer
      BY <2>1, <2>5 DEF WordInv
    <3>2. x \o (MMC \o << "/" >>) \in Text
      BY <1>0, ConcatProperties DEF Text
    <3> QED BY <2>3, <3>1, <3>2
  <2> QED BY <2>1, <2>4, <2>5
<1>4. CASE Opens \/ Drops \/ ToCard
  <2>1. /\ open /\ InPath /\ GoesOn /\ UNCHANGED << stream, begin >> /\ buffer' = << >>
    BY <1>4 DEF Opens, Drops, ToCard, GoesOn, InPath
  <2>2. Got' = Append(Got, stream[taken]) /\ stream[taken] \in Char /\ Got \in Text
    BY <2>1, GotSteps DEF GoesOn
  <2>3. Got' \in Text /\ Got' = Got' \o << >>
    BY <2>2, AppendProperties, ConcatEmptySeq DEF Text
  <2>4. CASE ToCard
    <3>1. PICK x \in Text : Got = x \o MMC
      BY <2>1, <2>4 DEF WordInv, ToCard
    <3>2. Got' = x \o (MMC \o << "/" >>)
      <4>1. stream[taken] = "/" /\ "/" \in Char
        BY <2>2, <2>4 DEF ToCard
      <4>2. Got' = Append(x \o MMC, "/")
        BY <2>2, <3>1, <4>1
      <4> QED BY <1>0, <4>1, <4>2, AppendBehind
    <3>3. Got' = (x \o (MMC \o << "/" >>)) \o << >>
      BY <2>3, <3>2
    <3>4. InMmc' /\ ~ InPath'
      BY <2>4 DEF ToCard, InMmc, InPath
    <3> QED BY <2>1, <3>3, <3>4
  <2>5. CASE Opens \/ Drops
    <3>1. InPath' /\ ~ InMmc'
      BY <2>5 DEF Opens, Drops, InPath, InMmc
    <3> QED BY <2>1, <2>3, <3>1
  <2> QED BY <1>4, <2>4, <2>5
<1> QED BY <1>1, <1>2, <1>3, <1>4, Kinds
-----------------------------------------------------------------------------
(* What has been read without its end is the beginning of the URL; with    *)
(* the end behind it, it is the URL.                                       *)
LEMMA UrlRead ==
    ASSUME Shaped, FromStart, NEW k \in Nat, begin <= k, k < Len(stream),
           \A i \in (begin + 1) .. k : stream[i] \notin End
    PROVE  /\ Url \in Text
           /\ \E rest \in Text : Url = SubSeq(stream, begin + 1, k) \o rest
           /\ stream[k + 1] \in End => Url = SubSeq(stream, begin + 1, k)
<1>0. stream \in Text /\ Len(stream) \in Nat /\ begin \in Nat
  <2>1. stream \in Text /\ Len(stream) \in Nat
    BY Streams DEF Shaped, TypeOK
  <2> QED BY <2>1 DEF Shaped, TypeOK
<1>1. PICK e \in (begin + 1) .. Len(stream) :
              /\ stream[e] \in End
              /\ \A i \in (begin + 1) .. (e - 1) : stream[i] \notin End
              /\ Url = SubSeq(stream, begin + 1, e - 1)
  BY UrlEnds DEF FromStart
<1>2. k < e
  BY <1>0, <1>1
<1>3. Url \in Text
  <2>1. begin + 1 \in Nat \ {0} /\ e - 1 \in Int /\ e - 1 <= Len(stream)
    BY <1>0
  <2> QED BY <1>0, <1>1, <2>1, Slice
<1>4. /\ SubSeq(stream, begin + 1, k) \o SubSeq(stream, k + 1, e - 1) = SubSeq(stream, begin + 1, e - 1)
      /\ SubSeq(stream, k + 1, e - 1) \in Text
  <2>1. /\ begin + 1 \in 1 .. Len(stream) + 1 /\ k \in (begin + 1) - 1 .. Len(stream) /\ e - 1 \in k .. Len(stream)
        /\ k + 1 \in Nat \ {0} /\ e - 1 \in Int /\ e - 1 <= Len(stream)
    BY <1>0, <1>2
  <2> QED BY <1>0, <2>1, ConcatAdjacentSubSeq, Slice DEF Text
<1>5. stream[k + 1] \in End => e - 1 = k
  <2>1. ASSUME stream[k + 1] \in End, k + 1 < e PROVE FALSE
    <3>1. k + 1 \in (begin + 1) .. (e - 1)
      BY <1>0, <2>1
    <3> QED BY <1>1, <2>1, <3>1
  <2> QED BY <1>0, <1>2, <2>1
<1> QED BY <1>1, <1>3, <1>4, <1>5

LEMMA UrlAt ==
    ASSUME Shaped, FromStart, NEW k \in Nat, begin <= k, k < Len(stream),
           \A i \in (begin + 1) .. k : stream[i] \notin End,
           NEW i \in 1 .. k - begin
    PROVE  i \in DOMAIN Url /\ i \in 1 .. Len(Url) /\ Url[i] = SubSeq(stream, begin + 1, k)[i]
           /\ Url[i] = stream[begin + i]
<1>0. stream \in Text /\ Len(stream) \in Nat /\ begin \in Nat
  <2>1. stream \in Text /\ Len(stream) \in Nat
    BY Streams DEF Shaped, TypeOK
  <2> QED BY <2>1 DEF Shaped, TypeOK
<1>1. PICK rest \in Text : Url = SubSeq(stream, begin + 1, k) \o rest
  BY UrlRead
<1> DEFINE w == SubSeq(stream, begin + 1, k)
<1>2. /\ w \in Text /\ Len(w) = k - begin /\ i \in 1 .. Len(w)
      /\ w[i] = stream[begin + i]
  <2>1. begin + 1 \in Nat \ {0} /\ begin + 1 <= k /\ k - (begin + 1) + 1 = k - begin
        /\ (begin + 1) + i - 1 = begin + i /\ k <= Len(stream) /\ k \in Int
    BY <1>0
  <2>2. /\ w \in Text /\ Len(w) = k - (begin + 1) + 1
        /\ \A j \in 1 .. (k - (begin + 1) + 1) : w[j] = stream[(begin + 1) + j - 1]
    BY <1>0, <2>1, Slice
  <2> HIDE DEF w
  <2> QED BY <2>1, <2>2
<1> HIDE DEF w
<1>3. Url \in Text /\ Len(Url) = Len(w) + Len(rest) /\ Url = w \o rest /\ Len(rest) \in Nat
  BY <1>1, <1>2, ConcatProperties, LenProperties DEF Text, w
<1>4. i \in 1 .. Len(w) + Len(rest) /\ i <= Len(w)
  BY <1>2, <1>3
<1>5. Url[i] = w[i]
  BY <1>1, <1>2, <1>3, <1>4, ConcatProperties DEF Text
<1>6. DOMAIN Url = 1 .. Len(Url)
  BY <1>3, LenProperties DEF Text
<1> QED BY <1>2, <1>3, <1>4, <1>5, <1>6 DEF w

(* Two ways to cut a text at a slash are the same.                         *)
Slashed(t) == t = << >> \/ t[1] = "/"

LEMMA NotLonger ==
    ASSUME NEW a \in Text, NEW b \in Text, NEW t \in Text, NEW r \in Text,
           NoSlash(b), Slashed(t), a \o t = b \o r
    PROVE  Len(b) <= Len(a)
<1>0. Len(a) \in Nat /\ Len(b) \in Nat /\ Len(t) \in Nat /\ Len(r) \in Nat /\ DOMAIN b = 1 .. Len(b)
  BY LenProperties DEF Text
<1>1. SUFFICES ASSUME Len(a) < Len(b) PROVE FALSE
  BY <1>0
<1>2. Len(a) + Len(t) = Len(b) + Len(r)
  <2>1. Len(a \o t) = Len(a) + Len(t) /\ Len(b \o r) = Len(b) + Len(r)
    BY ConcatProperties DEF Text
  <2> QED BY <2>1
<1>3. t[1] = "/"
  <2>1. Len(t) # 0
    BY <1>0, <1>1, <1>2
  <2>2. t # << >>
    BY <2>1, EmptySeq
  <2> QED BY <2>2 DEF Slashed
<1>4. (a \o t)[Len(a) + 1] = t[1]
  <2>1. Len(a) + 1 \in 1 .. Len(a) + Len(t) /\ ~ (Len(a) + 1 <= Len(a)) /\ Len(a) + 1 - Len(a) = 1
    BY <1>0, <1>1, <1>2
  <2> QED BY <2>1, ConcatProperties DEF Text
<1>5. (b \o r)[Len(a) + 1] = b[Len(a) + 1] /\ Len(a) + 1 \in DOMAIN b
  <2>1. Len(a) + 1 \in 1 .. Len(b) + Len(r) /\ Len(a) + 1 <= Len(b) /\ Len(a) + 1 \in 1 .. Len(b)
    BY <1>0, <1>1
  <2> QED BY <1>0, <2>1, ConcatProperties DEF Text
<1> QED BY <1>3, <1>4, <1>5 DEF NoSlash

LEMMA SameName ==
    ASSUME NEW a \in Text, NEW b \in Text, NEW t \in Text, NEW r \in Text,
           NoSlash(a), NoSlash(b), Slashed(t), Slashed(r), a \o t = b \o r
    PROVE  a = b /\ t = r
<1>0. Len(a) \in Nat /\ Len(b) \in Nat /\ Len(t) \in Nat /\ Len(r) \in Nat
  BY LenProperties DEF Text
<1>1. Len(a) = Len(b)
  <2>1. Len(b) <= Len(a)
    BY NotLonger
  <2>2. Len(a) <= Len(b)
    BY NotLonger
  <2> QED BY <1>0, <2>1, <2>2
<1>2. ASSUME NEW i \in 1 .. Len(a) PROVE a[i] = b[i]
  <2>1. i \in 1 .. Len(a) + Len(t) /\ i \in 1 .. Len(b) + Len(r) /\ i <= Len(a) /\ i <= Len(b)
    BY <1>0, <1>1
  <2>2. (a \o t)[i] = a[i]
    BY <2>1, ConcatProperties DEF Text
  <2>3. (b \o r)[i] = b[i]
    BY <2>1, ConcatProperties DEF Text
  <2> QED BY <2>2, <2>3
<1>3. a = b
  BY <1>1, <1>2, SeqEqual DEF Text
<1>4. t = r
  <2>1. \A x, y, z \in Text : x \o y = x \o z => y = z
    BY ConcatSimplifications DEF Text
  <2> QED BY <1>3, <2>1
<1> QED BY <1>3, <1>4

(* Cutting a path off behind its n-th name.                                *)
LEMMA CutPath ==
    ASSUME NEW p \in Paths, NEW n \in 1 .. Len(p)
    PROVE  /\ SubSeq(p, 1, n - 1) \in Paths /\ Len(SubSeq(p, 1, n - 1)) = n - 1
           /\ SubSeq(p, 1, n) = Append(SubSeq(p, 1, n - 1), p[n]) /\ p[n] \in Text
<1>0. Len(p) \in Nat /\ \A i \in 1 .. Len(p) : p[i] \in Text
  BY LenProperties, ElementOfSeq DEF Paths
<1>1. SubSeq(p, 1, n - 1) \in Paths /\ Len(SubSeq(p, 1, n - 1)) = n - 1
  <2>1. \A i \in 1 .. n - 1 : p[i] \in Text
    BY <1>0
  <2>2. (IF 1 <= n - 1 THEN (n - 1) - 1 + 1 ELSE 0) = n - 1
    OBVIOUS
  <2> QED BY <2>1, <2>2, SubSeqProperties DEF Paths
<1>2. SubSeq(p, 1, n) = SubSeq(p, 1, n - 1) \o << p[n] >>
  <2>1. 1 \in 1 .. Len(p) /\ n \in 1 .. Len(p)
    BY <1>0
  <2> QED BY <2>1, SubSeqRecursiveSecond DEF Paths
<1>3. Append(SubSeq(p, 1, n - 1), p[n]) = SubSeq(p, 1, n - 1) \o << p[n] >>
  BY <1>0, <1>1, AppendIsConcat DEF Paths
<1> QED BY <1>0, <1>1, <1>2, <1>3

(* The URL of a path below a directory: the directory, the next name, and  *)
(* what is behind it.                                                      *)
Tail1(p, d, n, t) ==
    /\ UrlOf(SubSeq(p, 1, n)) = Above(d) \o (p[Len(d) + 1] \o t)
    /\ Slashed(t)
    /\ t = << >> <=> n = Len(d) + 1

LEMMA NextName ==
    ASSUME NEW p \in Paths, NEW d \in Paths, Below(p, d)
    PROVE  \A n \in Len(d) + 1 .. Len(p) : \E t \in Text : Tail1(p, d, n, t)
<1>0. Len(p) \in Nat /\ Len(d) \in Nat /\ Len(d) < Len(p) /\ SubSeq(p, 1, Len(d)) = d
  BY LenProperties DEF Paths, Below
<1> DEFINE T == {n \in Len(d) + 1 .. Len(p) : ~ \E t \in Text : Tail1(p, d, n, t)}
<1>1. SUFFICES ASSUME T # {} PROVE FALSE
  OBVIOUS
<1>2. PICK n \in T : \A k \in T : n <= k
  <2>1. T \subseteq Nat
    BY <1>0
  <2> HIDE DEF T
  <2> QED BY <1>1, <2>1, LeastNumber
<1>3. /\ n \in 1 .. Len(p) /\ n \in Len(d) + 1 .. Len(p) /\ Len(d) + 1 \in 1 .. Len(p)
      /\ ~ \E t \in Text : Tail1(p, d, n, t)
  BY <1>0
<1>4. /\ SubSeq(p, 1, n) = Append(SubSeq(p, 1, n - 1), p[n]) /\ p[n] \in Text /\ p[Len(d) + 1] \in Text
      /\ SubSeq(p, 1, n - 1) \in Paths /\ Len(SubSeq(p, 1, n - 1)) = n - 1
  BY <1>3, CutPath
<1>5. CASE n = Len(d) + 1
  <2>1. n - 1 = Len(d)
    BY <1>0, <1>5
  <2>2. SubSeq(p, 1, n) = Append(d, p[Len(d) + 1])
    BY <1>0, <1>4, <1>5, <2>1
  <2>3. UrlOf(SubSeq(p, 1, n)) = Above(d) \o p[Len(d) + 1]
    BY <1>4, <2>2, AboveEntry
  <2>4. p[Len(d) + 1] = p[Len(d) + 1] \o << >>
    BY <1>4, ConcatEmptySeq DEF Text
  <2>5. Tail1(p, d, n, << >>)
    BY <1>5, <2>3, <2>4 DEF Tail1, Slashed
  <2> QED BY <1>3, <2>5, Strings
<1>6. CASE n # Len(d) + 1
  <2>1. n - 1 \in Len(d) + 1 .. Len(p) /\ n - 1 \notin T
    BY <1>0, <1>2, <1>3, <1>6
  <2>2. PICK t \in Text : Tail1(p, d, n - 1, t)
    BY <2>1
  <2> DEFINE q == SubSeq(p, 1, n - 1)
             name == p[Len(d) + 1]
             more == << "/" >> \o p[n]
  <2>3. q # << >>
    <3>1. Len(q) # 0
      BY <1>0, <1>4, <2>1
    <3> HIDE DEF q
    <3> QED BY <3>1, EmptySeq
  <2>4. UrlOf(SubSeq(p, 1, n)) = UrlOf(q) \o more
    BY <1>4, <2>3, UrlOfEntry
  <2>5. UrlOf(q) = Above(d) \o (name \o t)
    BY <2>2 DEF Tail1
  <2>6. more \in Text /\ Above(d) \in Text /\ name \in Text /\ t \o more \in Text /\ name \o t \in Text
    <3>1. more \in Text
      BY <1>4, Strings, ConcatProperties DEF Text
    <3> HIDE DEF more
    <3> QED BY <1>4, <3>1, AboveEntry, ConcatProperties DEF Text
  <2> HIDE DEF q, name
  <2>7. UrlOf(q) \o more = Above(d) \o (name \o (t \o more))
    <3> HIDE DEF more
    <3>1. (Above(d) \o (name \o t)) \o more = Above(d) \o ((name \o t) \o more)
      BY <2>6, Associates
    <3>2. (name \o t) \o more = name \o (t \o more)
      BY <2>6, Associates
    <3> QED BY <2>5, <3>1, <3>2
  <2>8. Len(more) = 1 + Len(p[n]) /\ more[1] = "/" /\ Len(p[n]) \in Nat
    <3>1. Len(<< "/" >>) = 1 /\ << "/" >>[1] = "/" /\ << "/" >> \in Text
      BY Strings
    <3>2. Len(p[n]) \in Nat /\ 1 \in 1 .. 1 + Len(p[n])
      BY <1>4, LenProperties DEF Text
    <3> DEFINE one == << "/" >>
    <3> HIDE DEF one
    <3>3. Len(one) = 1 /\ one[1] = "/" /\ one \in Text /\ more = one \o p[n]
      BY <3>1 DEF one
    <3>4. Len(more) = 1 + Len(p[n]) /\ more[1] = one[1]
      BY <1>4, <3>2, <3>3, ConcatProperties DEF Text
    <3> QED BY <3>2, <3>3, <3>4
  <2> HIDE DEF more
  <2>9. t \o more # << >> /\ (t \o more)[1] = "/"
    <3>1. Len(t) \in Nat /\ Len(t \o more) = Len(t) + Len(more) /\ 1 \in 1 .. Len(t) + Len(more)
      BY <2>2, <2>6, <2>8, ConcatProperties, LenProperties DEF Text
    <3>2. (t \o more)[1] = IF 1 <= Len(t) THEN t[1] ELSE more[1 - Len(t)]
      BY <2>2, <2>6, <3>1, ConcatProperties DEF Text
    <3>3. Len(t) = 0 \/ t[1] = "/"
      BY <2>2, EmptySeq DEF Tail1, Slashed
    <3>4. t \o more # << >>
      <4>1. Len(t \o more) # 0
        BY <2>8, <3>1
      <4> QED BY <4>1, EmptySeq
    <3>5. CASE Len(t) = 0
      BY <2>8, <3>2, <3>4, <3>5
    <3>6. CASE Len(t) # 0
      BY <3>1, <3>2, <3>3, <3>4, <3>6
    <3> QED BY <3>5, <3>6
  <2>10. Tail1(p, d, n, t \o more)
    BY <1>6, <2>4, <2>7, <2>9 DEF Tail1, Slashed, name
  <2> QED BY <1>3, <2>6, <2>10
<1> QED BY <1>5, <1>6

LEMMA ToName ==
    ASSUME NEW p \in DOMAIN Tree, NEW d \in Paths, Below(p, d),
           NEW name \in Text, NoSlash(name), NEW r \in Text, Slashed(r),
           UrlOf(p) = (Above(d) \o name) \o r
    PROVE  /\ SubSeq(p, 1, Len(d) + 1) = Append(d, name) /\ Len(d) + 1 <= Len(p)
           /\ r = << >> <=> Len(p) = Len(d) + 1
<1>0. p \in Paths /\ \A k \in DOMAIN p : NoSlash(p[k])
  BY RequestAssumption, Strings
<1>1. /\ Len(p) \in Nat /\ Len(d) \in Nat /\ Len(d) < Len(p) /\ SubSeq(p, 1, Len(d)) = d
      /\ DOMAIN p = 1 .. Len(p) /\ SubSeq(p, 1, Len(p)) = p
  BY <1>0, LenProperties, SubSeqFull DEF Paths, Below
<1>2. Len(p) \in Len(d) + 1 .. Len(p) /\ Len(d) + 1 \in 1 .. Len(p) /\ (Len(d) + 1) - 1 = Len(d)
  BY <1>1
<1>3. PICK t \in Text : Tail1(p, d, Len(p), t)
  BY <1>0, <1>2, NextName
<1> DEFINE next == p[Len(d) + 1]
<1>4. next \in Text /\ NoSlash(next) /\ SubSeq(p, 1, Len(d) + 1) = Append(d, next)
  <2>1. /\ SubSeq(p, 1, Len(d) + 1) = Append(SubSeq(p, 1, (Len(d) + 1) - 1), p[Len(d) + 1])
        /\ p[Len(d) + 1] \in Text
    BY <1>0, <1>2, CutPath
  <2> QED BY <1>0, <1>1, <1>2, <2>1
<1>5. Above(d) \o (next \o t) = (Above(d) \o name) \o r
  BY <1>1, <1>3 DEF Tail1
<1> HIDE DEF next
<1>6. next \o t = name \o r
  <2>1. Above(d) \in Text /\ next \o t \in Text /\ name \o r \in Text
    BY <1>4, AboveEntry, ConcatProperties DEF Text
  <2>2. (Above(d) \o name) \o r = Above(d) \o (name \o r)
    BY <2>1, Associates
  <2>3. \A x, y, z \in Text : x \o y = x \o z => y = z
    BY ConcatSimplifications DEF Text
  <2> QED BY <1>5, <2>1, <2>2, <2>3
<1>7. next = name /\ t = r
  BY <1>3, <1>4, <1>6, SameName DEF Tail1
<1> QED BY <1>2, <1>3, <1>4, <1>7 DEF Tail1

LEMMA UrlIs == Url = UpTo(SubSeq(stream, Start(stream) + 1, Len(stream)))
BY DEF Url, UpTo

LEMMA SameUrl ==
    ASSUME stream' = stream
    PROVE  Url' = Url /\ (PlainUrl' <=> PlainUrl)
<1>1. (Url = UpTo(SubSeq(stream, Start(stream) + 1, Len(stream))))'
  BY UrlIs, PTL
<1>2. Url' = Url
  BY <1>1, UrlIs
<1> QED BY <1>2 DEF PlainUrl

(* The facts about a plain URL that the steps need: the character behind   *)
(* what has been read is in the URL unless it ends it.                     *)
LEMMA PlainEnds ==
    ASSUME Shaped, GotInv, PlainInv, Plain, maxlen = 0 \/ stream[Upto + 1] \in Separators,
           Upto < Len(stream)
    PROVE  stream[Upto + 1] \in {"/"} \cup End
<1> DEFINE c == stream[Upto + 1]
           m == HTTPD_FILENAME_MAX_LENGTH
           j == Upto + 1 - begin
<1>0. /\ open /\ (InPath \/ InMmc) /\ FromStart /\ PlainUrl
      /\ Got \in Text /\ begin \in Nat /\ Upto \in Nat /\ begin <= Upto /\ Upto + 1 \in Nat
      /\ m \in Nat \ {0}
  <2>1. open /\ (InPath \/ InMmc) /\ FromStart /\ PlainUrl
    BY DEF Plain
  <2>2. /\ stream \in Text /\ begin \in Nat /\ Len(stream) \in Nat
        /\ arrived \in 0 .. Len(stream) /\ taken \in 0 .. arrived
    <3>1. stream \in Text /\ Len(stream) \in Nat
      BY Streams DEF Shaped, TypeOK
    <3> QED BY <3>1 DEF Shaped, TypeOK
  <2>3. begin <= Upto
    BY <2>1 DEF GotInv
  <2>4. Upto \in Nat
    <3>1. Upto \in Int
      BY <2>2 DEF Upto
    <3> QED BY <2>2, <2>3, <3>1
  <2>5. Got \in Text
    <3>1. begin + 1 \in Nat \ {0} /\ Upto \in Int /\ Upto <= Len(stream)
      BY <2>2, <2>4
    <3> QED BY <2>2, <3>1, Slice DEF Got
  <2> QED BY <2>1, <2>2, <2>3, <2>4, <2>5, Settings
<1>1. SUFFICES ASSUME c \notin {"/"} \cup End PROVE FALSE
  OBVIOUS
<1>2. \A i \in (begin + 1) .. Upto : stream[i] \notin End
  BY <1>0 DEF GotInv
<1>3. \A i \in (begin + 1) .. Upto + 1 : stream[i] \notin End
  BY <1>0, <1>1, <1>2
<1>4. Upto + 1 < Len(stream)
  <2>1. stream[Len(stream)] = " " /\ Len(stream) \in Nat
    BY Streams DEF Shaped, TypeOK
  <2>2. Upto + 1 # Len(stream)
    BY <1>1, <2>1 DEF End
  <2>3. Upto \in Nat /\ Len(stream) \in Nat /\ Upto < Len(stream)
    BY <1>0, <2>1
  <2> QED BY <2>2, <2>3
<1>5. /\ \A i \in 1 .. j : i \in DOMAIN Url /\ i \in 1 .. Len(Url) /\ Url[i] = stream[begin + i]
      /\ j \in 1 .. j /\ begin + j = Upto + 1 /\ j \in Nat
  <2>1. begin <= Upto + 1 /\ j \in 1 .. j /\ begin + j = Upto + 1 /\ j \in Nat
    BY <1>0
  <2> HIDE DEF j
  <2>2. \A i \in 1 .. Upto + 1 - begin : i \in DOMAIN Url /\ i \in 1 .. Len(Url) /\ Url[i] = stream[begin + i]
    BY <1>0, <1>3, <1>4, <2>1, UrlAt
  <2> QED BY <2>1, <2>2 DEF j
<1>6. c \notin {"&", "="}
  BY <1>0, <1>5 DEF PlainUrl
<1>7. maxlen = 0
  BY <1>1, <1>6 DEF Separators, End
<1>8. Len(buffer) = m /\ buffer \in Text /\ NoSlash(buffer) /\ Got = Above(dirnode) \o buffer
      /\ DOMAIN buffer = 1 .. m
  <2>1. Len(buffer) \in Nat /\ DOMAIN buffer = 1 .. Len(buffer)
    BY LenProperties DEF Shaped, Text
  <2>2. Len(buffer) + maxlen = m /\ NoSlash(buffer) /\ Got = Above(dirnode) \o buffer
    BY DEF PlainInv
  <2>3. Len(buffer) = m
    BY <1>7, <2>1, <2>2
  <2>4. buffer \in Text
    BY DEF Shaped
  <2> QED BY <2>1, <2>2, <2>3, <2>4
<1>9. /\ Above(dirnode) \in Text /\ Len(Above(dirnode)) \in Nat
      /\ Len(Got) = Len(Above(dirnode)) + m /\ Len(Got) = Upto - begin
      /\ \A i \in 1 .. Len(Got) : Got[i] = stream[begin + i]
  <2>1. dirnode \in Paths
    BY Settings DEF Shaped, TypeOK
  <2>2. Above(dirnode) \in Text
    BY <2>1, Strings, AboveEntry
  <2>3. Len(Got) = Len(Above(dirnode)) + m /\ Len(Above(dirnode)) \in Nat
    BY <1>8, <2>2, ConcatProperties, LenProperties DEF Text
  <2>4. /\ Len(Got) = IF begin + 1 <= Upto THEN Upto - (begin + 1) + 1 ELSE 0
        /\ \A i \in 1 .. Upto - (begin + 1) + 1 : Got[i] = stream[(begin + 1) + i - 1]
    <3>1. begin + 1 \in Nat \ {0} /\ Upto \in Int /\ Upto <= Len(stream)
      <4>1. Len(stream) \in Nat
        BY Streams DEF Shaped, TypeOK
      <4> QED BY <1>0, <1>4, <4>1
    <3>2. stream \in Text
      BY Streams DEF Shaped, TypeOK
    <3> QED BY <3>1, <3>2, Slice DEF Got
  <2>5. Upto - (begin + 1) + 1 = Upto - begin /\ \A i \in 1 .. Upto - begin : (begin + 1) + i - 1 = begin + i
    BY <1>0
  <2>6. Len(Got) = Upto - begin
    BY <1>0, <2>4, <2>5
  <2> QED BY <2>2, <2>3, <2>4, <2>5, <2>6
<1>10. PICK k \in j - m .. j : Url[k] = "/"
  <2>1. j - m \in 1 .. Len(Url) /\ j \in 1 .. Len(Url) /\ j - (j - m) >= m
    <3>1. j - m \in 1 .. j
      BY <1>0, <1>9
    <3> HIDE DEF j
    <3> QED BY <1>0, <1>5, <3>1
  <2> HIDE DEF j
  <2> QED BY <1>0, <2>1 DEF PlainUrl
<1>11. k \in 1 .. j /\ k # j
  <2>1. k \in 1 .. j
    BY <1>0, <1>9
  <2> HIDE DEF j
  <2> QED BY <1>1, <1>5, <1>10, <2>1
<1>12. Got[k] = "/" /\ k \in 1 .. Len(Got)
  <2>1. k \in 1 .. Len(Got)
    BY <1>0, <1>9, <1>11
  <2> QED BY <1>5, <1>9, <1>10, <1>11, <2>1
<1>13. Got[k] = buffer[k - Len(Above(dirnode))] /\ k - Len(Above(dirnode)) \in 1 .. m
  <2>1. k \in 1 .. Len(Above(dirnode)) + Len(buffer) /\ ~ (k <= Len(Above(dirnode)))
        /\ k - Len(Above(dirnode)) \in 1 .. m
    BY <1>0, <1>8, <1>9, <1>10, <1>12
  <2> QED BY <1>8, <1>9, <2>1, ConcatProperties DEF Text
<1> QED BY <1>8, <1>12, <1>13 DEF NoSlash

LEMMA PlainNext ==
    ASSUME Shaped, StartInv, GotInv, PlainInv, [Next]_vars
    PROVE  PlainInv'
<1> SUFFICES ASSUME Plain'
             PROVE  /\ Got' = Above(dirnode') \o buffer'
                    /\ NoSlash(buffer')
                    /\ Len(buffer') + maxlen' = HTTPD_FILENAME_MAX_LENGTH
                    /\ pc' = "word" => stream'[taken'] \in {"/"} \cup End
                    /\ pc' = "file" => stream'[taken'] \in End
  BY DEF PlainInv
<1>0. /\ Enters \/ Stays \/ ReadsOne \/ Opens \/ Drops
      /\ dirnode \in Paths /\ buffer \in Text /\ Above(dirnode) \in Text
      /\ Len(buffer) \in Nat /\ maxlen \in Nat
      /\ << >> \in Text /\ Len(<< >>) = 0 /\ NoSlash(<< >>)
  <2>1. open' /\ InPath' /\ ~ ToCard
    BY DEF Plain, ToCard, InPath
  <2>2. Enters \/ Stays \/ ReadsOne \/ Opens \/ Drops
    BY <2>1, Kinds
  <2>3. dirnode \in Paths /\ buffer \in Text /\ Len(buffer) \in Nat
    BY Settings, LenProperties DEF Shaped, TypeOK, Text
  <2>4. Above(dirnode) \in Text
    BY <2>3, AboveEntry
  <2> QED BY <2>2, <2>3, <2>4, Settings DEF Shaped, TypeOK, NoSlash
<1>1. CASE Enters
  <2>1. pc' = "path" /\ dirnode' = << >> /\ buffer' = << >> /\ maxlen' = HTTPD_FILENAME_MAX_LENGTH
    BY <1>1 DEF Enters
  <2>2. Got' = << >>
    <3> DEFINE k == taken'
    <3>1. Got' = SubSeq(stream', begin' + 1, Upto') /\ begin' = k /\ Upto' = k /\ k \in Nat
      <4>1. Len(stream) \in Nat
        BY Streams DEF Shaped, TypeOK
      <4> QED BY <1>1, <4>1 DEF Enters, Got, Upto
    <3> HIDE DEF k
    <3>2. k < k + 1 /\ k + 1 \in Int /\ k \in Int
      BY <3>1
    <3>3. SubSeq(stream', k + 1, k) = << >>
      BY <3>2, SubSeqEmpty
    <3> QED BY <3>1, <3>3
  <2>3. Above(dirnode') \o buffer' = << >>
    BY <1>0, <2>1, ConcatEmptySeq DEF Above, Text
  <2>4. Len(buffer') + maxlen' = HTTPD_FILENAME_MAX_LENGTH
    BY <1>0, <2>1, Settings
  <2> QED BY <1>0, <2>1, <2>2, <2>3, <2>4
<1>2. CASE ~ Enters
  <2>1. Plain /\ UNCHANGED << stream, begin >>
    <3>1. open /\ InPath /\ UNCHANGED << stream, begin >>
      <4>1. CASE Stays
        BY <4>1 DEF Stays, Plain
      <4>2. CASE ReadsOne
        BY <4>2 DEF ReadsOne, Plain, InPath
      <4>3. CASE Opens \/ Drops
        BY <4>3 DEF Opens, Drops, GoesOn, InPath
      <4> QED BY <1>0, <1>2, <4>1, <4>2, <4>3
    <3>2. FromStart /\ PlainUrl
      BY <3>1, SameUrl DEF Plain, FromStart
    <3> QED BY <3>1, <3>2 DEF Plain
  <2>2. /\ Got = Above(dirnode) \o buffer /\ NoSlash(buffer)
        /\ Len(buffer) + maxlen = HTTPD_FILENAME_MAX_LENGTH
        /\ pc = "word" => stream[taken] \in {"/"} \cup End
        /\ pc = "file" => stream[taken] \in End
    BY <2>1 DEF PlainInv
  <2>3. /\ Got \in Text /\ Upto \in Nat
        /\ Upto' = Upto => Got' = Got
        /\ Upto' = Upto + 1 /\ Upto' \in 1 .. Len(stream) =>
              Got' = Append(Got, stream[Upto']) /\ stream[Upto'] \in Char
    BY <2>1, GotSteps DEF Plain
  <2>4. CASE Stays
    <3>1. /\ Got' = Got /\ UNCHANGED << stream, dirnode, buffer, maxlen >>
      BY <2>3, <2>4 DEF Stays
    <3>2. pc' = "word" => stream'[taken'] \in {"/"} \cup End
      <4>1. ASSUME Ends PROVE stream[taken'] \in {"/"} \cup End
        <5>1. pc = "path" /\ taken' = taken + 1 /\ taken' \in 1 .. Len(stream)
          BY <4>1 DEF Ends
        <5>2. Upto + 1 = taken' /\ Upto < Len(stream) /\ stream[taken'] = stream[Upto + 1]
          <6>1. taken \in Nat /\ Len(stream) \in Nat
            <7>1. Len(stream) \in Nat
              BY Streams DEF Shaped, TypeOK
            <7> QED BY <7>1 DEF Shaped, TypeOK
          <6>2. Upto = taken
            BY <5>1 DEF Upto
          <6> QED BY <5>1, <6>1, <6>2
        <5>3. maxlen = 0 \/ stream[Upto + 1] \in Separators
          BY <4>1, <5>2 DEF Ends
        <5>4. stream[Upto + 1] \in {"/"} \cup End
          BY <2>1, <5>2, <5>3, PlainEnds
        <5> QED BY <5>2, <5>4
      <4> QED BY <2>2, <2>4, <3>1, <4>1 DEF Stays
    <3>3. pc' = "file" => stream'[taken'] \in End
      <4>1. pc = "word" => status = StatusOf(stream[taken])
        BY <2>1 DEF GotInv, Plain
      <4>2. StatusOf("/") = "PATH"
        BY DEF StatusOf
      <4> QED BY <2>2, <2>4, <3>1, <4>1, <4>2 DEF Stays
    <3> QED BY <2>2, <3>1, <3>2, <3>3
  <2>5. CASE ReadsOne
    <3> DEFINE c == stream[Upto']
    <3>1. pc = "path" /\ pc' = "path"
      BY <2>1, <2>5 DEF ReadsOne, Plain, InPath
    <3>2. /\ c \in Char /\ c # "/" /\ Got' = Append(Got, c)
          /\ buffer' = Append(buffer, c) /\ dirnode' = dirnode /\ maxlen' = maxlen - 1
      BY <2>3, <2>5, <3>1 DEF ReadsOne, Separators
    <3> HIDE DEF c
    <3>3. Got' = Above(dirnode) \o buffer'
      BY <1>0, <2>2, <3>2, AppendBehind
    <3>4. Len(buffer') = Len(buffer) + 1 /\ NoSlash(buffer')
      <4>1. /\ Len(buffer') = Len(buffer) + 1 /\ buffer' \in Text
            /\ \A i \in 1 .. Len(buffer) : buffer'[i] = buffer[i]
            /\ buffer'[Len(buffer) + 1] = c
        BY <1>0, <3>2, AppendProperties DEF Text
      <4>2. DOMAIN buffer' = 1 .. Len(buffer) + 1 /\ DOMAIN buffer = 1 .. Len(buffer)
        BY <1>0, <4>1, LenProperties DEF Text
      <4> QED BY <1>0, <2>2, <3>2, <4>1, <4>2 DEF NoSlash
    <3>5. Len(buffer') + maxlen' = HTTPD_FILENAME_MAX_LENGTH
      <4> DEFINE a == Len(buffer')
                 b == maxlen'
      <4>1. a = Len(buffer) + 1 /\ b = maxlen - 1
        BY <3>2, <3>4
      <4> HIDE DEF a, b
      <4>2. a + b = HTTPD_FILENAME_MAX_LENGTH
        BY <1>0, <2>2, <4>1
      <4> QED BY <4>2 DEF a, b
    <3> QED BY <3>1, <3>2, <3>3, <3>4, <3>5
  <2>6. CASE Opens
    <3>1. /\ pc' = "path" /\ dirnode' = Entry /\ buffer' = << >> /\ maxlen' = HTTPD_FILENAME_MAX_LENGTH
          /\ stream[taken] = "/" /\ Upto' = Upto + 1 /\ Upto' = taken /\ taken \in 1 .. Len(stream)
      BY <2>6 DEF Opens, GoesOn
    <3>2. Got' = Append(Got, "/") /\ "/" \in Char
      BY <2>3, <3>1
    <3>3. Got' = Got \o << "/" >>
      BY <2>3, <3>2, AppendIsConcat DEF Text
    <3>4. Above(Entry) = (Above(dirnode) \o buffer) \o << "/" >> /\ Above(Entry) \in Text
      <4>1. Above(Entry) = (Above(dirnode) \o buffer) \o << "/" >> /\ Entry \in Paths
        BY <1>0, AboveEntry DEF Entry
      <4> QED BY <1>0, <4>1, AboveEntry
    <3>5. Got' = Above(dirnode') \o buffer'
      BY <2>2, <3>1, <3>3, <3>4, ConcatEmptySeq DEF Text
    <3>6. Len(buffer') + maxlen' = HTTPD_FILENAME_MAX_LENGTH
      BY <1>0, <3>1, Settings
    <3> QED BY <1>0, <3>1, <3>5, <3>6
  <2>7. CASE Drops
    BY <2>2, <2>7 DEF Drops, GoesOn, End
  <2> QED BY <1>0, <1>2, <2>4, <2>5, <2>6, <2>7
<1> QED BY <1>1, <1>2

(* What is behind a part of a URL is, for an entry that the URL names, the *)
(* rest of the URL, with .gz behind it or not.                             *)
LEMMA NamedUrl ==
    ASSUME NEW p, Named(p), NEW w \in Text, NEW rest \in Text, Url = w \o rest
    PROVE  \E z \in {<< >>, GZ} : UrlOf(p) = w \o (rest \o z) /\ z \in Text
<1>0. GZ \in Text /\ << >> \in Text /\ rest \o << >> = rest
  BY Settings, ConcatEmptySeq DEF Text
<1>1. CASE UrlOf(p) = Url
  BY <1>0, <1>1
<1>2. CASE UrlOf(p) = Url \o GZ
  <2>1. (w \o rest) \o GZ = w \o (rest \o GZ)
    BY <1>0, Associates
  <2> QED BY <1>0, <1>2, <2>1
<1> QED BY <1>1, <1>2 DEF Named

(* The directory or file behind a slash: every entry that the URL names    *)
(* lies strictly below it.                                                 *)
LEMMA BehindSlash ==
    ASSUME Shaped, NEW d \in Paths, NEW name \in Text, NoSlash(name),
           NEW rest \in Text, Url = ((Above(d) \o name) \o << "/" >>) \o rest,
           NEW p \in DOMAIN Tree, Named(p), Below(p, d)
    PROVE  Below(p, Append(d, name))
<1>0. << "/" >> \in Text /\ Above(d) \in Text
  BY Strings, AboveEntry
<1> DEFINE w == Above(d) \o name
<1>1. w \in Text /\ w \o << "/" >> \in Text
  BY <1>0, ConcatProperties DEF Text
<1> HIDE DEF w
<1>2. Url = (w \o << "/" >>) \o rest
  BY DEF w
<1>3. PICK z \in {<< >>, GZ} : UrlOf(p) = (w \o << "/" >>) \o (rest \o z) /\ z \in Text
  BY <1>1, <1>2, NamedUrl
<1> DEFINE more == rest \o z
           r == << "/" >> \o more
<1>4. more \in Text
  BY <1>3, ConcatProperties DEF Text
<1>5. UrlOf(p) = w \o r
  <2> HIDE DEF more
  <2>1. (w \o << "/" >>) \o more = w \o (<< "/" >> \o more)
    BY <1>0, <1>1, <1>4, ConcatAssociative DEF Text
  <2> QED BY <1>3, <2>1 DEF more
<1>6. r \in Text /\ r # << >> /\ r[1] = "/"
  <2> HIDE DEF more
  <2> DEFINE one == << "/" >>
  <2>1. Len(one) = 1 /\ one[1] = "/" /\ one \in Text
    BY <1>0
  <2> HIDE DEF one
  <2>2. Len(more) \in Nat /\ 1 \in 1 .. 1 + Len(more)
    BY <1>4, LenProperties DEF Text
  <2>3. one \o more \in Text /\ Len(one \o more) = 1 + Len(more) /\ (one \o more)[1] = one[1]
    <3>1. /\ one \o more \in Text /\ Len(one \o more) = Len(one) + Len(more)
          /\ \A i \in 1 .. Len(one) + Len(more) :
                (one \o more)[i] = IF i <= Len(one) THEN one[i] ELSE more[i - Len(one)]
      BY <1>4, <2>1, ConcatProperties DEF Text
    <3>2. 1 \in 1 .. Len(one) + Len(more) /\ 1 <= Len(one)
      BY <2>1, <2>2
    <3>3. (one \o more)[1] = one[1]
      BY <3>1, <3>2
    <3> QED BY <2>1, <3>1, <3>3
  <2>4. one \o more # << >>
    <3>1. Len(one \o more) # 0
      BY <2>2, <2>3
    <3> QED BY <3>1, EmptySeq
  <2> QED BY <2>1, <2>3, <2>4 DEF one
<1> HIDE DEF r
<1>7. /\ SubSeq(p, 1, Len(d) + 1) = Append(d, name) /\ Len(d) + 1 <= Len(p)
      /\ Len(p) # Len(d) + 1
  <2>1. Slashed(r)
    BY <1>6 DEF Slashed
  <2>2. UrlOf(p) = (Above(d) \o name) \o r
    BY <1>5 DEF w
  <2> QED BY <1>6, <2>1, <2>2, ToName
<1>8. Len(Append(d, name)) = Len(d) + 1 /\ Len(d) \in Nat /\ Len(p) \in Nat
  <2>1. p \in Paths
    BY Settings
  <2> QED BY <2>1, AppendProperties, LenProperties DEF Paths
<1> QED BY <1>7, <1>8 DEF Below

(* A word has been read up to its separator.                               *)
LEMMA WordRead ==
    ASSUME Shaped, GotInv, PlainInv, Plain, pc \in {"word", "file"}
    PROVE  /\ Got = Above(dirnode) \o buffer /\ NoSlash(buffer) /\ Got \in Text
           /\ Upto = taken - 1 /\ Upto \in Nat /\ begin \in Nat /\ begin <= Upto /\ Upto + 1 = taken
           /\ taken \in 1 .. Len(stream) /\ Len(stream) \in Nat /\ stream \in Text
           /\ \A i \in (begin + 1) .. Upto : stream[i] \notin End
<1>1. /\ stream \in Text /\ Len(stream) \in Nat
  BY Streams DEF Shaped, TypeOK
<1>2. /\ begin \in Nat /\ arrived \in 0 .. Len(stream) /\ taken \in 0 .. arrived
  BY <1>1 DEF Shaped, TypeOK
<1>3. begin <= Upto /\ \A i \in (begin + 1) .. Upto : stream[i] \notin End
  BY DEF GotInv, Plain
<1>4. Upto = taken - 1
  BY DEF Upto
<1>5. Upto \in Nat /\ taken \in 1 .. Len(stream) /\ Upto + 1 = taken
  BY <1>1, <1>2, <1>3, <1>4
<1>6. Got \in Text
  <2>1. begin + 1 \in Nat \ {0} /\ Upto \in Int /\ Upto <= Len(stream)
    BY <1>1, <1>2, <1>5
  <2> QED BY <1>1, <2>1, Slice DEF Got
<1> QED BY <1>1, <1>2, <1>3, <1>4, <1>5, <1>6 DEF PlainInv

LEMMA SlashRead ==
    ASSUME Shaped, GotInv, PlainInv, Plain, pc = "word", stream[taken] = "/"
    PROVE  \E rest \in Text : Url = ((Above(dirnode) \o buffer) \o << "/" >>) \o rest
<1>1. /\ Got = Above(dirnode) \o buffer /\ Got \in Text
      /\ Upto \in Nat /\ begin \in Nat /\ begin <= Upto /\ Upto + 1 = taken
      /\ taken \in 1 .. Len(stream) /\ Len(stream) \in Nat /\ stream \in Text
      /\ \A i \in (begin + 1) .. Upto : stream[i] \notin End
  BY WordRead
<1>2. taken < Len(stream)
  <2>1. stream[Len(stream)] = " "
    BY Streams DEF Shaped, TypeOK
  <2>2. taken # Len(stream)
    BY <2>1
  <2>3. taken \in 1 .. Len(stream) /\ Len(stream) \in Nat
    BY <1>1
  <2> QED BY <2>2, <2>3
<1>3. SubSeq(stream, begin + 1, taken) = Append(Got, "/") /\ "/" \in Char
  <2>1. Upto < Len(stream)
    BY <1>1, <1>2
  <2> QED BY <1>1, <2>1, OneMoreRead DEF Got
<1>4. Append(Got, "/") = (Above(dirnode) \o buffer) \o << "/" >>
  BY <1>1, <1>3, AppendIsConcat DEF Text
<1>5. taken \in Nat /\ begin <= taken /\ \A i \in (begin + 1) .. taken : stream[i] \notin End
  <2>1. stream[taken] \notin End
    BY DEF End
  <2> QED BY <1>1, <2>1
<1>6. FromStart
  BY DEF Plain
<1>7. \E rest \in Text : Url = SubSeq(stream, begin + 1, taken) \o rest
  BY <1>2, <1>5, <1>6, UrlRead
<1> QED BY <1>3, <1>4, <1>7

(* The whole URL has been read.                                            *)
LEMMA WholeUrl ==
    ASSUME Shaped, GotInv, PlainInv, Plain, pc = "file"
    PROVE  Url = Above(dirnode) \o buffer /\ Url \in Text
<1>1. /\ Got = Above(dirnode) \o buffer
      /\ Upto \in Nat /\ begin \in Nat /\ begin <= Upto /\ Upto + 1 = taken
      /\ taken \in 1 .. Len(stream) /\ Len(stream) \in Nat /\ stream \in Text
      /\ \A i \in (begin + 1) .. Upto : stream[i] \notin End
  BY WordRead
<1>2. stream[Upto + 1] \in End /\ FromStart
  BY <1>1 DEF PlainInv, Plain
<1>3. Upto < Len(stream)
  BY <1>1
<1> QED BY <1>1, <1>2, <1>3, UrlRead DEF Got

LEMMA PathsNext ==
    ASSUME Shaped, StartInv, GotInv, PlainInv, PlainInv', GotInv', Shaped', PathsInv, [Next]_vars
    PROVE  PathsInv'
<1> SUFFICES ASSUME Plain', NEW p \in DOMAIN Tree, Named(p)'
             PROVE  Below(p, dirnode')
  BY DEF PathsInv
<1>0. /\ Enters \/ Stays \/ ReadsOne \/ Opens \/ Drops
      /\ dirnode \in Paths /\ buffer \in Text /\ stream' = stream
      /\ p \in Paths /\ p # << >> /\ Len(p) \in Nat /\ Len(p) > 0
  <2>1. open' /\ InPath' /\ ~ ToCard
    BY DEF Plain, ToCard, InPath
  <2>2. Enters \/ Stays \/ ReadsOne \/ Opens \/ Drops
    BY <2>1, Kinds
  <2>3. stream' = stream
    BY <2>2 DEF Enters, Stays, ReadsOne, Opens, Drops, GoesOn
  <2>4. p \in Paths /\ p # << >>
    BY Settings DEF Named
  <2>5. Len(p) \in Nat /\ Len(p) > 0
    BY <2>4, EmptySeq DEF Paths
  <2> QED BY <2>2, <2>3, <2>4, <2>5, Settings DEF Shaped, TypeOK
<1>1. Url' = Url /\ (PlainUrl' <=> PlainUrl)
  BY <1>0, SameUrl
<1>2. Named(p)
  BY <1>1 DEF Named
<1>3. CASE Enters
  <2>1. dirnode' = << >> /\ Len(<< >>) = 0
    BY <1>3 DEF Enters
  <2>2. SubSeq(p, 1, 0) = << >>
    BY SubSeqEmpty
  <2> QED BY <1>0, <2>1, <2>2 DEF Below
<1>4. CASE ~ Enters
  <2>1. open /\ InPath /\ begin' = begin
    <3>1. CASE Stays
      BY <3>1 DEF Stays, Plain
    <3>2. CASE ReadsOne
      BY <3>2 DEF ReadsOne, Plain, InPath
    <3>3. CASE Opens \/ Drops
      BY <3>3 DEF Opens, Drops, GoesOn, InPath
    <3> QED BY <1>0, <1>4, <3>1, <3>2, <3>3
  <2>2. Plain
    BY <1>0, <1>1, <2>1 DEF Plain, FromStart
  <2>3. Below(p, dirnode)
    BY <1>2, <2>2 DEF PathsInv
  <2>4. CASE Stays \/ ReadsOne \/ Drops
    BY <2>3, <2>4 DEF Stays, ReadsOne, Drops
  <2>5. CASE Opens
    <3>1. /\ dirnode' = Append(dirnode, buffer) /\ Upto' = taken /\ pc' = "path" /\ taken' = taken
          /\ taken \in 1 .. Len(stream) /\ stream[taken] = "/" /\ buffer' = << >>
      BY <2>5 DEF Opens, GoesOn, Entry
    <3>2. Got = Above(dirnode) \o buffer /\ NoSlash(buffer)
      BY <2>2 DEF PlainInv
    <3>3. PICK rest \in Text : Url = ((Above(dirnode) \o buffer) \o << "/" >>) \o rest
      BY <2>2, <2>5, <3>1, SlashRead DEF Opens, GoesOn
    <3> QED BY <1>0, <1>2, <2>3, <3>1, <3>2, <3>3, BehindSlash
  <2> QED BY <1>0, <1>4, <2>4, <2>5
<1> QED BY <1>3, <1>4
-----------------------------------------------------------------------------
(* What is answered stays.                                                 *)
LEMMA DoneStays ==
    ASSUME pc = "done", [Next]_vars
    PROVE  UNCHANGED << stream, taken, pc, buffer, answer, filenode, type, begin >>
BY DEF Next, Server, Arrive, HangUp, ReadMethod, NoMethod, MethodStatus, SkipMethod, NoSkip, SkipStatus,
       ReadChar, NoChar, PathStatus, Delegate, OpenDirectory, NoDirectory, EndOfPath, DropWord, OpenFile,
       MmcChar, MmcNoChar, MmcStatus, MmcOpen, vars, netVars, pathVars

LEMMA WhoAnswers ==
    ASSUME StartInv, pc # "done", [Next]_vars
    PROVE  /\ answer' = "404" => NoDirectory \/ OpenFile
           /\ answer' \in {"200", "200 gzip"} => OpenFile
           /\ answer' = "200 mmc" => MmcOpen
           /\ type' # "none" => OpenFile \/ MmcOpen
<1>1. answer = "none" /\ type = "none"
  BY DEF StartInv
<1>2. CASE UNCHANGED << answer, type >>
  BY <1>1, <1>2
<1>3. CASE ReadMethod \/ MethodStatus \/ Delegate \/ NoDirectory
  BY <1>1, <1>3 DEF ReadMethod, MethodStatus, Delegate, NoDirectory, Answer
<1>4. CASE OpenFile
  BY <1>1, <1>4 DEF OpenFile, Found, Answer
<1>5. CASE MmcOpen
  BY <1>1, <1>5 DEF MmcOpen, Answer
<1> QED BY <1>2, <1>3, <1>4, <1>5
        DEF Next, Server, Arrive, HangUp, NoMethod, SkipMethod, NoSkip, SkipStatus, ReadChar, NoChar, PathStatus,
            OpenDirectory, EndOfPath, DropWord, MmcChar, MmcNoChar, MmcStatus, vars, netVars, pathVars

LEMMA NotFoundNext ==
    ASSUME Shaped, StartInv, GotInv, PlainInv, PathsInv, NotFoundIsNotThere, [Next]_vars
    PROVE  NotFoundIsNotThere'
<1>1. CASE pc = "done"
  <2>1. UNCHANGED << stream, answer, begin >>
    BY <1>1, DoneStays
  <2>2. Url' = Url /\ (PlainUrl' <=> PlainUrl)
    BY <2>1, SameUrl
  <2> QED BY <2>1, <2>2 DEF NotFoundIsNotThere, FromStart
<1>2. CASE pc # "done"
  <2> SUFFICES ASSUME answer' = "404", FromStart', PlainUrl', NEW p \in DOMAIN Tree \ {<< >>}
               PROVE  UrlOf(p) \notin {Url', Url' \o GZ}
    BY DEF NotFoundIsNotThere
  <2>1. /\ NoDirectory \/ OpenFile
        /\ UNCHANGED << stream, begin >>
    <3>1. NoDirectory \/ OpenFile
      BY <1>2, WhoAnswers
    <3> QED BY <3>1 DEF NoDirectory, OpenFile, netVars
  <2>2. open /\ pc \in {"word", "file"}
    <3>1. pc \in {"word", "file"} /\ answer # "404"
      BY <2>1 DEF NoDirectory, OpenFile, StartInv
    <3> QED BY <2>1, <3>1 DEF NoDirectory, OpenFile, Found, Answer
  <2>3. Url' = Url /\ (PlainUrl' <=> PlainUrl)
    BY <2>1, SameUrl
  <2>4. Plain
    BY <2>1, <2>2, <2>3 DEF Plain, FromStart, InPath
  <2>5. SUFFICES ASSUME Named(p) PROVE FALSE
    BY <2>3 DEF Named
  <2>6. /\ Below(p, dirnode) /\ p \in Paths /\ dirnode \in Paths /\ buffer \in Text
        /\ Above(dirnode) \in Text /\ NoSlash(buffer) /\ Entry \in Paths
        /\ Len(p) \in Nat /\ SubSeq(p, 1, Len(p)) = p
    <3>1. dirnode \in Paths /\ buffer \in Text /\ p \in Paths
      BY Settings DEF Shaped, TypeOK
    <3>2. Above(dirnode) \in Text /\ Entry \in Paths
      BY <3>1, AboveEntry DEF Entry
    <3>3. Len(p) \in Nat /\ SubSeq(p, 1, Len(p)) = p
      BY <3>1, LenProperties, SubSeqFull DEF Paths
    <3>4. Below(p, dirnode)
      BY <2>4, <2>5 DEF PathsInv
    <3>5. NoSlash(buffer)
      BY <2>4 DEF PlainInv
    <3> QED BY <3>1, <3>2, <3>3, <3>4, <3>5
  <2>7. CASE NoDirectory
    <3>1. pc = "word" /\ status = "PATH" /\ ~ (Entry \in DOMAIN Tree /\ Tree[Entry] = "dir")
      BY <2>7 DEF NoDirectory
    <3>2. stream[taken] = "/"
      <4>1. status = StatusOf(stream[taken])
        BY <2>4, <3>1 DEF GotInv, Plain
      <4> QED BY <3>1, <4>1 DEF StatusOf
    <3>3. PICK rest \in Text : Url = ((Above(dirnode) \o buffer) \o << "/" >>) \o rest
      BY <2>4, <3>1, <3>2, SlashRead
    <3>4. Below(p, Entry)
      BY <2>5, <2>6, <3>3, BehindSlash DEF Entry
    <3>5. Len(Entry) \in 0 .. Len(p) - 1 /\ SubSeq(p, 1, Len(Entry)) = Entry
      <4>1. Len(Entry) \in Nat
        BY <2>6, LenProperties DEF Paths
      <4> QED BY <2>6, <3>4, <4>1 DEF Below
    <3>6. SubSeq(p, 1, Len(Entry)) \in DOMAIN Tree /\ Tree[SubSeq(p, 1, Len(Entry))] = "dir"
      <4>1. \A n \in 0 .. Len(p) - 1 :
               SubSeq(p, 1, n) \in DOMAIN Tree /\ Tree[SubSeq(p, 1, n)] = "dir"
        BY RequestAssumption, Zenon
      <4> QED BY <3>5, <4>1, Zenon
    <3> QED BY <3>1, <3>5, <3>6
  <2>8. CASE OpenFile
    <3>1. /\ pc = "file" /\ Entry \notin DOMAIN Tree /\ Append(dirnode, buffer \o GZ) \notin DOMAIN Tree
      BY <2>8 DEF OpenFile, Found, Answer, StartInv
    <3>2. Url = Above(dirnode) \o buffer /\ Url \in Text
      BY <2>4, <3>1, WholeUrl
    <3>3. GZ \in Text /\ NoSlash(GZ) /\ << >> \in Text /\ Slashed(<< >>)
      BY Settings, RequestAssumption DEF Slashed
    <3>4. ASSUME NEW name \in Text, NoSlash(name), UrlOf(p) = Above(dirnode) \o name
          PROVE  p = Append(dirnode, name)
      <4>1. UrlOf(p) = (Above(dirnode) \o name) \o << >>
        <5>1. Above(dirnode) \o name \in Text
          BY <2>6, <3>4, ConcatProperties DEF Text
        <5> QED BY <3>4, <5>1, ConcatEmptySeq DEF Text
      <4>2. SubSeq(p, 1, Len(dirnode) + 1) = Append(dirnode, name) /\ Len(p) = Len(dirnode) + 1
        BY <2>6, <3>3, <3>4, <4>1, ToName
      <4> QED BY <2>6, <4>2
    <3>5. CASE UrlOf(p) = Url
      <4>1. p = Entry
        BY <2>6, <3>2, <3>4, <3>5 DEF Entry
      <4> QED BY <3>1, <4>1
    <3>6. CASE UrlOf(p) = Url \o GZ
      <4>1. Url \o GZ = Above(dirnode) \o (buffer \o GZ) /\ buffer \o GZ \in Text
        BY <2>6, <3>2, <3>3, ConcatAssociative, ConcatProperties DEF Text
      <4>2. NoSlash(buffer \o GZ)
        <5>1. /\ Len(buffer) \in Nat /\ Len(GZ) \in Nat
              /\ DOMAIN buffer = 1 .. Len(buffer) /\ DOMAIN GZ = 1 .. Len(GZ)
              /\ DOMAIN (buffer \o GZ) = 1 .. Len(buffer) + Len(GZ)
          BY <2>6, <3>3, <4>1, ConcatProperties, LenProperties DEF Text
        <5>2. ASSUME NEW k \in 1 .. Len(buffer) + Len(GZ) PROVE (buffer \o GZ)[k] # "/"
          <6>1. (buffer \o GZ)[k] = IF k <= Len(buffer) THEN buffer[k] ELSE GZ[k - Len(buffer)]
            BY <2>6, <3>3, ConcatProperties DEF Text
          <6>2. CASE k <= Len(buffer)
            BY <2>6, <5>1, <6>1, <6>2 DEF NoSlash
          <6>3. CASE ~ (k <= Len(buffer))
            <7>1. k - Len(buffer) \in DOMAIN GZ
              BY <5>1, <6>3
            <7> QED BY <3>3, <6>1, <6>3, <7>1 DEF NoSlash
          <6> QED BY <6>2, <6>3
        <5> QED BY <5>1, <5>2 DEF NoSlash
      <4>3. p = Append(dirnode, buffer \o GZ)
        BY <3>4, <3>6, <4>1, <4>2
      <4> QED BY <3>1, <4>3
    <3> QED BY <2>5, <3>5, <3>6 DEF Named
  <2> QED BY <2>1, <2>7, <2>8
<1> QED BY <1>1, <1>2
-----------------------------------------------------------------------------
(* What the program knows of the URL while it reads it.                    *)
Reading == Shaped /\ StartInv /\ GotInv /\ WordInv /\ PlainInv /\ PathsInv

LEMMA ReadingInit == Init => Reading
<1> SUFFICES ASSUME Init PROVE Reading
  OBVIOUS
<1>1. Shaped
  BY ShapedInit
<1>2. pc = "method" /\ answer = "none" /\ type = "none"
      /\ buffer = << >> /\ dirnode = << >> /\ maxlen = HTTPD_FILENAME_MAX_LENGTH
  BY DEF Init
<1>3. ~ InPath /\ ~ InMmc
  BY <1>2 DEF InPath, InMmc
<1> QED BY <1>1, <1>2, <1>3 DEF Reading, StartInv, GotInv, WordInv, PlainInv, PathsInv, Plain

LEMMA ReadingNext == Reading /\ [Next]_vars => Reading'
<1> SUFFICES ASSUME Reading, [Next]_vars PROVE Reading'
  OBVIOUS
<1>1. Shaped /\ StartInv /\ GotInv /\ WordInv /\ PlainInv /\ PathsInv
  BY DEF Reading
<1>2. Shaped'
  BY <1>1, ShapedNext
<1>3. StartInv'
  BY <1>1, StartNext
<1>4. GotInv'
  BY <1>1, GotNext
<1>5. WordInv'
  BY <1>1, WordNext
<1>6. PlainInv'
  BY <1>1, PlainNext
<1>7. PathsInv'
  BY <1>1, <1>2, <1>4, <1>6, PathsNext
<1> QED BY <1>2, <1>3, <1>4, <1>5, <1>6, <1>7 DEF Reading

(* A client that is told 404 asked for nothing that is in the tree, for    *)
(* any requests, any tree, and a request that comes in any pieces          *)
(* (httpd.c:239-329).                                                      *)
THEOREM NotFoundIsNeverThere == Spec => []NotFoundIsNotThere
<1>1. Init => Reading /\ NotFoundIsNotThere
  <2>1. Init => answer = "none"
    BY DEF Init
  <2> QED BY <2>1, ReadingInit DEF NotFoundIsNotThere
<1>2. Reading /\ NotFoundIsNotThere /\ [Next]_vars => Reading' /\ NotFoundIsNotThere'
  <2>1. Reading => Shaped /\ StartInv /\ GotInv /\ PlainInv /\ PathsInv
    BY DEF Reading
  <2> QED BY <2>1, ReadingNext, NotFoundNext
<1> QED BY <1>1, <1>2, PTL DEF Spec
-----------------------------------------------------------------------------
(* What a text ends with.                                                  *)
LEMMA ReverseIs ==
    ASSUME NEW s \in Text
    PROVE  /\ Reverse(s) \in Text /\ Len(Reverse(s)) = Len(s)
           /\ \A i \in 1 .. Len(s) : Reverse(s)[i] = s[(Len(s) - i) + 1]
<1>1. Len(s) \in Nat
  BY LenProperties DEF Text
<1>2. ASSUME NEW i \in 1 .. Len(s) PROVE s[(Len(s) - i) + 1] \in Char
  <2>1. (Len(s) - i) + 1 \in 1 .. Len(s)
    BY <1>1
  <2> QED BY <2>1, ElementOfSeq DEF Text
<1>3. Reverse(s) = [i \in 1 .. Len(s) |-> s[(Len(s) - i) + 1]]
  BY DEF Reverse
<1>4. Reverse(s) \in [1 .. Len(s) -> Char]
  BY <1>2, <1>3
<1> QED BY <1>1, <1>3, <1>4 DEF Text

LEMMA SuffixIs ==
    ASSUME NEW s \in Text, NEW t \in Text
    PROVE  IsSuffix(s, t) <=>
              Len(s) <= Len(t) /\ \A i \in 1 .. Len(s) : s[(Len(s) - i) + 1] = t[(Len(t) - i) + 1]
<1> DEFINE u == Reverse(s)
           v == Reverse(t)
<1>1. /\ Len(s) \in Nat /\ Len(t) \in Nat /\ u \in Text /\ v \in Text
      /\ Len(u) = Len(s) /\ Len(v) = Len(t)
      /\ \A i \in 1 .. Len(s) : u[i] = s[(Len(s) - i) + 1]
      /\ \A i \in 1 .. Len(t) : v[i] = t[(Len(t) - i) + 1]
  BY ReverseIs, LenProperties DEF Text
<1>2. IsSuffix(s, t) <=> Len(u) <= Len(v) /\ SubSeq(u, 1, Len(u)) = SubSeq(v, 1, Len(u))
  BY DEF IsSuffix, IsPrefix
<1> HIDE DEF u, v
<1>3. SubSeq(u, 1, Len(u)) = u
  BY <1>1, SubSeqFull DEF Text
<1>4. ASSUME Len(s) <= Len(t)
      PROVE  u = SubSeq(v, 1, Len(s)) <=> \A i \in 1 .. Len(s) : u[i] = v[i]
  <2> DEFINE w == SubSeq(v, 1, Len(s))
  <2>1. /\ w \in Text /\ Len(w) = Len(s) /\ \A i \in 1 .. Len(s) : w[i] = v[i]
    <3>1. 1 \in Nat \ {0} /\ Len(s) \in Int /\ Len(s) <= Len(v) /\ Len(s) - 1 + 1 = Len(s)
          /\ (1 <= Len(s) \/ Len(s) = 0)
      BY <1>1, <1>4
    <3>2. /\ w \in Text
          /\ Len(w) = IF 1 <= Len(s) THEN Len(s) - 1 + 1 ELSE 0
          /\ \A i \in 1 .. (Len(s) - 1 + 1) : w[i] = v[1 + i - 1]
      BY <1>1, <3>1, Slice
    <3>3. \A i \in 1 .. Len(s) : 1 + i - 1 = i
      BY <1>1
    <3> HIDE DEF w
    <3> QED BY <1>1, <3>1, <3>2, <3>3
  <2> HIDE DEF w
  <2>2. u = w <=> \A i \in 1 .. Len(s) : u[i] = w[i]
    BY <1>1, <2>1, SeqEqual DEF Text
  <2>3. u = w <=> \A i \in 1 .. Len(s) : u[i] = v[i]
    BY <2>1, <2>2
  <2> QED BY <2>3 DEF w
<1>5. Len(s) <= Len(t) => \A i \in 1 .. Len(s) : i \in 1 .. Len(t)
  BY <1>1
<1>6. ASSUME Len(s) <= Len(t)
      PROVE  (\A i \in 1 .. Len(s) : u[i] = v[i]) <=>
             (\A i \in 1 .. Len(s) : s[(Len(s) - i) + 1] = t[(Len(t) - i) + 1])
  BY <1>1, <1>5, <1>6
<1> QED BY <1>1, <1>2, <1>3, <1>4, <1>6

LEMMA Ending ==
    ASSUME NEW s \in Text, NEW x \in Text
    PROVE  IsSuffix(s, x \o s)
<1>1. /\ Len(s) \in Nat /\ Len(x) \in Nat /\ x \o s \in Text /\ Len(x \o s) = Len(x) + Len(s)
      /\ \A k \in 1 .. Len(x) + Len(s) : (x \o s)[k] = IF k <= Len(x) THEN x[k] ELSE s[k - Len(x)]
  BY ConcatProperties, LenProperties DEF Text
<1>2. ASSUME NEW i \in 1 .. Len(s) PROVE s[(Len(s) - i) + 1] = (x \o s)[((Len(x) + Len(s)) - i) + 1]
  <2> DEFINE k == ((Len(x) + Len(s)) - i) + 1
  <2>1. k \in 1 .. Len(x) + Len(s) /\ ~ (k <= Len(x)) /\ k - Len(x) = (Len(s) - i) + 1
    BY <1>1
  <2> HIDE DEF k
  <2>2. (x \o s)[k] = s[k - Len(x)]
    BY <1>1, <2>1
  <2> QED BY <2>1, <2>2 DEF k
<1> DEFINE t == x \o s
<1>3. t \in Text /\ Len(t) = Len(x) + Len(s) /\ Len(s) <= Len(t)
  BY <1>1
<1>4. \A i \in 1 .. Len(s) : s[(Len(s) - i) + 1] = t[(Len(t) - i) + 1]
  BY <1>1, <1>2
<1> HIDE DEF t
<1>5. IsSuffix(s, t)
  BY <1>3, <1>4, SuffixIs
<1> QED BY <1>5 DEF t

(* The dots of a text that has one at most.                                *)
LEMMA OneDot ==
    ASSUME NEW t \in Text, Dots(t) <= 1, NEW i \in DOMAIN t, NEW j \in DOMAIN t, t[i] = ".", t[j] = "."
    PROVE  i = j
<1> DEFINE S == {k \in DOMAIN t : t[k] = "."}
<1>1. IsFiniteSet(S) /\ Cardinality(S) <= 1 /\ Cardinality(S) \in Nat
  <2>1. DOMAIN t = 1 .. Len(t) /\ Len(t) \in Nat
    BY LenProperties DEF Text
  <2>2. IsFiniteSet(1 .. Len(t)) /\ S \in SUBSET (1 .. Len(t))
    BY <2>1, FS_Interval
  <2>3. IsFiniteSet(S)
    BY <2>2, FS_Subset
  <2>4. Cardinality(S) \in Nat
    BY <2>3, FS_CardinalityType
  <2> QED BY <2>3, <2>4 DEF Dots
<1>2. i \in S /\ j \in S
  OBVIOUS
<1> HIDE DEF S
<1>3. CASE Cardinality(S) = 0
  BY <1>1, <1>2, <1>3, FS_EmptySet
<1>4. CASE Cardinality(S) = 1
  <2>1. PICK x : S = {x}
    BY <1>1, <1>4, FS_Singleton
  <2> QED BY <1>2, <2>1
<1>5. Cardinality(S) = 0 \/ Cardinality(S) = 1
  BY <1>1
<1> QED BY <1>3, <1>4, <1>5

(* The extension of a name is what is behind its first dot.                *)
Dotted(name) == "." \in ToSet(name)
Extension(name) == SubSeq(name, SelectInSeq(name, LAMBDA c : c = ".") + 1, Len(name))

LEMMA FirstDot ==
    ASSUME NEW name \in Text, Dotted(name)
    PROVE  \E j \in 1 .. Len(name) : name[j] = "." /\ Extension(name) = SubSeq(name, j + 1, Len(name))
<1> DEFINE I == {i \in 1 .. Len(name) : name[i] = "."}
<1>1. I \subseteq Nat /\ I # {}
  <2>1. DOMAIN name = 1 .. Len(name)
    BY LenProperties DEF Text
  <2> QED BY <2>1 DEF Dotted, ToSet
<1>2. PICK m \in I : \A k \in I : m <= k
  <2> HIDE DEF I
  <2> QED BY <1>1, LeastNumber
<1>3. Min(I) = m
  <2> HIDE DEF I
  <2>1. Min(I) \in I /\ \A k \in I : Min(I) <= k
    BY <1>2 DEF Min
  <2>2. Min(I) <= m /\ m <= Min(I) /\ m \in Nat /\ Min(I) \in Nat
    BY <1>1, <1>2, <2>1
  <2> QED BY <2>2
<1>4. SelectInSeq(name, LAMBDA c : c = ".") = Min(I)
  BY <1>1 DEF SelectInSeq
<1> QED BY <1>3, <1>4 DEF Extension

LEMMA TypeIs ==
    ASSUME NEW name \in Text
    PROVE  ContentType(name) =
              IF name = << >> THEN "text/html"
              ELSE IF Dotted(name) /\ Extension(name) \in DOMAIN Types THEN Types[Extension(name)]
              ELSE "application/octet-stream"
BY DEF ContentType, Dotted, Extension

LEMMA DotSuffix ==
    ASSUME NEW e \in Text, NEW t \in Text
    PROVE  IsSuffix(<< "." >> \o e, t) <=>
              /\ Len(e) < Len(t) /\ t[Len(t) - Len(e)] = "."
              /\ \A k \in 1 .. Len(e) : e[k] = t[(Len(t) - Len(e)) + k]
<1> DEFINE s == << "." >> \o e
           m == Len(e)
           n == Len(t)
<1>1. << "." >> \in Text /\ Len(<< "." >>) = 1 /\ << "." >>[1] = "."
  <2>1. ASSUME NEW S, NEW c \in S PROVE << c >> \in Seq(S)
    OBVIOUS
  <2>2. "." \in Char
    BY DEF Char
  <2>3. << "." >> \in Text
    BY <2>1, <2>2, Zenon DEF Text
  <2> QED BY <2>3
<1>2. /\ m \in Nat /\ n \in Nat /\ s \in Text /\ Len(s) = 1 + m
      /\ \A k \in 1 .. 1 + m : s[k] = IF k <= 1 THEN "." ELSE e[k - 1]
  <2> DEFINE d == << "." >>
  <2>1. d \in Text /\ Len(d) = 1 /\ d[1] = "."
    BY <1>1
  <2> HIDE DEF d
  <2>2. /\ d \o e \in Text /\ Len(d \o e) = Len(d) + Len(e)
        /\ \A k \in 1 .. Len(d) + Len(e) : (d \o e)[k] = IF k <= Len(d) THEN d[k] ELSE e[k - Len(d)]
    BY <2>1, ConcatProperties DEF Text
  <2>3. \A k \in 1 .. 1 + Len(e) : k <= 1 => k = 1
    BY LenProperties DEF Text
  <2>4. \A k \in 1 .. 1 + Len(e) : (d \o e)[k] = IF k <= 1 THEN "." ELSE e[k - 1]
    BY <2>1, <2>2, <2>3
  <2> QED BY <2>1, <2>2, <2>4, LenProperties DEF Text, d
<1>3. IsSuffix(s, t) <=> 1 + m <= n /\ \A i \in 1 .. 1 + m : s[((1 + m) - i) + 1] = t[(n - i) + 1]
  <2>1. IsSuffix(s, t) <=> Len(s) <= Len(t) /\ \A i \in 1 .. Len(s) : s[(Len(s) - i) + 1] = t[(Len(t) - i) + 1]
    <3> HIDE DEF s
    <3> QED BY <1>2, SuffixIs
  <2>2. Len(s) = 1 + m /\ Len(t) = n
    BY <1>2
  <2> HIDE DEF s, m, n
  <2> QED BY <2>1, <2>2
<1> HIDE DEF s, m, n
<1>4. ASSUME 1 + m <= n, \A i \in 1 .. 1 + m : s[((1 + m) - i) + 1] = t[(n - i) + 1]
      PROVE  t[n - m] = "." /\ \A k \in 1 .. m : e[k] = t[(n - m) + k]
  <2>1. t[n - m] = "."
    <3>1. 1 + m \in 1 .. 1 + m /\ ((1 + m) - (1 + m)) + 1 = 1 /\ (n - (1 + m)) + 1 = n - m /\ 1 \in 1 .. 1 + m
      BY <1>2
    <3>2. s[1] = t[n - m]
      BY <1>4, <3>1
    <3> QED BY <1>2, <3>1, <3>2
  <2>2. ASSUME NEW k \in 1 .. m PROVE e[k] = t[(n - m) + k]
    <3>1. /\ (1 + m) - k \in 1 .. 1 + m /\ ((1 + m) - ((1 + m) - k)) + 1 = k + 1
          /\ (n - ((1 + m) - k)) + 1 = (n - m) + k
          /\ k + 1 \in 1 .. 1 + m /\ ~ (k + 1 <= 1) /\ (k + 1) - 1 = k
      BY <1>2
    <3>2. s[k + 1] = t[(n - m) + k]
      BY <1>4, <3>1
    <3> QED BY <1>2, <3>1, <3>2
  <2> QED BY <2>1, <2>2
<1>5. ASSUME 1 + m <= n, t[n - m] = ".", \A k \in 1 .. m : e[k] = t[(n - m) + k], NEW i \in 1 .. 1 + m
      PROVE  s[((1 + m) - i) + 1] = t[(n - i) + 1]
  <2> DEFINE k == ((1 + m) - i) + 1
  <2>1. k \in 1 .. 1 + m /\ (n - i) + 1 = (n - m) + (k - 1)
    BY <1>2
  <2> HIDE DEF k
  <2>2. CASE k <= 1
    <3>1. k = 1 /\ (n - m) + (k - 1) = n - m
      BY <1>2, <2>1, <2>2
    <3> QED BY <1>2, <1>5, <2>1, <2>2, <3>1 DEF k
  <2>3. CASE ~ (k <= 1)
    <3>1. k - 1 \in 1 .. m
      BY <1>2, <2>1, <2>3
    <3>2. s[k] = e[k - 1]
      BY <1>2, <2>1, <2>3
    <3>3. e[k - 1] = t[(n - m) + (k - 1)]
      BY <1>5, <3>1
    <3> QED BY <2>1, <3>2, <3>3 DEF k
  <2> QED BY <2>2, <2>3
<1>6. 1 + m <= n <=> m < n
  BY <1>2
<1>7. IsSuffix(s, t) <=> m < n /\ t[n - m] = "." /\ \A k \in 1 .. m : e[k] = t[(n - m) + k]
  BY <1>3, <1>4, <1>5, <1>6
<1> QED BY <1>7 DEF s, m, n

(* What is behind a place in a text.                                      *)
LEMMA Rest ==
    ASSUME NEW t \in Text, NEW j \in 1 .. Len(t)
    PROVE  /\ SubSeq(t, j + 1, Len(t)) \in Text /\ Len(SubSeq(t, j + 1, Len(t))) = Len(t) - j
           /\ \A i \in 1 .. Len(t) - j : SubSeq(t, j + 1, Len(t))[i] = t[j + i]
<1> DEFINE x == SubSeq(t, j + 1, Len(t))
<1>1. Len(t) \in Nat
  BY LenProperties DEF Text
<1>2. j + 1 \in Nat \ {0} /\ Len(t) \in Int /\ Len(t) <= Len(t)
  BY <1>1
<1>3. /\ x \in Text
      /\ Len(x) = IF j + 1 <= Len(t) THEN Len(t) - (j + 1) + 1 ELSE 0
      /\ \A i \in 1 .. (Len(t) - (j + 1) + 1) : x[i] = t[(j + 1) + i - 1]
  BY <1>2, Slice
<1> HIDE DEF x
<1>4. Len(t) - (j + 1) + 1 = Len(t) - j /\ (j + 1 <= Len(t) \/ Len(t) - j = 0)
  BY <1>1
<1>5. \A i \in 1 .. Len(t) - j : (j + 1) + i - 1 = j + i
  BY <1>1
<1>6. Len(x) = Len(t) - j
  BY <1>3, <1>4
<1>7. \A i \in 1 .. Len(t) - j : x[i] = t[j + i]
  BY <1>3, <1>4, <1>5
<1> QED BY <1>3, <1>6, <1>7 DEF x

(* The type of a name is what the URL that ends with it says.              *)
LEMMA SameType ==
    ASSUME NEW before \in Text, NEW name \in Text,
           before # << >> => before[Len(before)] = "/",
           name # << >> => Last(name) # "/",
           Dots(before \o name) <= 1
    PROVE  ContentType(name) = TypeSaid(before \o name)
<1> DEFINE t == before \o name
           b == Len(before)
<1>1. /\ b \in Nat /\ Len(name) \in Nat /\ t \in Text /\ Len(t) = b + Len(name) /\ DOMAIN t = 1 .. Len(t)
      /\ \A k \in 1 .. b + Len(name) : t[k] = IF k <= b THEN before[k] ELSE name[k - b]
      /\ DOMAIN name = 1 .. Len(name)
  BY ConcatProperties, LenProperties DEF Text
<1>2. Dots(t) <= 1
  OBVIOUS
<1> HIDE DEF t, b
<1>3. ASSUME NEW e \in DOMAIN Types, IsSuffix(<< "." >> \o e, t)
      PROVE  Dotted(name) /\ Extension(name) = e
  <2>1. e \in Text /\ NoSlash(e) /\ Len(e) \in Nat /\ DOMAIN e = 1 .. Len(e)
    <3>1. e \in Text
      <4>1. e \in Seq(STRING)
        BY RequestAssumption, Zenon
      <4> QED BY <4>1, Strings
    <3>2. NoSlash(e)
      BY RequestAssumption, Zenon
    <3> QED BY <3>1, <3>2, LenProperties DEF Text
  <2> DEFINE d == Len(t) - Len(e)
  <2>2. /\ Len(e) < Len(t) /\ t[d] = "."
        /\ \A k \in 1 .. Len(e) : e[k] = t[d + k]
    BY <1>1, <1>3, <2>1, DotSuffix
  <2>3. d \in 1 .. Len(t) /\ d + Len(e) = Len(t)
    BY <1>1, <2>1, <2>2
  <2> HIDE DEF d
  <2>4. d > b
    <3>1. SUFFICES ASSUME d <= b PROVE FALSE
      BY <1>1, <2>3
    <3>2. b \in 1 .. b + Len(name) /\ b # 0
      BY <1>1, <2>3, <3>1
    <3>3. t[b] = "/"
      <4>1. before # << >>
        BY <3>2, EmptySeq DEF b
      <4>2. t[b] = before[b]
        BY <1>1, <3>2
      <4> QED BY <4>1, <4>2 DEF b
    <3>4. d # b
      BY <2>2, <3>3
    <3>5. b - d \in 1 .. Len(e) /\ d + (b - d) = b
      BY <1>1, <2>1, <2>3, <3>1, <3>4
    <3>6. e[b - d] = "/"
      BY <2>2, <3>3, <3>5
    <3> QED BY <2>1, <3>5, <3>6 DEF NoSlash
  <2>5. d - b \in 1 .. Len(name) /\ name[d - b] = "."
    <3>1. d - b \in 1 .. Len(name) /\ d \in 1 .. b + Len(name) /\ ~ (d <= b)
      BY <1>1, <2>3, <2>4
    <3> QED BY <1>1, <2>2, <3>1
  <2>6. Dotted(name)
    BY <1>1, <2>5 DEF Dotted, ToSet
  <2>7. PICK j \in 1 .. Len(name) : name[j] = "." /\ Extension(name) = SubSeq(name, j + 1, Len(name))
    BY <2>6, FirstDot
  <2>8. b + j = d
    <3>1. b + j \in 1 .. b + Len(name) /\ ~ (b + j <= b) /\ (b + j) - b = j
      BY <1>1
    <3>2. t[b + j] = "." /\ b + j \in DOMAIN t
      BY <1>1, <2>7, <3>1
    <3> QED BY <1>1, <1>2, <2>2, <2>3, <3>2, OneDot
  <2>9. Extension(name) = e
    <3> DEFINE x == SubSeq(name, j + 1, Len(name))
    <3>1. /\ x \in Text /\ Len(x) = Len(e)
          /\ \A i \in 1 .. Len(e) : x[i] = name[j + i]
      <4>1. Len(name) - j = Len(e)
        <5>1. Len(t) = b + Len(name) /\ b \in Nat /\ Len(name) \in Nat /\ Len(e) \in Nat
          BY <1>1, <2>1
        <5>2. (b + j) + Len(e) = b + Len(name)
          BY <2>3, <2>8, <5>1
        <5> HIDE DEF x
        <5> QED BY <5>1, <5>2
      <4>2. x \in Text /\ Len(x) = Len(name) - j /\ \A i \in 1 .. Len(name) - j : x[i] = name[j + i]
        BY Rest
      <4> HIDE DEF x
      <4> QED BY <4>1, <4>2
    <3>2. ASSUME NEW i \in 1 .. Len(e) PROVE name[j + i] = e[i]
      <4>1. d + i \in 1 .. b + Len(name) /\ ~ (d + i <= b) /\ (d + i) - b = j + i
        BY <1>1, <2>1, <2>3, <2>8
      <4> QED BY <1>1, <2>2, <4>1
    <3>3. \A i \in 1 .. Len(e) : x[i] = e[i]
      <4> HIDE DEF x
      <4> QED BY <3>1, <3>2
    <3>4. x = e
      <4> HIDE DEF x
      <4> QED BY <2>1, <3>1, <3>3, SeqEqual DEF Text
    <3> QED BY <2>7, <3>4
  <2> QED BY <2>6, <2>9
<1>4. ASSUME Dotted(name), Extension(name) \in DOMAIN Types
      PROVE  IsSuffix(<< "." >> \o Extension(name), t)
  <2>1. PICK j \in 1 .. Len(name) : name[j] = "." /\ Extension(name) = SubSeq(name, j + 1, Len(name))
    BY <1>4, FirstDot
  <2> DEFINE x == SubSeq(name, j + 1, Len(name))
  <2>2. /\ x \in Text /\ Len(x) = Len(name) - j
        /\ \A i \in 1 .. Len(x) : x[i] = name[j + i]
    <3>1. x \in Text /\ Len(x) = Len(name) - j /\ \A i \in 1 .. Len(name) - j : x[i] = name[j + i]
      BY Rest
    <3> HIDE DEF x
    <3> QED BY <3>1
  <2> HIDE DEF x
  <2>3. Len(x) < Len(t) /\ Len(t) - Len(x) = b + j
    BY <1>1, <2>2
  <2>4. t[b + j] = "."
    <3>1. b + j \in 1 .. b + Len(name) /\ ~ (b + j <= b) /\ (b + j) - b = j
      BY <1>1
    <3> QED BY <1>1, <2>1, <3>1
  <2>5. ASSUME NEW k \in 1 .. Len(x) PROVE x[k] = t[(b + j) + k]
    <3>1. (b + j) + k \in 1 .. b + Len(name) /\ ~ ((b + j) + k <= b) /\ ((b + j) + k) - b = j + k
      BY <1>1, <2>2
    <3> QED BY <1>1, <2>2, <3>1
  <2>6. IsSuffix(<< "." >> \o x, t)
    BY <1>1, <2>2, <2>3, <2>4, <2>5, DotSuffix
  <2> QED BY <2>1, <2>6 DEF x
<1>5. CASE \E e \in DOMAIN Types : IsSuffix(<< "." >> \o e, t)
  <2> DEFINE E == CHOOSE e \in DOMAIN Types : IsSuffix(<< "." >> \o e, t)
  <2>1. TypeSaid(t) = Types[E]
    BY <1>5 DEF TypeSaid
  <2>2. E \in DOMAIN Types /\ IsSuffix(<< "." >> \o E, t)
    BY <1>5
  <2> HIDE DEF E
  <2>3. Dotted(name) /\ Extension(name) = E
    BY <1>3, <2>2
  <2>4. name # << >>
    BY <2>3 DEF Dotted, ToSet
  <2>5. ContentType(name) = Types[E]
    BY <2>2, <2>3, <2>4, TypeIs
  <2> QED BY <2>1, <2>5 DEF t
<1>6. CASE ~ \E e \in DOMAIN Types : IsSuffix(<< "." >> \o e, t)
  <2>1. ~ (Dotted(name) /\ Extension(name) \in DOMAIN Types)
    BY <1>4, <1>6
  <2>2. ContentType(name) = IF name = << >> THEN "text/html" ELSE "application/octet-stream"
    BY <2>1, TypeIs
  <2>3. TypeSaid(t) = IF t = << >> \/ Last(t) = "/" THEN "text/html" ELSE "application/octet-stream"
    BY <1>6 DEF TypeSaid
  <2>4. name = << >> <=> t = << >> \/ Last(t) = "/"
    <3>1. CASE name = << >>
      <4>1. t = before
        BY <3>1, ConcatEmptySeq DEF Text, t
      <4> QED BY <3>1, <4>1 DEF Last
    <3>2. CASE name # << >>
      <4>1. Len(name) # 0
        BY <3>2, EmptySeq
      <4>2. /\ Len(t) \in 1 .. b + Len(name) /\ ~ (Len(t) <= b) /\ Len(t) - b = Len(name) /\ Len(t) # 0
        BY <1>1, <4>1
      <4>3. t[Len(t)] = name[Len(name)]
        BY <1>1, <4>2
      <4>4. t # << >>
        BY <4>2, EmptySeq
      <4> QED BY <3>2, <4>3, <4>4 DEF Last
    <3> QED BY <3>1, <3>2
  <2> QED BY <2>2, <2>3, <2>4 DEF t
<1> QED BY <1>5, <1>6
-----------------------------------------------------------------------------
(* What is sent is what was asked for. *)
LEMMA Places ==
    ASSUME Shaped
    PROVE  Len(stream) \in Nat /\ begin \in Nat /\ taken \in 0 .. Len(stream)
<1>1. Len(stream) \in Nat
  BY Streams DEF Shaped, TypeOK
<1>2. begin \in 0 .. Len(stream) /\ arrived \in 0 .. Len(stream) /\ taken \in 0 .. arrived
  BY DEF Shaped, TypeOK
<1> QED BY <1>1, <1>2

LEMMA LastInside ==
    ASSUME NEW t \in Text, t # << >>
    PROVE  Len(t) \in DOMAIN t
<1>1. Len(t) \in Nat /\ DOMAIN t = 1 .. Len(t)
  BY LenProperties DEF Text
<1>2. Len(t) # 0
  BY EmptySeq DEF Text
<1> QED BY <1>1, <1>2

LEMMA OneBefore ==
    ASSUME NEW n \in Nat, NEW t \in 0 .. n, NEW b \in Nat, b <= t - 1
    PROVE  t - 1 \in Nat /\ t - 1 < n /\ (t - 1) + 1 = t
OBVIOUS

LEMMA SlashLast ==
    ASSUME NEW t \in Text
    PROVE  /\ t \o << "/" >> \in Text /\ (t \o << "/" >>)[Len(t \o << "/" >>)] = "/"
<1> DEFINE c == << "/" >>
<1>1. c \in Text /\ Len(c) = 1 /\ c[1] = "/"
  BY Strings
<1> HIDE DEF c
<1>2. /\ t \o c \in Text /\ Len(t \o c) = Len(t) + 1 /\ Len(t) \in Nat
      /\ \A k \in 1 .. Len(t) + 1 : (t \o c)[k] = IF k <= Len(t) THEN t[k] ELSE c[k - Len(t)]
  <2>1. /\ t \o c \in Text /\ Len(t \o c) = Len(t) + Len(c)
        /\ \A k \in 1 .. Len(t) + Len(c) : (t \o c)[k] = IF k <= Len(t) THEN t[k] ELSE c[k - Len(t)]
    BY <1>1, ConcatProperties DEF Text
  <2>2. Len(t) \in Nat
    BY LenProperties DEF Text
  <2> QED BY <1>1, <2>1, <2>2
<1>3. Len(t) + 1 \in 1 .. Len(t) + 1 /\ ~ (Len(t) + 1 <= Len(t)) /\ (Len(t) + 1) - Len(t) = 1
  BY <1>2
<1>4. (t \o c)[Len(t) + 1] = c[1]
  BY <1>2, <1>3
<1> QED BY <1>1, <1>2, <1>4 DEF c

LEMMA AboveLast ==
    ASSUME NEW path \in Paths
    PROVE  Above(path) \in Text /\ (Above(path) # << >> => Above(path)[Len(Above(path))] = "/")
BY UrlIsText, SlashLast, Strings DEF Above

(* What is sent from the tree, and what from the card.                     *)
LEMMA SentFromTree ==
    ASSUME Shaped, StartInv, GotInv, PlainInv, OpenFile, answer' \in {"200", "200 gzip"},
           FromStart, PlainUrl
    PROVE  /\ answer' = "200" => UrlOf(filenode') = Url
           /\ answer' = "200 gzip" => UrlOf(filenode') = Url \o GZ
           /\ Dots(Url) <= 1 => type' = TypeSaid(Url)
<1>1. open /\ pc = "file" /\ answer = "none"
  BY DEF OpenFile, Found, Answer, StartInv
<1>2. Plain
  BY <1>1 DEF Plain, InPath
<1>3. Url = Above(dirnode) \o buffer /\ Url \in Text
  BY <1>1, <1>2, WholeUrl
<1>4. dirnode \in Paths /\ buffer \in Text /\ GZ \in Text /\ NoSlash(buffer)
  BY <1>2, Settings DEF Shaped, TypeOK, PlainInv
<1>5. type' = ContentType(buffer)
  BY <1>1 DEF OpenFile, Found, Answer
<1>6. ASSUME answer' = "200" PROVE UrlOf(filenode') = Url
  <2>1. filenode' = Append(dirnode, buffer)
    BY <1>1, <1>6 DEF OpenFile, Found, Answer, Entry
  <2> QED BY <1>3, <1>4, <2>1, AboveEntry
<1>7. ASSUME answer' = "200 gzip" PROVE UrlOf(filenode') = Url \o GZ
  <2>1. filenode' = Append(dirnode, buffer \o GZ)
    BY <1>1, <1>7 DEF OpenFile, Found, Answer
  <2>2. buffer \o GZ \in Text /\ Above(dirnode) \in Text
    BY <1>4, ConcatProperties, AboveLast DEF Text
  <2>3. UrlOf(filenode') = Above(dirnode) \o (buffer \o GZ)
    BY <1>4, <2>1, <2>2, AboveEntry
  <2>4. (Above(dirnode) \o buffer) \o GZ = Above(dirnode) \o (buffer \o GZ)
    BY <1>4, <2>2, Associates
  <2> QED BY <1>3, <2>3, <2>4
<1>8. ASSUME Dots(Url) <= 1 PROVE ContentType(buffer) = TypeSaid(Url)
  <2>1. Above(dirnode) \in Text /\ (Above(dirnode) # << >> => Above(dirnode)[Len(Above(dirnode))] = "/")
    BY <1>4, AboveLast
  <2>2. ASSUME buffer # << >> PROVE Last(buffer) # "/"
    <3>1. Len(buffer) \in DOMAIN buffer
      BY <1>4, <2>2, LastInside
    <3> QED BY <1>4, <3>1 DEF NoSlash, Last
  <2> QED BY <1>3, <1>4, <1>8, <2>1, <2>2, SameType
<1> QED BY <1>5, <1>6, <1>7, <1>8

LEMMA SentFromCard ==
    ASSUME Shaped, StartInv, GotInv, WordInv, MmcOpen, answer' = "200 mmc" \/ type' # "none",
           FromStart, WholeName
    PROVE  /\ IsSuffix(MMC \o << "/" >> \o buffer, Url)
           /\ type' # "none" /\ Dots(Url) <= 1 => type' = TypeSaid(Url)
<1>1. open /\ pc = "mmcOpen" /\ InMmc /\ type = "none" /\ (type' # "none" => type' = ContentType(buffer) /\ buffer \in CardFiles)
  <2>1. pc = "mmcOpen" /\ answer = "none" /\ type = "none"
    BY DEF MmcOpen, StartInv
  <2> QED BY <2>1 DEF MmcOpen, Answer, InMmc
<1>2. buffer \in Text /\ MMC \in Text /\ MMC \o << "/" >> \in Text
  BY Settings, SlashLast DEF Shaped
<1>3. PICK x \in Text : Got = (x \o (MMC \o << "/" >>)) \o buffer
  BY <1>1 DEF WordInv
<1>4. Url = Got
  <2>2. Len(stream) \in Nat /\ begin \in Nat /\ taken \in 0 .. Len(stream)
    BY Places
  <2>3. Upto = taken - 1 /\ begin <= Upto /\ \A i \in (begin + 1) .. Upto : stream[i] \notin End
    BY <1>1 DEF GotInv, Upto
  <2>4. Upto \in Nat /\ Upto < Len(stream) /\ Upto + 1 = taken
    BY <2>2, <2>3, OneBefore
  <2>5. stream[Upto + 1] \in End
    BY <2>4 DEF WholeName, End
  <2> QED BY <2>2, <2>3, <2>4, <2>5, UrlRead DEF Got
<1>5. IsSuffix(MMC \o << "/" >> \o buffer, Url)
  <2> DEFINE s == MMC \o << "/" >>
  <2>1. s \in Text
    BY <1>2
  <2>2. Url = (x \o s) \o buffer
    BY <1>3, <1>4
  <2> HIDE DEF s
  <2>3. (x \o s) \o buffer = x \o (s \o buffer) /\ s \o buffer \in Text
    <3>1. s \o buffer \in Text
      BY <1>2, <2>1, ConcatProperties DEF Text
    <3> QED BY <1>2, <2>1, <3>1, Associates
  <2>4. IsSuffix(s \o buffer, Url)
    BY <2>2, <2>3, Ending
  <2> QED BY <2>4 DEF s
<1>6. ASSUME type' # "none", Dots(Url) <= 1 PROVE type' = TypeSaid(Url)
  <2> DEFINE before == (x \o MMC) \o << "/" >>
  <2>1. x \o MMC \in Text /\ << "/" >> \in Text
    BY <1>2, Strings, ConcatProperties DEF Text
  <2>2. before \in Text /\ before[Len(before)] = "/"
    BY <2>1, SlashLast
  <2>3. before = x \o (MMC \o << "/" >>)
    BY <1>2, <2>1, Associates
  <2>4. Url = before \o buffer
    BY <1>3, <1>4, <2>3
  <2> HIDE DEF before
  <2>5. buffer # << >> => Last(buffer) # "/"
    BY <1>1, <1>6, RequestAssumption, Zenon
  <2> QED BY <1>1, <1>2, <1>6, <2>2, <2>4, <2>5, SameType
<1> QED BY <1>5, <1>6

LEMMA ServedNext ==
    ASSUME Reading, ServedWasAsked, [Next]_vars
    PROVE  ServedWasAsked'
<1>0. Shaped /\ StartInv /\ GotInv /\ WordInv /\ PlainInv
  BY DEF Reading
<1>1. CASE pc = "done"
  <2>1. UNCHANGED << stream, taken, buffer, answer, filenode, type, begin >>
    BY <1>1, DoneStays
  <2>2. Url' = Url /\ (PlainUrl' <=> PlainUrl)
    BY <2>1, SameUrl
  <2>3. (FromStart' <=> FromStart) /\ (WholeName' <=> WholeName)
    BY <2>1 DEF FromStart, WholeName
  <2> QED BY <2>1, <2>2, <2>3 DEF ServedWasAsked
<1>2. CASE pc # "done"
  <2>1. /\ answer' \in {"200", "200 gzip"} => OpenFile
        /\ answer' = "200 mmc" => MmcOpen
        /\ type' # "none" => OpenFile \/ MmcOpen
        /\ answer = "none" /\ type = "none"
    BY <1>0, <1>2, WhoAnswers DEF StartInv
  <2>2. OpenFile \/ MmcOpen => UNCHANGED << stream, taken, buffer, begin >>
    BY DEF OpenFile, MmcOpen, netVars, pathVars
  <2>3. OpenFile \/ MmcOpen => /\ Url' = Url /\ (PlainUrl' <=> PlainUrl)
                               /\ (FromStart' <=> FromStart) /\ (WholeName' <=> WholeName)
    BY <2>2, SameUrl DEF FromStart, WholeName
  <2>4. ASSUME answer' \in {"200", "200 gzip"}, FromStart', PlainUrl'
        PROVE  /\ answer' = "200" => UrlOf(filenode') = Url'
               /\ answer' = "200 gzip" => UrlOf(filenode') = Url' \o GZ
    BY <1>0, <2>1, <2>3, <2>4, SentFromTree
  <2>5. ASSUME answer' = "200 mmc", FromStart', WholeName'
        PROVE  IsSuffix(MMC \o << "/" >> \o buffer', Url')
    BY <1>0, <2>1, <2>2, <2>3, <2>5, SentFromCard
  <2>6. ASSUME type' # "none", FromStart', PlainUrl', WholeName', Dots(Url') <= 1
        PROVE  type' = TypeSaid(Url')
    <3>1. CASE OpenFile
      <4>1. answer' \in {"200", "200 gzip"}
        BY <2>1, <2>6, <3>1 DEF OpenFile, Found, Answer
      <4> QED BY <1>0, <2>3, <2>6, <3>1, <4>1, SentFromTree
    <3>2. CASE MmcOpen
      BY <1>0, <2>3, <2>6, <3>2, SentFromCard
    <3> QED BY <2>1, <2>6, <3>1, <3>2
  <2> QED BY <2>4, <2>5, <2>6 DEF ServedWasAsked
<1> QED BY <1>1, <1>2

(* What is sent with 200 is what the URL names, byte by byte, with the     *)
(* type that the URL says, for any requests, any tree, any card and a      *)
(* request that comes in any pieces (httpd.c:116-235, 239-329).            *)
THEOREM ServedIsAlwaysAsked == Spec => []ServedWasAsked
<1>1. Init => Reading /\ ServedWasAsked
  <2>1. Init => answer = "none" /\ type = "none"
    BY DEF Init
  <2> QED BY <2>1, ReadingInit DEF ServedWasAsked
<1>2. Reading /\ ServedWasAsked /\ [Next]_vars => Reading' /\ ServedWasAsked'
  BY ReadingNext, ServedNext
<1> QED BY <1>1, <1>2, PTL DEF Spec
=============================================================================
