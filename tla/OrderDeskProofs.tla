-------------------------- MODULE OrderDeskProofs --------------------------
(***************************************************************************)
(* Proofs about OrderDesk, for any accounts, account lists and error       *)
(* bodies, and any number of lookups and orders: what a caller is told of  *)
(* its accounts and of its orders is so, and no live order goes unheard.   *)
(***************************************************************************)
EXTENDS OrderDesk, FiniteSetTheorems, SequenceTheorems, WellFoundedInduction, TLAPS

----------------------------------------------------------------------------
\* Induction

\* A set of numbers that holds 0, and with each number the next one, holds
\* them all: induction in the form the provers can use, the set in place of a
\* predicate.
LEMMA SetInduction ==
    ASSUME NEW T \in SUBSET Nat, 0 \in T, \A n \in T : n + 1 \in T
    PROVE  \A n \in Nat : n \in T
<1> DEFINE R == OpToRel(<, Nat)
           U == Nat \ T
<1>1. IsWellFoundedOn(R, Nat)
  BY NatLessThanWellFounded
<1>2. \A x, y \in Nat : x < y => <<x, y>> \in R
  BY DEF OpToRel
<1> HIDE DEF R
<1> SUFFICES ASSUME U # {} PROVE FALSE
  OBVIOUS
<1>3. PICK x \in U : \A y \in U : ~ (<<y, x>> \in R)
  <2>1. U \subseteq Nat
    OBVIOUS
  <2> HIDE DEF U
  <2> QED
    BY <1>1, <2>1, WFMin
<1>4. x - 1 \in Nat /\ (x - 1) + 1 = x
  OBVIOUS
<1>5. x - 1 \in U
  <2>1. x - 1 \in T => (x - 1) + 1 \in T
    OBVIOUS
  <2> QED
    BY <2>1, <1>4
<1>6. <<x - 1, x>> \in R
  BY <1>2, <1>4
<1> QED
  BY <1>3, <1>5, <1>6

----------------------------------------------------------------------------
\* The strings among the errors of a body (_describe_error)

\* There is a function of the prefixes of the errors that does what Strings
\* says, so Strings is one.
LEMMA StringsStep ==
    ASSUME NEW S, NEW e \in Seq(S)
    PROVE  \E f \in [0 .. Len(e) -> Seq(S)] :
              /\ Strings(e) = f[Len(e)]
              /\ f = [n \in 0 .. Len(e) |->
                        IF n = 0 THEN <<>>
                        ELSE IF e[n] = None THEN f[n - 1]
                        ELSE Append(f[n - 1], e[n])]
<1> DEFINE Def(f, n) == IF n = 0 THEN <<>>
                        ELSE IF e[n] = None THEN f[n - 1]
                        ELSE Append(f[n - 1], e[n])
           first[n \in 0 .. Len(e)] ==
               IF n = 0 THEN <<>>
               ELSE IF e[n] = None THEN first[n - 1]
               ELSE Append(first[n - 1], e[n])
           T == {m \in Nat : m <= Len(e) =>
                   \E f \in [0 .. m -> Seq(S)] : \A n \in 0 .. m : f[n] = Def(f, n)}
           V == {m \in Nat : m <= Len(e) => first[m] \in Seq(S)}
<1>1. Len(e) \in Nat /\ \A i \in 1 .. Len(e) : e[i] \in S
  OBVIOUS
<1>2. \A n \in Nat : n \in T
  <2>1. 0 \in T
    <3> DEFINE f == [n \in 0 .. 0 |-> <<>>]
    <3>1. f \in [0 .. 0 -> Seq(S)] /\ \A n \in 0 .. 0 : f[n] = Def(f, n)
      OBVIOUS
    <3> QED
      BY <3>1
  <2>2. ASSUME NEW m \in T PROVE m + 1 \in T
    <3>0. m \in Nat /\ m + 1 \in Nat
      OBVIOUS
    <3> SUFFICES ASSUME m + 1 <= Len(e)
                 PROVE  \E f \in [0 .. m + 1 -> Seq(S)] :
                            \A n \in 0 .. m + 1 : f[n] = Def(f, n)
      BY <3>0
    <3>1. m \in Nat /\ m <= Len(e)
      BY <1>1, <3>0
    <3>2. PICK f \in [0 .. m -> Seq(S)] : \A n \in 0 .. m : f[n] = Def(f, n)
      BY <3>1
    <3> DEFINE g == [n \in 0 .. m + 1 |-> IF n <= m THEN f[n] ELSE Def(f, n)]
    <3>3. e[m + 1] \in S /\ f[m] \in Seq(S)
      BY <1>1, <3>1
    <3>4. Def(f, m + 1) \in Seq(S)
      BY <3>1, <3>3
    <3>5. g \in [0 .. m + 1 -> Seq(S)]
      BY <3>1, <3>4
    <3>6. ASSUME NEW n \in 0 .. m + 1 PROVE g[n] = Def(g, n)
      <4>1. n # 0 => n - 1 \in 0 .. m /\ g[n - 1] = f[n - 1]
        BY <3>1
      <4>2. Def(g, n) = Def(f, n)
        BY <4>1
      <4>3. n <= m => g[n] = f[n] /\ n \in 0 .. m
        BY <3>1
      <4>4. ~(n <= m) => g[n] = Def(f, n)
        OBVIOUS
      <4> QED
        BY <3>2, <4>2, <4>3, <4>4
    <3> QED
      BY <3>5, <3>6
  <2> HIDE DEF T
  <2>3. T \subseteq Nat
    BY DEF T
  <2> QED
    BY <2>1, <2>2, <2>3, SetInduction
<1>3. first = [n \in 0 .. Len(e) |-> Def(first, n)]
  <2>0. Len(e) \in T
    BY <1>1, <1>2
  <2>1. PICK f \in [0 .. Len(e) -> Seq(S)] : \A n \in 0 .. Len(e) : f[n] = Def(f, n)
    BY <2>0, <1>1
  <2>2. f = [n \in 0 .. Len(e) |-> Def(f, n)]
    BY <2>1
  <2> QED
    BY <2>2
<1>4. Strings(e) = first[Len(e)]
  BY DEF Strings
<1> HIDE DEF first
<1>5. \A n \in Nat : n \in V
  <2>1. 0 \in V
    BY <1>1, <1>3
  <2>2. ASSUME NEW m \in V PROVE m + 1 \in V
    <3> SUFFICES ASSUME m + 1 <= Len(e) PROVE first[m + 1] \in Seq(S)
      OBVIOUS
    <3>1. m \in Nat /\ first[m] \in Seq(S) /\ e[m + 1] \in S
      BY <1>1
    <3>2. m + 1 \in 0 .. Len(e)
      BY <3>1, <1>1
    <3>3. first[m + 1] = Def(first, m + 1)
      <4> HIDE DEF Def
      <4> QED
        BY <3>2, <1>3
    <3> QED
      BY <3>1, <3>3
  <2> HIDE DEF V
  <2>3. V \subseteq Nat
    BY DEF V
  <2> QED
    BY <2>1, <2>2, <2>3, SetInduction
<1>6. first \in [0 .. Len(e) -> Seq(S)]
  BY <1>1, <1>3, <1>5
<1> QED
  BY <1>3, <1>4, <1>6
\* The strings of a list are a list, so the reasons of a body are one.
LEMMA ReasonsType ==
    ASSUME NEW b \in Bodies
    PROVE  Reasons(b) \in Seq(Said)
<1>1. b.message \in Said /\ b.errors \in Seq(Said)
  BY BodiesAreAnswers
<1>2. PICK f \in [0 .. Len(b.errors) -> Seq(Said)] : Strings(b.errors) = f[Len(b.errors)]
  BY <1>1, StringsStep
<1>3. Len(b.errors) \in 0 .. Len(b.errors)
  BY <1>1
<1>4. Strings(b.errors) \in Seq(Said)
  BY <1>2, <1>3
<1>5. (IF b.message = None THEN <<>> ELSE <<b.message>>) \in Seq(Said)
  BY <1>1
<1> HIDE DEF Said
<1> QED
  BY <1>4, <1>5 DEF Reasons

\* The venue's words are the first of the reasons of a body that is an object,
\* and all of them if the limit allows.
LEMMA DescribeReasons ==
    ASSUME NEW b \in Bodies
    PROVE  /\ _describe_error(b) \in Seq(Said)
           /\ b.object => /\ IsPrefix(_describe_error(b), Reasons(b))
                          /\ Len(Reasons(b)) <= DetailLimit
                                => _describe_error(b) = Reasons(b)
<1> DEFINE r == IF b.object THEN Reasons(b) ELSE <<>>
           n == IF Len(r) < DetailLimit THEN Len(r) ELSE DetailLimit
<1>1. r \in Seq(Said)
  BY ReasonsType
<1>2. _describe_error(b) = SubSeq(r, 1, n)
  BY DEF _describe_error
<1>3. b.object => r = Reasons(b)
  OBVIOUS
<1> HIDE DEF r, Said
<1>4. n \in Nat /\ n <= Len(r)
  BY <1>1, DetailLimitAssumption
<1>5. SubSeq(r, 1, n) \in Seq(Said) /\ Len(SubSeq(r, 1, n)) = n
  BY <1>1, <1>4
<1>6. IsPrefix(SubSeq(r, 1, n), r)
  BY <1>1, <1>4, <1>5 DEF IsPrefix
<1>7. Len(r) <= DetailLimit => n = Len(r)
  BY <1>1, DetailLimitAssumption
<1>8. SubSeq(r, 1, Len(r)) = r
  BY <1>1
<1> QED
  BY <1>2, <1>3, <1>5, <1>6, <1>7, <1>8

----------------------------------------------------------------------------
\* Finding a hash (find_account_hash)

\* A hash in the answer is the hash of the account asked for, which the list
\* has once; "not found" is said only of a list whose every entry names
\* another account; what is skipped on the way has no usable hash.
LEMMA FoundIn ==
    ASSUME NEW l \in Listings, NEW a \in Accounts
    PROVE  /\ find_account_hash(l, a).result \in Hashes =>
                /\ find_account_hash(l, a).result = Hash[a]
                /\ Cardinality({i \in DOMAIN l : l[i].number = a}) = 1
           /\ find_account_hash(l, a).result = AccountNumberNotFoundError =>
                \A j \in DOMAIN l :
                    /\ l[j].number \notin {None, a}
                    /\ l[j].hash \in Unusable => l[j].number \in Accounts
           /\ find_account_hash(l, a).problems \subseteq Unusable
<1> DEFINE odd == {i \in DOMAIN l : Malformed(l[i], a)}
           read == {i \in DOMAIN l : \A j \in odd : i < j}
           own == {i \in read : l[i].number = a}
           skipped == {i \in read : l[i].hash \in Unusable}
           found == find_account_hash(l, a)
           named == {i \in DOMAIN l : l[i].number = a}
<1>1. /\ found.result = IF odd # {} \/ Cardinality(own) > 1 THEN UnusableAccountNumbersError
                        ELSE IF own = {} THEN AccountNumberNotFoundError
                        ELSE l[CHOOSE i \in own : TRUE].hash
      /\ found.problems = {l[i].hash : i \in skipped}
  BY DEF find_account_hash
<1>2. DOMAIN l = 1 .. Len(l) /\ Len(l) \in Nat
  BY ListingsAreTrue
<1>3. IsFiniteSet(named)
  <2>1. IsFiniteSet(1 .. Len(l)) /\ named \subseteq 1 .. Len(l)
    BY <1>2, FS_Interval
  <2> QED
    BY <2>1, FS_Subset
<1>4. odd = {} => own = named
  OBVIOUS
<1>5. found.problems \subseteq Unusable
  BY <1>1
<1> HIDE DEF found
<1>6. ASSUME found.result \in Hashes
      PROVE  found.result = Hash[a] /\ Cardinality(named) = 1
  <2>1. odd = {} /\ ~(Cardinality(own) > 1) /\ own # {}
    BY <1>1, <1>6, HashesAreHashes
  <2>2. own = named
    BY <1>4, <2>1
  <2> DEFINE k == CHOOSE i \in own : TRUE
  <2>3. k \in own
    BY <2>1
  <2>4. found.result = l[k].hash
    BY <1>1, <2>1
  <2>5. k \in DOMAIN l /\ l[k].number = a
    BY <2>3
  <2> HIDE DEF k
  <2>6. found.result = Hash[a]
    BY <1>6, <2>4, <2>5, ListingsAreTrue
  <2> HIDE DEF odd, own, named
  <2>7. Cardinality(named) \in Nat /\ Cardinality(named) # 0
    BY <1>3, <2>1, <2>2, FS_CardinalityType, FS_EmptySet
  <2> QED
    BY <2>1, <2>2, <2>6, <2>7
<1>7. ASSUME found.result = AccountNumberNotFoundError, NEW j \in DOMAIN l
      PROVE  /\ l[j].number \notin {None, a}
             /\ l[j].hash \in Unusable => l[j].number \in Accounts
  <2>1. odd = {} /\ own = {}
    <3>1. ~(odd # {} \/ Cardinality(own) > 1)
      BY <1>1, <1>7 DEF UnusableAccountNumbersError, AccountNumberNotFoundError
    <3>2. ASSUME own # {} PROVE FALSE
      <4> DEFINE k == CHOOSE i \in own : TRUE
      <4>1. k \in own
        BY <3>2
      <4>2. found.result = l[k].hash
        BY <1>1, <3>1, <3>2
      <4>3. k \in DOMAIN l
        BY <4>1
      <4> HIDE DEF k
      <4>4. l[k].hash \in Hashes \cup Unusable
        BY <4>3, ListingsAreTrue
      <4>5. AccountNumberNotFoundError \notin Hashes \cup Unusable
        BY HashesAreHashes DEF AccountNumberNotFoundError, Unusable
      <4> QED
        BY <4>2, <4>4, <4>5, <1>7
    <3> QED
      BY <3>1, <3>2
  <2>2. ~Malformed(l[j], a) /\ l[j].number # a
    BY <2>1
  <2> QED
    BY <2>2 DEF Malformed
<1> QED
  BY <1>5, <1>6, <1>7 DEF found
\* The new problems are put in some order, each once.
LEMMA NewProblems ==
    ASSUME NEW P \in SUBSET Unusable, NEW before
    PROVE  LET new == _report_skipped_account_entry(P, before)
           IN  new \in Seq(P \ before) /\ IsInjective(new)
<1> DEFINE S == P \ before
           new == SetToSeq(S)
<1>1. IsFiniteSet(Unusable)
  <2> DEFINE one == {"missing"}
             two == one \cup {"empty"}
  <2>1. IsFiniteSet(one)
    BY FS_Singleton
  <2>2. IsFiniteSet(two)
    BY <2>1, FS_AddElement
  <2>3. IsFiniteSet(two \cup {"not a string"})
    BY <2>2, FS_AddElement
  <2>4. Unusable = two \cup {"not a string"}
    BY DEF Unusable
  <2> QED
    BY <2>3, <2>4
<1>2. IsFiniteSet(S)
  BY <1>1, FS_Subset
<1> HIDE DEF S
<1>3. Cardinality(S) \in Nat /\ ExistsBijection(1 .. Cardinality(S), S)
  BY <1>2, FS_CardinalityType
<1>4. \E f \in [1 .. Cardinality(S) -> S] : IsInjective(f)
  <2>1. PICK f : f \in Bijection(1 .. Cardinality(S), S)
    BY <1>3 DEF ExistsBijection
  <2> QED
    BY <2>1 DEF Bijection, Injection
<1>5. new \in [1 .. Cardinality(S) -> S] /\ IsInjective(new)
  BY <1>4 DEF SetToSeq
<1> HIDE DEF new
<1>6. new \in Seq(S)
  BY <1>3, <1>5
<1> QED
  BY <1>5, <1>6 DEF _report_skipped_account_entry, S, new

----------------------------------------------------------------------------
\* What an answer is, and what is raised for one (extract_order_id)

Answers == [status : {"success", "redirect", "error"}, order : Nat,
            account : Hashes, location : {None, "order", "other"}, body : Bodies]

Classes == {Mismatch, Missing, Unrecognized, Unsuccessful}

\* x is the exception for the answer a: a rejection with the venue's reasons,
\* another account's order with its id and that account, or no id.
RaisedFor(a, x) ==
    /\ x = [class |-> x.class, args |-> x.args, holds |-> x.holds]
    /\ x.class \in Classes
    /\ x.class = Unsuccessful =>
          /\ a.status = "error"
          /\ x.args = <<<<"not successful">> \o _describe_error(a.body)>>
          /\ x.holds["response"] = "response"
    /\ x.class = Mismatch =>
          /\ a.location = "order"
          /\ x.holds["order_id"] = a.order
          /\ x.holds["account_hash"] = a.account

\* What is left of the arguments of an exception is its message.
LEMMA LastOf ==
    ASSUME NEW a, NEW b, NEW c, NEW d
    PROVE  /\ SubSeq(<<a, b>>, 2, 2) = <<b>>
           /\ SubSeq(<<a, b, c, d>>, 4, 4) = <<d>>
<1> DEFINE S == {a, b, c, d}
           two == <<a, b>>
           four == <<a, b, c, d>>
<1>1. two \in Seq(S) /\ Len(two) = 2 /\ two[2] = b
  OBVIOUS
<1>2. four \in Seq(S) /\ Len(four) = 4 /\ four[4] = d
  OBVIOUS
<1>3. ASSUME NEW s \in Seq(S), NEW n \in 1 .. Len(s)
      PROVE  SubSeq(s, n, n) = <<s[n]>>
  <2> DEFINE t == SubSeq(s, n, n)
  <2>1. t \in Seq(S) /\ Len(t) = 1 /\ t[1] = s[n]
    OBVIOUS
  <2> HIDE DEF t
  <2>2. t = [i \in 1 .. 1 |-> t[i]]
    BY <2>1
  <2>3. <<s[n]>> = [i \in 1 .. 1 |-> s[n]]
    OBVIOUS
  <2>4. t = <<s[n]>>
    BY <2>1, <2>2, <2>3
  <2> QED
    BY <2>4 DEF t
<1> HIDE DEF two, four, S
<1>4. SubSeq(two, 2, 2) = <<two[2]>> /\ SubSeq(four, 4, 4) = <<four[4]>>
  BY <1>1, <1>2, <1>3
<1> QED
  BY <1>1, <1>2, <1>4 DEF two, four

\* A rejection binds the response and keeps the message.
LEMMA RejectionMade ==
    ASSUME NEW m
    PROVE  LET x == Construct(Unsuccessful, <<"response", m>>, None)
           IN  /\ x = [class |-> x.class, args |-> x.args, holds |-> x.holds]
               /\ x.class = Unsuccessful
               /\ x.args = <<m>>
               /\ x.holds["response"] = "response"
<1> DEFINE values == <<"response", m>>
           names == Leading(Unsuccessful)
           x == Construct(Unsuccessful, values, None)
<1>1. names = <<"response">> /\ Keywords(Unsuccessful) = {}
  BY DEF Leading, Keywords, Unsuccessful, Mismatch
<1>2. Len(names) = 1 /\ DOMAIN names = {1} /\ names[1] = "response" /\ Len(values) = 2
  BY <1>1
<1>3. values[1] = "response"
  OBVIOUS
<1> HIDE DEF names, values
<1>4. x = [class |-> Unsuccessful, args |-> SubSeq(values, 2, 2),
           holds |-> [n \in ToSet(names) |-> values[CHOOSE i \in DOMAIN names : names[i] = n]]]
  <2>1. x = [class |-> Unsuccessful, args |-> SubSeq(values, Len(names) + 1, Len(values)),
             holds |-> [n \in ToSet(names) \cup Keywords(Unsuccessful) |->
                           IF n \in Keywords(Unsuccessful) THEN None
                           ELSE values[CHOOSE i \in DOMAIN names : names[i] = n]]]
    BY DEF Construct, names
  <2>2. Len(names) + 1 = 2 /\ Len(values) = 2
    BY <1>2
  <2> QED
    BY <1>1, <2>1, <2>2
<1>5. "response" \in ToSet(names)
  BY <1>2 DEF ToSet
<1>6. (CHOOSE i \in DOMAIN names : names[i] = "response") = 1
  BY <1>2
<1>7. x.holds["response"] = "response"
  BY <1>3, <1>4, <1>5, <1>6
<1>8. x.args = <<m>>
  BY <1>4, LastOf DEF values
<1> HIDE DEF x
<1> QED
  BY <1>4, <1>7, <1>8 DEF x, values
\* The exception for another account's order binds the order's id, that
\* account and the one expected.
LEMMA MismatchMade ==
    ASSUME NEW id, NEW h, NEW m, NEW k
    PROVE  LET x == Construct(Mismatch, <<"response", id, h, m>>, k)
           IN  /\ x = [class |-> x.class, args |-> x.args, holds |-> x.holds]
               /\ x.class = Mismatch
               /\ x.holds["order_id"] = id
               /\ x.holds["account_hash"] = h
               /\ x.holds["expected_account_hash"] = k
<1> DEFINE values == <<"response", id, h, m>>
           names == Leading(Mismatch)
           x == Construct(Mismatch, values, k)
           keys == {"expected_account_hash"}
<1>1. names = <<"response", "order_id", "account_hash">>
  BY DEF Leading, Mismatch, Unsuccessful
<1>0. Keywords(Mismatch) = keys /\ "order_id" \notin keys /\ "account_hash" \notin keys
      /\ "expected_account_hash" \in keys
  BY DEF Keywords, Mismatch
<1>2. /\ DOMAIN names = 1 .. 3
      /\ names[1] = "response" /\ names[2] = "order_id" /\ names[3] = "account_hash"
  BY <1>1
<1>3. values[2] = id /\ values[3] = h
  OBVIOUS
<1> HIDE DEF names, values, keys
<1> DEFINE at(n) == CHOOSE i \in DOMAIN names : names[i] = n
<1>4. x = [class |-> Mismatch, args |-> SubSeq(values, Len(names) + 1, Len(values)),
           holds |-> [n \in ToSet(names) \cup keys |->
                         IF n \in keys THEN k ELSE values[at(n)]]]
  BY <1>0 DEF Construct, names
<1>5. "order_id" \in ToSet(names) /\ "account_hash" \in ToSet(names)
  BY <1>2 DEF ToSet
<1>6. at("order_id") = 2
  <2>1. at("order_id") \in 1 .. 3 /\ names[at("order_id")] = "order_id"
    BY <1>2
  <2> QED
    BY <2>1, <1>2
<1>7. at("account_hash") = 3
  <2>1. at("account_hash") \in 1 .. 3 /\ names[at("account_hash")] = "account_hash"
    BY <1>2
  <2> QED
    BY <2>1, <1>2
<1> HIDE DEF at
<1>8. /\ x.holds["order_id"] = id /\ x.holds["account_hash"] = h
      /\ x.holds["expected_account_hash"] = k
  BY <1>0, <1>3, <1>4, <1>5, <1>6, <1>7
<1> HIDE DEF x
<1> QED
  BY <1>4, <1>8 DEF x, values

\* An extraction gives the id of an order on the account expected, or raises
\* the exception for the answer.
LEMMA Extraction ==
    ASSUME NEW a \in Answers, NEW h
    PROVE  /\ extract_order_id(a, h).exception = NoException =>
                /\ a.location = "order" /\ a.account = h
                /\ extract_order_id(a, h).id = a.order
           /\ extract_order_id(a, h).exception # NoException =>
                RaisedFor(a, extract_order_id(a, h).exception)
<1> DEFINE out == extract_order_id(a, h)
<1>0. /\ NoException.class \notin Classes
      /\ Unsuccessful # Mismatch /\ Missing \notin {Unsuccessful, Mismatch}
      /\ Unrecognized \notin {Unsuccessful, Mismatch}
  BY DEF NoException, None, Mismatch, Missing, Unrecognized, Unsuccessful, Classes
<1>5. None # "order"
  BY DEF None
<1>1. CASE a.status = "error"
  <2> DEFINE m == <<"not successful">> \o _describe_error(a.body)
             x == Construct(Unsuccessful, <<"response", m>>, None)
  <2>1. out.exception = x
    BY <1>1 DEF extract_order_id, Raises
  <2>2. /\ x = [class |-> x.class, args |-> x.args, holds |-> x.holds]
        /\ x.class = Unsuccessful
        /\ x.args = <<m>>
        /\ x.holds["response"] = "response"
    BY RejectionMade
  <2> HIDE DEF x
  <2>3. x # NoException
    BY <2>2, <1>0 DEF Classes
  <2> QED
    BY <1>0, <1>1, <2>1, <2>2, <2>3 DEF RaisedFor, Classes
<1>2. CASE a.status # "error" /\ a.location # "order"
  <2> DEFINE class == IF a.location = None THEN Missing ELSE Unrecognized
  <2>1. PICK values : out.exception = Construct(class, values, None)
    BY <1>2 DEF extract_order_id, Raises
  <2>2. /\ out.exception = [class |-> out.exception.class, args |-> out.exception.args,
                            holds |-> out.exception.holds]
        /\ out.exception.class = class
    BY <2>1 DEF Construct
  <2>3. class \in {Missing, Unrecognized}
    OBVIOUS
  <2> HIDE DEF class, out
  <2>4. out.exception # NoException
    BY <2>2, <2>3, <1>0 DEF Classes
  <2>5. RaisedFor(a, out.exception)
    BY <2>2, <2>3, <1>0 DEF RaisedFor, Classes
  <2> QED
    BY <2>4, <2>5 DEF out
<1>3. CASE a.status # "error" /\ a.location = "order" /\ a.account # h
  <2>0. PICK m : m = <<"other account">>
    OBVIOUS
  <2> DEFINE x == Construct(Mismatch, <<"response", a.order, a.account, m>>, h)
  <2>1. out.exception = x
    BY <1>5, <1>3, <2>0 DEF extract_order_id, Raises
  <2>2. /\ x = [class |-> x.class, args |-> x.args, holds |-> x.holds]
        /\ x.class = Mismatch
        /\ x.holds["order_id"] = a.order
        /\ x.holds["account_hash"] = a.account
    BY MismatchMade
  <2> HIDE DEF x
  <2>3. x # NoException
    BY <2>2, <1>0 DEF Classes
  <2> QED
    BY <1>0, <1>3, <2>1, <2>2, <2>3 DEF RaisedFor, Classes
<1>4. CASE a.status # "error" /\ a.location = "order" /\ a.account = h
  <2>1. out = [id |-> a.order, exception |-> NoException]
    BY <1>5, <1>4 DEF extract_order_id, Returned
  <2> QED
    BY <1>4, <2>1
<1> QED
  BY <1>1, <1>2, <1>3, <1>4
----------------------------------------------------------------------------
\* The inductive invariant

Types ==
    /\ listing \in Listings
    /\ lookups \in Seq([account : Accounts,
                       result : {find_account_hash(l, a).result : l \in Listings, a \in Accounts}])
    /\ reported \in SUBSET Unusable
    /\ warnings \in Seq(Unusable)
    /\ desk \in Hashes \cup {None}
    /\ book \in SUBSET [id : Nat \ {NoOrder}, account : Hashes]
    /\ sent \in Nat

\* A lookup's answer is that of the list for its account.
LookedUp ==
    \A i \in DOMAIN lookups :
        lookups[i].result = find_account_hash(listing, lookups[i].account).result

\* What was warned about is what was reported, each once.
Warned == ToSet(warnings) \subseteq reported /\ IsInjective(warnings)

\* The orders at the venue are among those sent, and an id is of one order.
Booked ==
    \A o \in book : o.id <= sent /\ \A p \in book : o.id = p.id => o = p

\* The answer in hand is of an order at the venue, or says there is none.
AnswerOfOrder ==
    answer # NoAnswer =>
        /\ answer \in Answers
        /\ answer.status = "success" =>
              [id |-> answer.order, account |-> answer.account] \in book
        /\ answer.status # "success" =>
              answer.order = NoOrder /\ answer.location # "order"

\* The exception in hand is the one for the answer in hand.
RaisedForAnswer == raised # NoException => answer # NoAnswer /\ RaisedFor(answer, raised)

DeskInv ==
    /\ Types /\ LookedUp /\ Warned /\ Booked
    /\ AnswerOfOrder /\ RaisedForAnswer
    /\ KnownIsLive /\ NoOrderUnheard

\* It holds before anything is done.
LEMMA DeskInit == Init => DeskInv
<1> SUFFICES ASSUME Init PROVE DeskInv
  OBVIOUS
<1>1. Types /\ LookedUp /\ Booked
  BY DEF Init, Types, LookedUp, Booked
<1>2. Warned
  BY DEF Init, Warned, ToSet, IsInjective
<1>3. AnswerOfOrder /\ RaisedForAnswer /\ KnownIsLive /\ NoOrderUnheard
  BY DEF Init, AnswerOfOrder, RaisedForAnswer, KnownIsLive, NoOrderUnheard
<1> QED
  BY <1>1, <1>2, <1>3 DEF DeskInv

\* A lookup is answered from the list, and warns of what is new.
LEMMA LookUpKeeps ==
    ASSUME DeskInv, NEW a \in Accounts, LookUp(a)
    PROVE  DeskInv' /\ CopyKeeps
<1> DEFINE found == find_account_hash(listing, a)
           new == _report_skipped_account_entry(found.problems, reported)
           Entries == [account : Accounts,
                       result : {find_account_hash(l, b).result : l \in Listings, b \in Accounts}]
<1>1. /\ lookups' = Append(lookups, [account |-> a, result |-> found.result])
      /\ reported' = reported \cup ToSet(new)
      /\ warnings' = warnings \o new
      /\ UNCHANGED <<listing, desk, book, answer, raised, known, looked, broad, sent>>
  BY DEF LookUp
<1>2. Types /\ LookedUp /\ Warned
  BY DEF DeskInv
<1>3. listing \in Listings
  BY <1>2 DEF Types
<1>4. found.problems \in SUBSET Unusable
  BY <1>3, FoundIn
<1>5. new \in Seq(found.problems \ reported) /\ IsInjective(new)
  BY <1>4, NewProblems
<1>6. [account |-> a, result |-> found.result] \in Entries
  BY <1>3
<1> HIDE DEF found, Entries
<1>7. lookups \in Seq(Entries)
  BY <1>2 DEF Types, Entries
<1>8. lookups' \in Seq(Entries)
  BY <1>1, <1>6, <1>7
<1>9. new \in Seq(Unusable)
  BY <1>4, <1>5
<1> HIDE DEF new
<1>10. ToSet(new) \subseteq found.problems \ reported
  BY <1>5 DEF ToSet
<1>11. warnings \in Seq(Unusable) /\ warnings' \in Seq(Unusable)
  BY <1>1, <1>2, <1>9 DEF Types
<1>12. Types'
  BY <1>1, <1>2, <1>4, <1>8, <1>10, <1>11 DEF Types, Entries
<1>13. LookedUp'
  <2>1. DOMAIN lookups' = 1 .. Len(lookups) + 1 /\ Len(lookups) \in Nat
    BY <1>1, <1>6, <1>7
  <2>2. lookups'[Len(lookups) + 1] = [account |-> a, result |-> found.result]
    BY <1>1, <1>6, <1>7
  <2>3. \A i \in 1 .. Len(lookups) : lookups'[i] = lookups[i] /\ i \in DOMAIN lookups
    BY <1>1, <1>6, <1>7
  <2>4. ASSUME NEW i \in DOMAIN lookups'
        PROVE  lookups'[i].result = find_account_hash(listing, lookups'[i].account).result
    <3>1. CASE i = Len(lookups) + 1
      BY <3>1, <2>2 DEF found
    <3>2. CASE i # Len(lookups) + 1
      <4>1. i \in 1 .. Len(lookups)
        BY <3>2, <2>1
      <4> QED
        BY <4>1, <2>3, <1>2 DEF LookedUp
    <3> QED
      BY <3>1, <3>2
  <2> QED
    BY <1>1, <2>4 DEF LookedUp
<1>14. Warned'
  <2> DEFINE n == Len(warnings)
  <2>1. n \in Nat /\ Len(new) \in Nat /\ DOMAIN warnings' = 1 .. n + Len(new)
    BY <1>1, <1>9, <1>11
  <2>2. \A i \in 1 .. n : warnings'[i] = warnings[i] /\ i \in DOMAIN warnings
    BY <1>1, <1>9, <1>11
  <2>3. \A i \in n + 1 .. n + Len(new) :
            i - n \in DOMAIN new /\ warnings'[i] = new[i - n]
    BY <1>1, <1>9, <1>11
  <2>4. \A i \in DOMAIN warnings : warnings[i] \in reported
    BY <1>2 DEF Warned, ToSet
  <2>5. \A i \in DOMAIN new : new[i] \notin reported /\ new[i] \in ToSet(new)
    BY <1>10 DEF ToSet
  <2>6. \A i \in DOMAIN warnings' : i \in 1 .. n \/ i \in n + 1 .. n + Len(new)
    BY <2>1
  <2> HIDE DEF n
  <2>7. ToSet(warnings') \subseteq reported'
    BY <1>1, <2>2, <2>3, <2>4, <2>5, <2>6 DEF ToSet
  <2>8. ASSUME NEW i \in DOMAIN warnings', NEW j \in DOMAIN warnings',
               warnings'[i] = warnings'[j]
        PROVE  i = j
    <3>1. CASE i \in 1 .. n /\ j \in 1 .. n
      BY <3>1, <2>2, <2>8, <1>2 DEF Warned, IsInjective
    <3>2. CASE i \in n + 1 .. n + Len(new) /\ j \in n + 1 .. n + Len(new)
      <4>1. new[i - n] = new[j - n] /\ i - n \in DOMAIN new /\ j - n \in DOMAIN new
        BY <3>2, <2>3, <2>8
      <4>2. i - n = j - n
        BY <4>1, <1>5 DEF IsInjective
      <4> QED
        BY <4>2, <3>2, <2>1
    <3>3. CASE i \in 1 .. n /\ j \in n + 1 .. n + Len(new)
      BY <3>3, <2>2, <2>3, <2>4, <2>5, <2>8
    <3>4. CASE j \in 1 .. n /\ i \in n + 1 .. n + Len(new)
      BY <3>4, <2>2, <2>3, <2>4, <2>5, <2>8
    <3> QED
      BY <3>1, <3>2, <3>3, <3>4, <2>6
  <2> QED
    BY <2>7, <2>8 DEF Warned, IsInjective
<1>15. Booked' /\ AnswerOfOrder' /\ RaisedForAnswer' /\ KnownIsLive' /\ NoOrderUnheard'
  BY <1>1 DEF DeskInv, Booked, AnswerOfOrder, RaisedForAnswer, KnownIsLive, NoOrderUnheard
<1>16. CopyKeeps
  BY <1>1 DEF CopyKeeps
<1> QED
  BY <1>12, <1>13, <1>14, <1>15, <1>16 DEF DeskInv
\* A Utils for one of the accounts found, whatever is in hand.
LEMMA SetHashKeeps ==
    ASSUME DeskInv, NEW h \in Hashes, set_account_hash(h)
    PROVE  DeskInv' /\ CopyKeeps
<1>1. /\ desk' = h
      /\ UNCHANGED <<listing, lookups, reported, warnings, book, answer, raised,
                     known, looked, broad, sent>>
  BY DEF set_account_hash
<1>2. Types'
  BY <1>1 DEF DeskInv, Types
<1>3. LookedUp' /\ Warned' /\ Booked' /\ AnswerOfOrder' /\ RaisedForAnswer'
  BY <1>1 DEF DeskInv, LookedUp, Warned, Booked, AnswerOfOrder, RaisedForAnswer
<1>4. KnownIsLive' /\ NoOrderUnheard' /\ CopyKeeps
  BY <1>1 DEF DeskInv, KnownIsLive, NoOrderUnheard, CopyKeeps
<1> QED
  BY <1>2, <1>3, <1>4 DEF DeskInv

\* An order that is accepted has a new id, and its answer is in hand.
LEMMA PlaceKeeps ==
    ASSUME DeskInv, NEW h \in Hashes, NEW s \in {"success", "redirect", "error"},
           NEW l \in {None, "order", "other"}, NEW b \in Bodies,
           place_order(h, s, l, b)
    PROVE  DeskInv' /\ CopyKeeps
<1> DEFINE o == [id |-> sent + 1, account |-> h]
<1>1. /\ answer = NoAnswer /\ raised = NoException
      /\ s # "success" => l # "order"
      /\ answer' = [status |-> s, location |-> l, body |-> b,
                    order |-> IF s = "success" THEN sent + 1 ELSE NoOrder,
                    account |-> h]
      /\ book' = IF s = "success" THEN book \cup {o} ELSE book
      /\ sent' = sent + 1
      /\ UNCHANGED <<listing, lookups, reported, warnings, desk, raised, known,
                     looked, broad>>
  BY DEF place_order
<1>2. Types /\ Booked /\ KnownIsLive /\ NoOrderUnheard
  BY DEF DeskInv
<1>3. sent \in Nat /\ sent + 1 \in Nat \ {NoOrder} /\ NoOrder \in Nat
  BY <1>2 DEF Types, NoOrder
<1>4. o \in [id : Nat \ {NoOrder}, account : Hashes]
  BY <1>3
<1>5. book \subseteq [id : Nat \ {NoOrder}, account : Hashes]
  BY <1>2 DEF Types
<1>6. Types'
  BY <1>1, <1>2, <1>3, <1>4, <1>5 DEF Types
<1>7. Booked'
  <2>1. \A p \in book : p.id \in Nat /\ p.id <= sent
    BY <1>2, <1>5 DEF Booked
  <2>2. o.id = sent + 1
    OBVIOUS
  <2>3. \A p \in book' : p \in book \/ p = o
    BY <1>1
  <2> HIDE DEF o
  <2>4. \A p \in book' : p.id <= sent'
    BY <1>1, <1>3, <2>1, <2>2, <2>3
  <2>5. ASSUME NEW p \in book', NEW q \in book', p.id = q.id PROVE p = q
    <3>1. CASE p \in book /\ q \in book
      BY <3>1, <2>5, <1>2 DEF Booked
    <3>2. CASE p = o /\ q = o
      BY <3>2
    <3>3. CASE p \in book /\ q = o
      BY <3>3, <2>1, <2>2, <2>5, <1>3
    <3>4. CASE p = o /\ q \in book
      BY <3>4, <2>1, <2>2, <2>5, <1>3
    <3> QED
      BY <3>1, <3>2, <3>3, <3>4, <2>3
  <2> QED
    BY <2>4, <2>5 DEF Booked
<1>8. AnswerOfOrder'
  <2>1. answer' \in Answers
    BY <1>1, <1>3 DEF Answers
  <2>2. answer'.status = s /\ answer'.account = h /\ answer'.location = l
    BY <1>1
  <2>3. s = "success" => answer'.order = sent + 1 /\ o \in book'
    BY <1>1
  <2>4. s # "success" => answer'.order = NoOrder
    BY <1>1
  <2> QED
    BY <1>1, <2>1, <2>2, <2>3, <2>4 DEF AnswerOfOrder
<1>9. RaisedForAnswer' /\ CopyKeeps
  BY <1>1 DEF RaisedForAnswer, CopyKeeps
<1>10. KnownIsLive'
  BY <1>1, <1>2 DEF KnownIsLive
<1>11. NoOrderUnheard'
  <2>1. \A p \in book : p.id # NoAnswer.order
    BY <1>5 DEF NoAnswer
  <2>2. s = "success" => answer'.order = o.id
    BY <1>1
  <2>3. \A p \in book' : p \in book \/ (p = o /\ s = "success")
    BY <1>1
  <2> HIDE DEF o
  <2> QED
    BY <1>1, <1>2, <2>1, <2>2, <2>3 DEF NoOrderUnheard
<1>12. LookedUp' /\ Warned'
  BY <1>1 DEF DeskInv, LookedUp, Warned
<1> QED
  BY <1>6, <1>7, <1>8, <1>9, <1>10, <1>11, <1>12 DEF DeskInv

\* The order of the answer in hand, if there is one, is at the venue.
LEMMA OrderInHand ==
    ASSUME DeskInv, answer # NoAnswer, answer.location = "order"
    PROVE  /\ [id |-> answer.order, account |-> answer.account] \in book
           /\ \A o \in book : o.id = answer.order =>
                 o = [id |-> answer.order, account |-> answer.account]
  BY DEF DeskInv, AnswerOfOrder, Booked

\* An id that is read is that of the order in hand, on the account of the
\* Utils; an exception that is raised is the one for the answer.
LEMMA ExtractKeeps ==
    ASSUME DeskInv, Extract
    PROVE  DeskInv' /\ CopyKeeps
<1> DEFINE out == extract_order_id(answer, desk)
           o == [id |-> answer.order, account |-> answer.account]
<1>1. /\ answer # NoAnswer /\ raised = NoException
      /\ UNCHANGED <<listing, lookups, reported, warnings, desk, book, looked,
                     broad, sent>>
  BY DEF Extract
<1>2. answer \in Answers
  BY <1>1 DEF DeskInv, AnswerOfOrder
<1>3. Types' /\ LookedUp' /\ Warned' /\ Booked'
  BY <1>1 DEF DeskInv, Types, LookedUp, Warned, Booked
<1>4. CopyKeeps
  BY <1>1 DEF CopyKeeps
<1>5. CASE out.exception = NoException
  <2>1. /\ known' = known \cup {[id |-> out.id, account |-> desk]}
        /\ answer' = NoAnswer
        /\ UNCHANGED raised
    BY <1>5 DEF Extract
  <2>2. answer.location = "order" /\ answer.account = desk /\ out.id = answer.order
    BY <1>2, <1>5, Extraction
  <2>3. known' = known \cup {o} /\ o \in book
    BY <1>1, <2>1, <2>2, OrderInHand
  <2>4. AnswerOfOrder' /\ RaisedForAnswer'
    BY <1>1, <2>1 DEF AnswerOfOrder, RaisedForAnswer
  <2>5. KnownIsLive'
    BY <1>1, <2>3 DEF DeskInv, KnownIsLive
  <2>6. \A p \in book : p.id = answer.order => p = o
    BY <1>1, <2>2, OrderInHand
  <2> HIDE DEF o
  <2>7. NoOrderUnheard'
    BY <1>1, <2>3, <2>6 DEF DeskInv, NoOrderUnheard
  <2> QED
    BY <1>3, <1>4, <2>4, <2>5, <2>7 DEF DeskInv
<1>6. CASE out.exception # NoException
  <2>1. raised' = out.exception /\ UNCHANGED <<known, answer>>
    BY <1>6 DEF Extract
  <2>2. RaisedFor(answer, out.exception)
    BY <1>2, <1>6, Extraction
  <2> HIDE DEF out
  <2>3. RaisedForAnswer'
    BY <1>1, <2>1, <2>2 DEF RaisedForAnswer
  <2>4. AnswerOfOrder' /\ KnownIsLive' /\ NoOrderUnheard'
    BY <1>1, <2>1 DEF DeskInv, AnswerOfOrder, KnownIsLive, NoOrderUnheard
  <2> QED
    BY <1>3, <1>4, <2>3, <2>4 DEF DeskInv
<1> QED
  BY <1>5, <1>6

\* What is rebuilt elsewhere is what was raised.
LEMMA MoveKeeps ==
    ASSUME DeskInv, Move
    PROVE  DeskInv' /\ CopyKeeps
<1>1. /\ raised # NoException /\ raised' = __reduce__(raised)
      /\ UNCHANGED <<listing, lookups, reported, warnings, desk, book, answer,
                     known, looked, broad, sent>>
  BY DEF Move
<1>2. raised = [class |-> raised.class, args |-> raised.args, holds |-> raised.holds]
  BY <1>1 DEF DeskInv, RaisedForAnswer, RaisedFor
<1>3. raised' = raised
  BY <1>1, <1>2 DEF __reduce__, _rebuild_exception
<1>4. Types' /\ LookedUp' /\ Warned' /\ Booked'
  BY <1>1 DEF DeskInv, Types, LookedUp, Warned, Booked
<1>5. AnswerOfOrder' /\ RaisedForAnswer' /\ KnownIsLive' /\ NoOrderUnheard'
  BY <1>1, <1>3 DEF DeskInv, AnswerOfOrder, RaisedForAnswer, KnownIsLive, NoOrderUnheard
<1> QED
  BY <1>3, <1>4, <1>5 DEF DeskInv, CopyKeeps

\* Whichever clause takes the exception, an order at the venue that it is
\* about becomes known, is looked for, or went into an except ValueError as
\* its class says it may.
LEMMA HandleKeeps ==
    ASSUME DeskInv, NEW c \in Clauses, Handle(c)
    PROVE  DeskInv' /\ CopyKeeps
<1> DEFINE o == [id |-> answer.order, account |-> answer.account]
<1>1. /\ raised # NoException /\ c \in Bases(raised.class)
      /\ known' = IF c = Mismatch
                  THEN known \cup {[id |-> raised.holds["order_id"],
                                    account |-> raised.holds["account_hash"]]}
                  ELSE known
      /\ looked' = IF c \in {"OrderIdNotFoundError", "SchwabError"}
                   THEN looked \cup {answer.order} ELSE looked
      /\ broad' = IF c = "ValueError"
                  THEN broad \cup {[id |-> answer.order, class |-> raised.class]}
                  ELSE broad
      /\ answer' = NoAnswer /\ raised' = NoException
      /\ UNCHANGED <<listing, lookups, reported, warnings, desk, book, sent>>
  BY DEF Handle
<1>2. answer # NoAnswer /\ RaisedFor(answer, raised)
  BY <1>1 DEF DeskInv, RaisedForAnswer
<1>3. Types' /\ LookedUp' /\ Warned' /\ Booked'
  BY <1>1 DEF DeskInv, Types, LookedUp, Warned, Booked
<1>4. AnswerOfOrder' /\ RaisedForAnswer' /\ CopyKeeps
  BY <1>1 DEF AnswerOfOrder, RaisedForAnswer, CopyKeeps
<1>5. known \subseteq book /\ NoOrderUnheard
  BY DEF DeskInv, KnownIsLive
<1>6. raised.class \in Classes
  BY <1>2 DEF RaisedFor
<1>7. CASE raised.class = Mismatch
  <2>1. /\ answer.location = "order" /\ raised.holds["order_id"] = answer.order
        /\ raised.holds["account_hash"] = answer.account
    BY <1>2, <1>7 DEF RaisedFor
  <2>2. o \in book /\ \A p \in book : p.id = answer.order => p = o
    BY <1>2, <2>1, OrderInHand
  <2>3. known' = IF c = Mismatch THEN known \cup {o} ELSE known
    BY <1>1, <2>1
  <2>4. c \in {Mismatch, "SchwabError", "ValueError"}
    BY <1>1, <1>7 DEF Bases, AccountHashMismatchException, UnsuccessfulOrderException,
       OrderIdNotFoundError, Mismatch, Unsuccessful
  <2>5. "SchwabError" # Mismatch /\ "ValueError" # Mismatch
    BY DEF Mismatch
  <2> HIDE DEF o
  <2>6. KnownIsLive'
    BY <1>1, <1>5, <2>2, <2>3 DEF KnownIsLive
  <2>7. ASSUME NEW p \in book', p.id = answer.order
        PROVE  \/ p \in known' \/ p.id \in looked'
               \/ [id |-> p.id, class |-> Mismatch] \in broad'
    <3>1. p = o
      BY <1>1, <2>2, <2>7
    <3>2. CASE c = Mismatch
      BY <3>1, <3>2, <2>3
    <3>3. CASE c = "SchwabError"
      BY <3>3, <1>1, <2>7
    <3>4. CASE c = "ValueError"
      BY <3>4, <1>1, <1>7, <2>7
    <3> QED
      BY <2>4, <3>2, <3>3, <3>4
  <2>8. NoOrderUnheard'
    BY <1>1, <1>5, <2>3, <2>7 DEF NoOrderUnheard
  <2> QED
    BY <1>3, <1>4, <2>6, <2>8 DEF DeskInv
<1>8. CASE raised.class = Unsuccessful
  <2>1. answer.order = NoOrder
    BY <1>2, <1>8 DEF DeskInv, AnswerOfOrder, RaisedFor
  <2>2. \A p \in book : p.id # answer.order
    BY <2>1 DEF DeskInv, Types
  <2>3. c # Mismatch
    BY <1>1, <1>8 DEF Bases, AccountHashMismatchException, UnsuccessfulOrderException,
       OrderIdNotFoundError, Mismatch, Unsuccessful
  <2>4. KnownIsLive'
    BY <1>1, <1>5, <2>3 DEF KnownIsLive
  <2>5. NoOrderUnheard'
    BY <1>1, <1>5, <2>2, <2>3 DEF NoOrderUnheard
  <2> QED
    BY <1>3, <1>4, <2>4, <2>5 DEF DeskInv
<1>9. CASE raised.class \in {Missing, Unrecognized}
  <2>1. c \in {"OrderIdNotFoundError", "SchwabError"}
    BY <1>1, <1>9 DEF Bases, AccountHashMismatchException, UnsuccessfulOrderException,
       OrderIdNotFoundError, Mismatch, Unsuccessful, Missing, Unrecognized, Clauses
  <2>2. c # Mismatch
    BY <2>1 DEF Mismatch
  <2>3. KnownIsLive'
    BY <1>1, <1>5, <2>2 DEF KnownIsLive
  <2>4. NoOrderUnheard'
    BY <1>1, <1>5, <2>1, <2>2 DEF NoOrderUnheard
  <2> QED
    BY <1>3, <1>4, <2>3, <2>4 DEF DeskInv
<1> QED
  BY <1>6, <1>7, <1>8, <1>9 DEF Classes
----------------------------------------------------------------------------
\* What the invariant says

\* Each answer to a lookup is right, since the list gives it.
LEMMA LookupsRight == Types /\ LookedUp => FoundIsOwn /\ NotFoundIsSure
<1> SUFFICES ASSUME Types, LookedUp PROVE FoundIsOwn /\ NotFoundIsSure
  OBVIOUS
<1>1. listing \in Listings
  BY DEF Types
<1>2. ASSUME NEW i \in DOMAIN lookups
      PROVE  /\ lookups[i].account \in Accounts
             /\ lookups[i].result = find_account_hash(listing, lookups[i].account).result
  <2> DEFINE R == {find_account_hash(l, a).result : l \in Listings, a \in Accounts}
             Entries == [account : Accounts, result : R]
  <2>1. lookups \in Seq(Entries)
    BY DEF Types
  <2> HIDE DEF Entries
  <2>2. lookups[i] \in Entries
    BY <1>2, <2>1
  <2> HIDE DEF R
  <2> QED
    BY <1>2, <2>2 DEF LookedUp, Entries
<1>3. FoundIsOwn
  BY <1>1, <1>2, FoundIn DEF FoundIsOwn, Named
<1>4. NotFoundIsSure
  <2> SUFFICES ASSUME NEW i \in DOMAIN lookups,
                      lookups[i].result = AccountNumberNotFoundError
               PROVE  \A j \in DOMAIN listing :
                          /\ listing[j].number \notin {None, lookups[i].account}
                          /\ listing[j].hash \in Unusable => listing[j].number \in Accounts
    BY DEF NotFoundIsSure
  <2> DEFINE a == lookups[i].account
  <2>1. a \in Accounts /\ find_account_hash(listing, a).result = AccountNumberNotFoundError
    BY <1>2
  <2> HIDE DEF a
  <2>2. \A j \in DOMAIN listing :
            /\ listing[j].number \notin {None, a}
            /\ listing[j].hash \in Unusable => listing[j].number \in Accounts
    BY <1>1, <2>1, FoundIn
  <2> QED
    BY <2>2 DEF a
<1> QED
  BY <1>3, <1>4

\* The rest of a list behind its first is the list it was put before.
LEMMA TailOf ==
    ASSUME NEW S, NEW x \in S, NEW d \in Seq(S)
    PROVE  Tail(<<x>> \o d) = d
<1> DEFINE s == <<x>> \o d
           t == Tail(s)
<1>1. s \in Seq(S) /\ Len(s) = 1 + Len(d) /\ Len(d) \in Nat
  OBVIOUS
<1>2. \A i \in 1 .. Len(d) : s[i + 1] = d[i]
  OBVIOUS
<1> HIDE DEF s
<1>3. t \in Seq(S) /\ Len(t) = Len(d) /\ \A i \in 1 .. Len(d) : t[i] = s[i + 1]
  BY <1>1
<1> HIDE DEF t
<1>4. t = d
  BY <1>2, <1>3, SeqEqual
<1> QED
  BY <1>4 DEF s, t

\* A rejection in hand carries the reasons of the answer in hand.
LEMMA ReasonsInHand == AnswerOfOrder /\ RaisedForAnswer => ReasonsKept
<1> SUFFICES ASSUME AnswerOfOrder, RaisedForAnswer, raised.class = Unsuccessful
             PROVE  LET said == Tail(raised.args[1])
                    IN  /\ raised.holds["response"] = "response"
                        /\ answer.body.object => IsPrefix(said, Reasons(answer.body))
                        /\ answer.body.object /\ Len(Reasons(answer.body)) <= DetailLimit
                                => said = Reasons(answer.body)
  BY DEF ReasonsKept
<1>1. raised # NoException
  BY DEF NoException, Unsuccessful, None
<1>2. answer \in Answers /\ RaisedFor(answer, raised)
  BY <1>1 DEF AnswerOfOrder, RaisedForAnswer
<1>3. answer.body \in Bodies
  BY <1>2 DEF Answers
<1> DEFINE d == _describe_error(answer.body)
           m == <<"not successful">> \o d
<1>4. /\ raised.args = <<m>>
      /\ raised.holds["response"] = "response"
  BY <1>2 DEF RaisedFor
<1>5. d \in Seq(Said)
  BY <1>3, DescribeReasons
<1>6. Tail(m) = d
  <2>1. "not successful" \in Said \cup {"not successful"}
    OBVIOUS
  <2> HIDE DEF d
  <2>2. d \in Seq(Said \cup {"not successful"})
    BY <1>5, SeqMonotonic
  <2> QED
    BY <2>1, <2>2, TailOf
<1> HIDE DEF m
<1>7. Tail(raised.args[1]) = d
  BY <1>4, <1>6
<1> QED
  BY <1>3, <1>4, <1>7, DescribeReasons

----------------------------------------------------------------------------
\* The theorems

\* A step keeps the invariant, and what is raised.
LEMMA DeskStep == DeskInv /\ [Next]_vars => DeskInv' /\ (Next => CopyKeeps)
<1> SUFFICES ASSUME DeskInv, [Next]_vars PROVE DeskInv' /\ (Next => CopyKeeps)
  OBVIOUS
<1>1. ASSUME NEW a \in Accounts, LookUp(a) PROVE DeskInv' /\ CopyKeeps
  BY <1>1, LookUpKeeps
<1>2. ASSUME NEW h \in Hashes, set_account_hash(h) PROVE DeskInv' /\ CopyKeeps
  BY <1>2, SetHashKeeps
<1>3. ASSUME NEW h \in Hashes, NEW s \in {"success", "redirect", "error"},
             NEW l \in {None, "order", "other"}, NEW b \in Bodies,
             place_order(h, s, l, b)
      PROVE  DeskInv' /\ CopyKeeps
  BY <1>3, PlaceKeeps
<1>4. CASE Extract
  BY <1>4, ExtractKeeps
<1>5. CASE Move
  BY <1>5, MoveKeeps
<1>6. ASSUME NEW c \in Clauses, Handle(c) PROVE DeskInv' /\ CopyKeeps
  BY <1>6, HandleKeeps
<1>7. CASE UNCHANGED vars
  <2>1. DeskInv'
    BY <1>7 DEF DeskInv, Types, LookedUp, Warned, Booked, AnswerOfOrder,
       RaisedForAnswer, KnownIsLive, NoOrderUnheard, vars
  <2>2. CopyKeeps
    BY <1>7 DEF CopyKeeps, vars
  <2> QED
    BY <2>1, <2>2
<1> QED
  BY <1>1, <1>2, <1>3, <1>4, <1>5, <1>6, <1>7 DEF Next

\* The invariant holds of every behaviour (schwaby/utils.py).
THEOREM DeskInvariance == Spec => []DeskInv
<1>1. DeskInv /\ [Next]_vars => DeskInv'
  BY DeskStep
<1> QED
  BY DeskInit, <1>1, PTL DEF Spec

\* What a caller is told of its accounts and orders is so: a hash found is of
\* the account asked for, each kind of odd entry is warned about once, the
\* orders it can act on are live, no live order goes unheard, a rejection
\* keeps its reasons and a copied exception all it has (find_account_hash,
\* extract_order_id, SchwabError.__reduce__).
THEOREM CallersKnow == Spec => CallerKnows
<1> DEFINE Right == /\ FoundIsOwn /\ NotFoundIsSure /\ WarnedOnce
                    /\ KnownIsLive /\ NoOrderUnheard /\ ReasonsKept
<1>1. DeskInv => Right
  BY LookupsRight, ReasonsInHand DEF DeskInv, Warned, WarnedOnce
<1>2. DeskInv /\ DeskInv' /\ [Next]_vars =>
        [/\ FoundIsOwn' /\ NotFoundIsSure' /\ WarnedOnce'
         /\ KnownIsLive' /\ NoOrderUnheard' /\ ReasonsKept'
         /\ CopyKeeps]_vars
  <2>1. DeskInv' => Right'
    BY <1>1, PTL
  <2> QED
    BY <2>1, DeskStep
<1> QED
  BY DeskInvariance, <1>2, PTL DEF Spec, CallerKnows
=============================================================================
