-------------------------- MODULE CSRSigningProofs --------------------------
(***************************************************************************)
(* Proofs about CSRSigning, for any keys, algorithms, passwords and        *)
(* templates.                                                              *)
(***************************************************************************)
EXTENDS CSRSigning, SequenceTheorems, TLAPS

(***************************************************************************)
(* The table and the library.                                              *)
(***************************************************************************)

ECDSAKeys == {"P224", "P256", "P384", "P521"}
RSARows   == {2, 3} \cup 5..10
ECDSARows == 13..16

\* The first row of an algorithm, for those that the library can sign with.
LEMMA RowsAreFirst ==
  ASSUME NEW n \in RSARows \cup ECDSARows
  PROVE  RowOf(signatureAlgorithmDetails[n].algo) = n
<1> USE DEF RowOf, SelectInSeq, Min, signatureAlgorithmDetails, Row
<1>1. CASE n = 2
  BY <1>1
<1>2. CASE n = 3
  BY <1>2
<1>3. CASE n = 5
  BY <1>3
<1>4. CASE n = 6
  BY <1>4
<1>5. CASE n = 7
  BY <1>5
<1>6. CASE n = 8
  BY <1>6
<1>7. CASE n = 9
  BY <1>7
<1>8. CASE n = 10
  BY <1>8
<1>9. CASE n = 13
  BY <1>9
<1>10. CASE n = 14
  BY <1>10
<1>11. CASE n = 15
  BY <1>11
<1>12. CASE n = 16
  BY <1>12
<1> HIDE DEF RowOf, SelectInSeq, Min, signatureAlgorithmDetails, Row
<1> QED
  BY <1>1, <1>2, <1>3, <1>4, <1>5, <1>6, <1>7, <1>8, <1>9, <1>10, <1>11, <1>12
  DEF RSARows, ECDSARows

LEMMA HashIsUnique ==
  ASSUME NEW h \in DOMAIN HashedWith, NEW a \in HashedWith[h]
  PROVE  HashOf(a) = h
<1>1. \A g \in DOMAIN HashedWith : a \in HashedWith[g] => g = h
  BY DEF HashedWith
<1> QED
  BY <1>1 DEF HashOf

\* The library signs with the keys that addChallenge knows, and with Ed25519.
LEMMA KeysOfLibrary ==
  ASSUME NEW pub \in Keys, NEW algo \in StdAlgorithms(pub)
  PROVE  pub \in {"RSA", "Ed25519"} \cup ECDSAKeys
<1>1. CASE pub \in {"RSA", "Ed25519"} \cup ECDSAKeys
  BY <1>1
<1>2. CASE pub \notin {"RSA", "Ed25519"} \cup ECDSAKeys
  <2>1. KeyType(pub) = pub
    BY <1>2 DEF KeyType, ECDSAKeys
  <2>2. StdAlgorithms(pub) = {}
    BY <1>2, <2>1, KeysAssumption DEF StdAlgorithms
  <2> QED
    BY <2>2
<1> QED
  BY <1>1, <1>2

\* What the library makes a request with and names in it.
StdParams(pub, algo) ==
    [hash |-> HashOf(StdAlgorithm(pub, algo)),
     id |-> StdIdentifier(pub, StdAlgorithm(pub, algo))]

LEMMA NamedRSA ==
  ASSUME NEW n \in RSARows, NEW algo, algo = signatureAlgorithmDetails[n].algo
  PROVE  signingParamsForPublicKey("RSA", algo) = StdParams("RSA", algo)
<1> DEFINE row == signatureAlgorithmDetails[n]
<1>1. RowOf(algo) = n
  BY RowsAreFirst
<1>2. /\ row.pub = "RSA" /\ algo # "default" /\ row.hash # "none"
      /\ algo \in HashedWith[row.hash] /\ row.hash \in DOMAIN HashedWith
  BY DEF RSARows, signatureAlgorithmDetails, Row, HashedWith
<1>3. HashOf(algo) = row.hash
  BY <1>2, HashIsUnique
<1>4. KeyType("RSA") = "RSA" /\ n # 0
  BY DEF KeyType, RSARows
<1>5. DefaultParams("RSA") = Params("SHA256", "SHA256WithRSA", NULL)
  BY DEF DefaultParams
<1>6. DefaultParams("RSA") # NoParams
  BY <1>5 DEF Params, NoParams
<1>7. signingParamsForPublicKey("RSA", algo) = RequestedParams("RSA", algo)
  BY <1>2, <1>6 DEF signingParamsForPublicKey
<1>8. RequestedParams("RSA", algo)
         = Params(row.hash, row.oid, IF algo \in PSSAlgorithms
                                     THEN rsaPSSParameters(row.hash) ELSE NULL)
  BY <1>1, <1>2, <1>4, <1>5 DEF RequestedParams, Params
<1>9. CASE algo \in PSSAlgorithms
  <2>1. row.oid = "RSAPSS" /\ rsaPSSParameters(row.hash) = StdPSS[algo]
    BY <1>9 DEF RSARows, signatureAlgorithmDetails, Row, PSSAlgorithms,
       rsaPSSParameters, StdPSS
  <2> QED
    BY <1>2, <1>3, <1>7, <1>8, <1>9, <2>1
    DEF Params, StdParams, StdAlgorithm, StdIdentifier
<1>10. CASE algo \notin PSSAlgorithms
  <2>1. row.oid = algo
    BY <1>10 DEF RSARows, signatureAlgorithmDetails, Row, PSSAlgorithms
  <2> QED
    BY <1>2, <1>3, <1>4, <1>7, <1>8, <1>10, <2>1
    DEF Params, StdParams, StdAlgorithm, StdIdentifier
<1> QED
  BY <1>9, <1>10

LEMMA NamedECDSA ==
  ASSUME NEW pub \in ECDSAKeys,
         NEW n \in ECDSARows, NEW algo, algo = signatureAlgorithmDetails[n].algo
  PROVE  signingParamsForPublicKey(pub, algo) = StdParams(pub, algo)
<1> DEFINE row == signatureAlgorithmDetails[n]
<1>1. RowOf(algo) = n
  BY RowsAreFirst
<1>2. /\ row.pub = "ECDSA" /\ algo # "default" /\ row.hash # "none"
      /\ algo \in HashedWith[row.hash] /\ row.hash \in DOMAIN HashedWith
      /\ row.oid = algo /\ algo \notin PSSAlgorithms
  BY DEF ECDSARows, signatureAlgorithmDetails, Row, HashedWith, PSSAlgorithms
<1>3. HashOf(algo) = row.hash
  BY <1>2, HashIsUnique
<1>4. KeyType(pub) = "ECDSA" /\ n # 0
  BY DEF KeyType, ECDSAKeys, ECDSARows
<1>5. /\ DefaultParams(pub).id.parameters = Absent
      /\ DefaultParams(pub).hash # "none"
  BY DEF DefaultParams, Params, ECDSAKeys
<1>6. DefaultParams(pub) # NoParams
  BY <1>5 DEF Params, NoParams
<1>7. signingParamsForPublicKey(pub, algo) = RequestedParams(pub, algo)
  BY <1>2, <1>6 DEF signingParamsForPublicKey
<1>8. RequestedParams(pub, algo) = Params(row.hash, algo, Absent)
  BY <1>1, <1>2, <1>4, <1>5 DEF RequestedParams
<1> QED
  BY <1>2, <1>3, <1>4, <1>7, <1>8
  DEF Params, StdParams, StdAlgorithm, StdIdentifier

LEMMA Default ==
  ASSUME NEW pub \in {"RSA"} \cup ECDSAKeys
  PROVE  signingParamsForPublicKey(pub, "default") = StdParams(pub, "default")
<1> DEFINE algo == StdDefault[pub]
<1>1. /\ DefaultParams(pub).hash \in DOMAIN HashedWith
      /\ algo \in HashedWith[DefaultParams(pub).hash]
      /\ algo \notin PSSAlgorithms
  BY DEF DefaultParams, Params, HashedWith, StdDefault, ECDSAKeys, PSSAlgorithms
<1>2. HashOf(algo) = DefaultParams(pub).hash
  BY <1>1, HashIsUnique
<1>3. DefaultParams(pub)
         = Params(DefaultParams(pub).hash, algo,
                  IF KeyType(pub) = "RSA" THEN NULL ELSE Absent)
  BY DEF DefaultParams, Params, StdDefault, ECDSAKeys, KeyType
<1> QED
  BY <1>1, <1>2, <1>3
  DEF Params, StdParams, StdAlgorithm, StdIdentifier, signingParamsForPublicKey

(***************************************************************************)
(* What addChallenge chooses is what the library chose, and it chooses     *)
(* nothing for Ed25519.                                                    *)
(***************************************************************************)
LEMMA SameParams ==
  ASSUME NEW pub \in Keys, NEW algo \in StdAlgorithms(pub)
  PROVE  signingParamsForPublicKey(pub, algo)
            = IF pub = "Ed25519" THEN NoParams ELSE StdParams(pub, algo)
<1>1. CASE pub = "Ed25519"
  BY <1>1 DEF signingParamsForPublicKey, DefaultParams
<1>2. CASE pub = "RSA"
  <2>1. \/ algo = "default"
        \/ \E n \in RSARows : algo = signatureAlgorithmDetails[n].algo
    BY <1>2 DEF StdAlgorithms, KeyType, RSARows, signatureAlgorithmDetails, Row,
       PSSAlgorithms
  <2> QED
    BY <1>2, <2>1, NamedRSA, Default
<1>3. CASE pub \in ECDSAKeys
  <2>1. KeyType(pub) = "ECDSA"
    BY <1>3 DEF KeyType, ECDSAKeys
  <2>2. \/ algo = "default"
        \/ \E n \in ECDSARows : algo = signatureAlgorithmDetails[n].algo
    BY <2>1 DEF StdAlgorithms, ECDSARows, signatureAlgorithmDetails, Row
  <2> QED
    BY <1>3, <2>2, NamedECDSA, Default DEF ECDSAKeys
<1> QED
  BY <1>1, <1>2, <1>3, KeysOfLibrary

-----------------------------------------------------------------------------

(***************************************************************************)
(* The password.                                                           *)
(***************************************************************************)

HoldsPassword(t) == \E a \in Range(t) : a.id = "challengePassword"

LEMMA NoString ==
  ASSUME NEW t \in Templates, NEW i \in DOMAIN t
  PROVE  t[i] \in TemplateAttributes /\ ~ t[i].string
<1>1. t[i] \in TemplateAttributes
  BY TemplatesAssumption
<1>2. t[i].string = FALSE
  BY <1>1 DEF TemplateAttributes
<1> QED
  BY <1>1, <1>2

LEMMA ReadBack ==
  ASSUME NEW t \in Templates, NEW c \in Challenges
  PROVE  ParsedPassword(Append(t, Password(c)))
            = IF HoldsPassword(t) THEN NoPassword ELSE c
<1> DEFINE all       == Append(t, Password(c))
           passwords == {i \in DOMAIN all : all[i].id = "challengePassword"}
<1>1. t \in Seq(TemplateAttributes) /\ Len(t) \in Nat /\ DOMAIN t = 1..Len(t)
  BY TemplatesAssumption
<1>2. /\ DOMAIN all = 1..(Len(t) + 1)
      /\ \A i \in DOMAIN t : all[i] = t[i] /\ t[i] \in TemplateAttributes
      /\ all[Len(t) + 1] = Password(c)
  BY <1>1
<1>3. Len(t) + 1 \in passwords
  BY <1>1, <1>2 DEF Password
<1>4. CASE HoldsPassword(t)
  <2>1. PICK i \in DOMAIN t : t[i].id = "challengePassword"
    BY <1>4 DEF HoldsPassword, Range
  <2>2. i \in passwords /\ ~ all[i].string
    BY <1>1, <1>2, <2>1, NoString
  <2> QED
    BY <1>4, <2>2 DEF ParsedPassword
<1>5. CASE ~ HoldsPassword(t)
  <2>1. \A i \in DOMAIN t : t[i].id # "challengePassword"
    BY <1>5 DEF HoldsPassword, Range
  <2>2. passwords = {Len(t) + 1}
    BY <1>1, <1>2, <1>3, <2>1
  <2>3. Max(passwords) = Len(t) + 1
    BY <1>1, <2>2 DEF Max
  <2>4. all[Len(t) + 1].string /\ all[Len(t) + 1].text = c
    BY <1>2 DEF Password
  <2> HIDE DEF all
  <2>5. ParsedPassword(all) = all[Len(t) + 1].text
    BY <2>2, <2>3, <2>4 DEF ParsedPassword
  <2> QED
    BY <1>5, <2>4, <2>5 DEF all
<1> QED
  BY <1>4, <1>5

LEMMA NothingToRead ==
  ASSUME NEW t \in Templates
  PROVE  ParsedPassword(t) = NoPassword
BY NoString DEF ParsedPassword

-----------------------------------------------------------------------------

(***************************************************************************)
(* What a call has made so far follows from its arguments.                 *)
(***************************************************************************)
ArgsOK ==
    /\ key \in Keys
    /\ challenge \in Challenges \cup {NoPassword, NotUTF8}
    /\ template \in Templates

Made ==
    /\ pc = "challenge" => challenge # NoPassword
    /\ pc = "challenge" \/ Resigned =>
          /\ alg \in StdAlgorithms(key)
          /\ std.id = StdParams(key, alg).id
          /\ std.attrs = template
    /\ Resigned =>
          LET attrs == Append(template, Password(challenge)) IN
          /\ challenge \in Challenges /\ key # "Ed25519"
          /\ csr = [attrs |-> attrs, id |-> std.id,
                    sig |-> Sign(key, StdParams(key, alg).hash, attrs)]
    /\ pc \in {"parse", "parsed"} /\ challenge = NoPassword
          => csr.attrs = template
    /\ pc = "parsed" => password = ParsedPassword(csr.attrs)

CallInv == ArgsOK /\ TypeOK /\ Made /\ ChallengeRefusals

\* The types of what the library makes.
LEMMA StdTypes ==
  ASSUME NEW pub \in Keys, NEW algo \in StdAlgorithms(pub)
  PROVE  StdParams(pub, algo) \in [hash : DOMAIN HashedWith, id : Identifiers]
<1> DEFINE a == StdAlgorithm(pub, algo)
<1>1. pub \in {"RSA", "Ed25519"} \cup ECDSAKeys
  BY KeysOfLibrary
<1>2. \E h \in DOMAIN HashedWith : a \in HashedWith[h]
  <2>1. CASE algo = "default"
    BY <1>1, <2>1 DEF StdAlgorithm, StdDefault, HashedWith, ECDSAKeys
  <2>2. CASE algo # "default"
    BY <1>1, <2>2
    DEF StdAlgorithm, HashedWith, StdAlgorithms, PSSAlgorithms, KeyType,
        ECDSAKeys
  <2> QED
    BY <2>1, <2>2
<1>3. HashOf(a) \in DOMAIN HashedWith
  BY <1>2, HashIsUnique
<1>4. StdIdentifier(pub, a) \in Identifiers
  BY <1>2 DEF StdIdentifier, Identifiers
<1> QED
  BY <1>3, <1>4 DEF StdParams

\* Only Ed25519 is signed without a hash.
LEMMA ParamsFound ==
  ASSUME NEW pub \in Keys, NEW algo \in StdAlgorithms(pub), pub # "Ed25519"
  PROVE  StdParams(pub, algo) # NoParams
<1> DEFINE a == StdAlgorithm(pub, algo)
<1>1. pub \in {"RSA"} \cup ECDSAKeys
  BY KeysOfLibrary
<1>2. \E h \in DOMAIN HashedWith : h # "none" /\ a \in HashedWith[h]
  <2>1. CASE algo = "default"
    BY <1>1, <2>1 DEF StdAlgorithm, StdDefault, HashedWith, ECDSAKeys
  <2>2. CASE algo # "default"
    BY <1>1, <2>2
    DEF StdAlgorithm, HashedWith, StdAlgorithms, PSSAlgorithms, KeyType,
        ECDSAKeys
  <2> QED
    BY <2>1, <2>2
<1>3. HashOf(a) # "none"
  BY <1>2, HashIsUnique
<1> QED
  BY <1>3 DEF StdParams, NoParams, Params

LEMMA StdReturnsKeeps == CallInv /\ StdReturns => CallInv'
<1> SUFFICES ASSUME CallInv, StdReturns PROVE CallInv'
  OBVIOUS
<1> USE DEF CallInv, ArgsOK, TypeOK
<1>1. alg \in StdAlgorithms(key) /\ pc = "std" /\ UNCHANGED <<args, password>>
  BY DEF StdReturns
<1>2. StdParams(key, alg) \in [hash : DOMAIN HashedWith, id : Identifiers]
  BY <1>1, StdTypes
<1>3. PICK scheme \in {"PKCS1v15", "PSS", "ECDSA", "Ed25519"} :
         std' = [attrs |-> template, id |-> StdParams(key, alg).id,
                 sig |-> [scheme |-> scheme, over |-> template,
                          hash |-> StdParams(key, alg).hash]]
  BY DEF StdReturns, StdParams
<1>4. template \in AttributeLists
  BY DEF AttributeLists
<1>5. std' \in Requests
  BY <1>2, <1>3, <1>4 DEF Requests
<1>6. CASE challenge = NoPassword
  <2>1. pc' = "parse" /\ csr' = std'
    BY <1>6 DEF StdReturns
  <2> QED
    BY <1>1, <1>3, <1>5, <1>6, <2>1 DEF args, Made, Resigned, ChallengeRefusals
<1>7. CASE challenge # NoPassword
  <2>1. pc' = "challenge" /\ csr' = csr
    BY <1>7 DEF StdReturns
  <2> QED
    BY <1>1, <1>3, <1>5, <1>7, <2>1 DEF args, Made, Resigned, ChallengeRefusals
<1> QED
  BY <1>6, <1>7

LEMMA addChallengeKeeps == CallInv /\ addChallenge => CallInv'
<1> SUFFICES ASSUME CallInv, addChallenge PROVE CallInv'
  OBVIOUS
<1> USE DEF CallInv, ArgsOK, TypeOK
<1> DEFINE p     == signingParamsForPublicKey(key, alg)
           attrs == Append(std.attrs, Password(challenge))
<1>1. /\ pc = "challenge" /\ p # NoParams /\ challenge # NotUTF8
      /\ csr' = [attrs |-> attrs, id |-> p.id, sig |-> Sign(key, p.hash, attrs)]
      /\ pc' = "parse" /\ UNCHANGED <<args, std, password>>
  BY DEF addChallenge
<1>2. /\ alg \in StdAlgorithms(key) /\ std.id = StdParams(key, alg).id
      /\ std.attrs = template /\ challenge \in Challenges
  BY <1>1 DEF Made
<1>3. key # "Ed25519" /\ p = StdParams(key, alg)
  BY <1>1, <1>2, SameParams
<1>4. p \in [hash : DOMAIN HashedWith, id : Identifiers]
  BY <1>2, <1>3, StdTypes
<1>5. attrs \in AttributeLists
  BY <1>2 DEF AttributeLists
<1>6. csr' \in Requests
  <2> HIDE DEF p, attrs
  <2> QED
    BY <1>1, <1>4, <1>5 DEF Requests, Sign
<1> QED
  BY <1>1, <1>2, <1>3, <1>6 DEF args, Made, Resigned, ChallengeRefusals

LEMMA CallInvInductive == CallInv /\ [Next]_vars => CallInv'
<1> SUFFICES ASSUME CallInv, [Next]_vars PROVE CallInv'
  OBVIOUS
<1> USE DEF CallInv, ArgsOK, TypeOK
<1>1. CASE StdFails \/ SignFails
  BY <1>1 DEF StdFails, SignFails, args, Made, Resigned, ChallengeRefusals
<1>2. CASE StdReturns
  BY <1>2, StdReturnsKeeps
<1>3. CASE ChallengeFails
  <2>1. alg \in StdAlgorithms(key)
    BY <1>3 DEF ChallengeFails, Made
  <2>2. signingParamsForPublicKey(key, alg) = NoParams => key = "Ed25519"
    BY <2>1, SameParams, ParamsFound
  <2> QED
    BY <1>3, <2>2 DEF ChallengeFails, args, Made, Resigned, ChallengeRefusals
<1>4. CASE addChallenge
  BY <1>4, addChallengeKeeps
<1>5. CASE ParseChallengePassword
  <2>1. ParsedPassword(csr.attrs) \in Challenges \cup {NoPassword}
    <3>1. CASE challenge = NoPassword
      BY <1>5, <3>1, NothingToRead DEF ParseChallengePassword, Made
    <3>2. CASE challenge # NoPassword
      <4>1. /\ challenge \in Challenges
            /\ csr.attrs = Append(template, Password(challenge))
        BY <1>5, <3>2 DEF ParseChallengePassword, Made, Resigned
      <4> QED
        BY <4>1, ReadBack
    <3> QED
      BY <3>1, <3>2
  <2> QED
    BY <1>5, <2>1
    DEF ParseChallengePassword, args, Made, Resigned, ChallengeRefusals
<1>6. CASE UNCHANGED vars
  BY <1>6 DEF vars, args, Made, Resigned, ChallengeRefusals
<1> QED
  BY <1>1, <1>2, <1>3, <1>4, <1>5, <1>6 DEF Next

-----------------------------------------------------------------------------

\* What a call has made follows from its arguments (CreateCertificateRequest).
THEOREM CallInvariant == Spec => []CallInv
<1>1. Init => CallInv
  <2> SUFFICES ASSUME Init PROVE CallInv
    OBVIOUS
  <2>1. NoRequest \in Requests
    BY DEF NoRequest, NoParams, Params, Requests, AttributeLists, Identifiers,
       HashedWith
  <2> QED
    BY <2>1
    DEF Init, CallInv, ArgsOK, TypeOK, Made, Resigned, ChallengeRefusals
<1> QED
  BY <1>1, CallInvInductive, PTL DEF Spec

\* The variables of CSRSigning keep their types (CreateCertificateRequest).
THEOREM TypeCorrect == Spec => []TypeOK
BY CallInvariant, PTL DEF CallInv

\* addChallenge refuses what the library has signed for an Ed25519 key or a
\* password that cannot be encoded only; when the key itself fails to sign again
\* the call ends otherwise (signingParamsForPublicKey, addChallenge).
THEOREM RefusesOnlyEd25519 == Spec => []ChallengeRefusals
BY CallInvariant, PTL DEF CallInv

\* The request signed again names the algorithm of the library's request
\* (signingParamsForPublicKey, rsaPSSParameters).
THEOREM SameName == Spec => []NamesTheSameAlgorithm
<1>1. CallInv => NamesTheSameAlgorithm
  BY DEF CallInv, Made, NamesTheSameAlgorithm
<1> QED
  BY <1>1, CallInvariant, PTL

\* The password that was asked for is read back (addChallenge,
\* ParseChallengePassword).
THEOREM PasswordIsRead == Spec => []PasswordReadBack
<1>1. CallInv => PasswordReadBack
  <2> SUFFICES ASSUME CallInv, pc = "parsed"
               PROVE  password = IF HoldsPassword(template) THEN NoPassword
                                 ELSE challenge
    BY DEF PasswordReadBack, HoldsPassword
  <2>1. CASE challenge = NoPassword
    BY <2>1, NothingToRead DEF CallInv, ArgsOK, Made
  <2>2. CASE challenge # NoPassword
    <3>1. /\ challenge \in Challenges
          /\ csr.attrs = Append(template, Password(challenge))
      BY <2>2 DEF CallInv, Made, Resigned
    <3> QED
      BY <3>1, ReadBack DEF CallInv, ArgsOK, Made
  <2> QED
    BY <2>1, <2>2
<1> QED
  BY <1>1, CallInvariant, PTL

\* What a request signed again is, in terms of the library's choice.
LEMMA SignedAgain ==
  ASSUME CallInv, Resigned
  PROVE  /\ key \in {"RSA"} \cup ECDSAKeys
         /\ alg \in StdAlgorithms(key)
         /\ csr.id = StdIdentifier(key, StdAlgorithm(key, alg))
         /\ csr.sig = Sign(key, HashOf(StdAlgorithm(key, alg)), csr.attrs)
<1> DEFINE attrs == Append(template, Password(challenge))
<1>1. /\ key \in Keys /\ alg \in StdAlgorithms(key) /\ key # "Ed25519"
      /\ csr = [attrs |-> attrs, id |-> StdParams(key, alg).id,
                 sig |-> Sign(key, StdParams(key, alg).hash, attrs)]
  BY DEF CallInv, ArgsOK, Made
<1>2. /\ StdParams(key, alg).id = StdIdentifier(key, StdAlgorithm(key, alg))
      /\ StdParams(key, alg).hash = HashOf(StdAlgorithm(key, alg))
  BY DEF StdParams
<1> QED
  BY <1>1, <1>2, KeysOfLibrary

\* It verifies, with the password in it, unless it is for RSA-PSS or MD5
\* (addChallenge).
THEOREM Verifies == Spec => []VerifiesUnlessPSS
<1>1. CallInv => VerifiesUnlessPSS
  <2> SUFFICES ASSUME CallInv, Resigned,
                      alg \notin PSSAlgorithms \cup {"MD5WithRSA"}
               PROVE  CheckSignature(key, csr)
    BY DEF VerifiesUnlessPSS
  <2> DEFINE a == StdAlgorithm(key, alg)
  <2>1. /\ alg \in StdAlgorithms(key)
        /\ csr.id = StdIdentifier(key, a)
        /\ csr.sig = Sign(key, HashOf(a), csr.attrs)
    BY SignedAgain
  <2>2. key \in {"RSA"} \cup ECDSAKeys
    BY SignedAgain
  <2>3. /\ a \notin PSSAlgorithms \cup {"MD5WithRSA"}
        /\ \E h \in DOMAIN HashedWith : a \in HashedWith[h]
    <3>1. CASE alg = "default"
      BY <2>2, <3>1
      DEF StdAlgorithm, StdDefault, HashedWith, ECDSAKeys, PSSAlgorithms
    <3>2. CASE alg # "default"
      BY <2>1, <2>2, <3>2
      DEF StdAlgorithm, HashedWith, StdAlgorithms, PSSAlgorithms, KeyType,
          ECDSAKeys
    <3> QED
      BY <3>1, <3>2
  <2>4. a \in NamedBy(csr.id) \ {"MD5WithRSA"}
    BY <2>1, <2>3 DEF NamedBy, StdIdentifier
  <2>5. KeyType(key) = "ECDSA" <=> key # "RSA"
    BY <2>2 DEF KeyType, ECDSAKeys
  <2>6. csr.sig = [scheme |-> IF KeyType(key) = "ECDSA" THEN "ECDSA"
                              ELSE "PKCS1v15",
                   hash |-> HashOf(a), over |-> csr.attrs]
    BY <2>1, <2>5 DEF Sign
  <2>7. csr.sig = [scheme |-> CASE a \in PSSAlgorithms -> "PSS"
                                [] KeyType(key) = "ECDSA" -> "ECDSA"
                                [] OTHER -> "PKCS1v15",
                   hash |-> HashOf(a), over |-> csr.attrs]
    BY <2>3, <2>6
  <2> QED
    BY <2>4, <2>7 DEF CheckSignature
<1> QED
  BY <1>1, CallInvariant, PTL

\* For RSA-PSS and MD5 it never does: the identifier names the one, and the
\* signature is PKCS #1 v1.5; the other no verifier accepts (addChallenge).
NeverVerifies ==
    Resigned /\ alg \in PSSAlgorithms \cup {"MD5WithRSA"}
       => ~ CheckSignature(key, csr)

THEOREM PSSNeverVerifies == Spec => []NeverVerifies
<1>1. CallInv => NeverVerifies
  <2> SUFFICES ASSUME CallInv, Resigned,
                      alg \in PSSAlgorithms \cup {"MD5WithRSA"},
                      NEW a \in NamedBy(csr.id) \ {"MD5WithRSA"},
                      csr.sig =
                         [scheme |-> CASE a \in PSSAlgorithms -> "PSS"
                                       [] KeyType(key) = "ECDSA" -> "ECDSA"
                                       [] OTHER -> "PKCS1v15",
                          hash |-> HashOf(a), over |-> csr.attrs]
               PROVE  FALSE
    BY DEF NeverVerifies, CheckSignature
  <2>1. alg # "default" /\ key = "RSA"
    BY SignedAgain
    DEF StdAlgorithms, KeyType, ECDSAKeys, PSSAlgorithms
  <2>2. csr.id.oid = IF alg \in PSSAlgorithms THEN "RSAPSS" ELSE "MD5WithRSA"
    BY <2>1, SignedAgain DEF StdAlgorithm, StdIdentifier
  <2>3. csr.sig.scheme = "PKCS1v15"
    BY <2>1, SignedAgain DEF Sign
  <2>4. a # "RSAPSS"
    BY DEF NamedBy, HashedWith
  <2>5. a \in PSSAlgorithms
    BY <2>2, <2>4 DEF NamedBy, PSSAlgorithms
  <2>6. csr.sig = [scheme |-> "PSS", hash |-> HashOf(a), over |-> csr.attrs]
    <3>1. (CASE a \in PSSAlgorithms -> "PSS"
             [] KeyType(key) = "ECDSA" -> "ECDSA"
             [] OTHER -> "PKCS1v15") = "PSS"
      <4>1. KeyType(key) # "ECDSA"
        BY <2>1 DEF KeyType
      <4> QED
        BY <2>5, <4>1
    <3> QED
      BY <3>1
  <2> QED
    BY <2>3, <2>6
<1> QED
  BY <1>1, CallInvariant, PTL

=============================================================================
