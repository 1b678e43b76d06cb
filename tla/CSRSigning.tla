------------------------------ MODULE CSRSigning ------------------------------
(***************************************************************************)
(* crypto/x509util: a certificate signing request with a challenge         *)
(* password.  The standard library makes the request without it;           *)
(* addChallenge takes that apart, appends the password to its attributes   *)
(* and signs the result again, with parameters that it has to choose as    *)
(* the library did.                                                        *)
(*                                                                         *)
(* A request is [attrs, id, sig]: its attributes, the identifier of the    *)
(* signature algorithm that it names, and how, with which hash and over    *)
(* what it was really signed.  An object identifier or a hash is its name. *)
(* The subject and the public key are carried over and decide nothing.     *)
(***************************************************************************)
EXTENDS Naturals, Sequences, SequencesExt

CONSTANTS
    Keys,         \* kinds of private keys: "RSA", "Ed25519", a curve for ECDSA
    Algorithms,   \* values of SignatureAlgorithm; "default" is zero
    Challenges,   \* passwords that asn1 can encode
    Templates     \* attributes of the template, in their order

\* The empty password, and one that asn1 cannot encode.
NoPassword == "no password"
NotUTF8    == "not UTF-8"

ASSUME KeysAssumption == "ECDSA" \notin Keys
ASSUME ChallengesAssumption == Challenges \cap {NoPassword, NotUTF8} = {}

\* An attribute is [id, string, text]: what it is, whether its value is a
\* string, and which.
Password(text) == [id |-> "challengePassword", string |-> TRUE, text |-> text]

\* Those of a template are sets of sequences, even one with the identifier of a
\* password.
TemplateAttributes ==
    [id : {"challengePassword", "other"}, string : {FALSE}, text : {NoPassword}]

ASSUME TemplatesAssumption == Templates \subseteq Seq(TemplateAttributes)

VARIABLES
    key, alg, challenge, template,   \* the arguments of the caller
    pc,        \* how far the call is
    std,       \* the request of the standard library
    csr,       \* the request that the caller gets
    password   \* the result of ParseChallengePassword

args == <<key, alg, challenge, template>>
vars == <<args, pc, std, csr, password>>

-----------------------------------------------------------------------------
\* The choice of the signing parameters.

Row(algo, oid, pub, hash) ==
    [algo |-> algo, oid |-> oid, pub |-> pub, hash |-> hash]

signatureAlgorithmDetails == <<
    Row("MD2WithRSA",       "MD2WithRSA",      "RSA",   "none"),
    Row("MD5WithRSA",       "MD5WithRSA",      "RSA",   "MD5"),
    Row("SHA1WithRSA",      "SHA1WithRSA",     "RSA",   "SHA1"),
    Row("SHA1WithRSA",      "ISOSHA1WithRSA",  "RSA",   "SHA1"),
    Row("SHA256WithRSA",    "SHA256WithRSA",   "RSA",   "SHA256"),
    Row("SHA384WithRSA",    "SHA384WithRSA",   "RSA",   "SHA384"),
    Row("SHA512WithRSA",    "SHA512WithRSA",   "RSA",   "SHA512"),
    Row("SHA256WithRSAPSS", "RSAPSS",          "RSA",   "SHA256"),
    Row("SHA384WithRSAPSS", "RSAPSS",          "RSA",   "SHA384"),
    Row("SHA512WithRSAPSS", "RSAPSS",          "RSA",   "SHA512"),
    Row("DSAWithSHA1",      "DSAWithSHA1",     "DSA",   "SHA1"),
    Row("DSAWithSHA256",    "DSAWithSHA256",   "DSA",   "SHA256"),
    Row("ECDSAWithSHA1",    "ECDSAWithSHA1",   "ECDSA", "SHA1"),
    Row("ECDSAWithSHA256",  "ECDSAWithSHA256", "ECDSA", "SHA256"),
    Row("ECDSAWithSHA384",  "ECDSAWithSHA384", "ECDSA", "SHA384"),
    Row("ECDSAWithSHA512",  "ECDSAWithSHA512", "ECDSA", "SHA512") >>

\* The first row of an algorithm counts.
RowOf(algo) == SelectInSeq(signatureAlgorithmDetails,
                           LAMBDA row : row.algo = algo)

PSSAlgorithms == {"SHA256WithRSAPSS", "SHA384WithRSAPSS", "SHA512WithRSAPSS"}

Absent == <<>>
NULL   == <<"NULL">>

KeyType(pub) ==
    IF pub \in {"P224", "P256", "P384", "P521"} THEN "ECDSA" ELSE pub

\* Fault variant: the length of a SHA-1 salt.
rsaPSSParametersShort(hash) == <<hash, hash, 20>>

\* Hash, hash of the mask generation, length of the salt.
rsaPSSParameters(hash) ==
    <<hash, hash, CASE hash = "SHA256" -> 32
                    [] hash = "SHA384" -> 48
                    [] hash = "SHA512" -> 64>>

Params(hash, oid, parameters) ==
    [hash |-> hash, id |-> [oid |-> oid, parameters |-> parameters]]
NoParams == Params("none", "none", Absent)

\* Fault variant: P-224 is forgotten.
DefaultParamsNoP224(pub) ==
    CASE pub = "RSA" -> Params("SHA256", "SHA256WithRSA", NULL)
      [] pub = "P256" -> Params("SHA256", "ECDSAWithSHA256", Absent)
      [] pub = "P384" -> Params("SHA384", "ECDSAWithSHA384", Absent)
      [] pub = "P521" -> Params("SHA512", "ECDSAWithSHA512", Absent)
      [] OTHER -> NoParams

\* For a key that is neither RSA nor ECDSA on a known curve there is an error.
DefaultParams(pub) ==
    CASE pub = "RSA" -> Params("SHA256", "SHA256WithRSA", NULL)
      [] pub \in {"P224", "P256"} -> Params("SHA256", "ECDSAWithSHA256", Absent)
      [] pub = "P384" -> Params("SHA384", "ECDSAWithSHA384", Absent)
      [] pub = "P521" -> Params("SHA512", "ECDSAWithSHA512", Absent)
      [] OTHER -> NoParams

\* Of the default algorithm the parameters stay, unless it becomes RSA-PSS.
RequestedParams(pub, algo) ==
    LET row == signatureAlgorithmDetails[RowOf(algo)] IN
    IF RowOf(algo) = 0 \/ row.pub # KeyType(pub) \/ row.hash = "none"
    THEN NoParams
    ELSE Params(row.hash, row.oid,
                IF algo \in PSSAlgorithms THEN rsaPSSParameters(row.hash)
                ELSE DefaultParams(pub).id.parameters)

signingParamsForPublicKey(pub, algo) ==
    IF algo = "default" \/ DefaultParams(pub) = NoParams
    THEN DefaultParams(pub)
    ELSE RequestedParams(pub, algo)

-----------------------------------------------------------------------------
\* The standard library, crypto/x509 and the keys of crypto/rsa and
\* crypto/ecdsa: which algorithm a request is made with, what its identifier
\* looks like, and when CheckSignature accepts it.

StdDefault ==
    [RSA |-> "SHA256WithRSA", P224 |-> "ECDSAWithSHA256",
     P256 |-> "ECDSAWithSHA256", P384 |-> "ECDSAWithSHA384",
     P521 |-> "ECDSAWithSHA512", Ed25519 |-> "PureEd25519"]

\* The algorithms by hash.  There is none for MD2.
HashedWith ==
    [MD5 |-> {"MD5WithRSA"},
     SHA1 |-> {"SHA1WithRSA", "DSAWithSHA1", "ECDSAWithSHA1"},
     SHA256 |-> {"SHA256WithRSA", "SHA256WithRSAPSS", "DSAWithSHA256",
                 "ECDSAWithSHA256"},
     SHA384 |-> {"SHA384WithRSA", "SHA384WithRSAPSS", "ECDSAWithSHA384"},
     SHA512 |-> {"SHA512WithRSA", "SHA512WithRSAPSS", "ECDSAWithSHA512"},
     none |-> {"PureEd25519"}]
StdPSS == [SHA256WithRSAPSS |-> <<"SHA256", "SHA256", 32>>,
           SHA384WithRSAPSS |-> <<"SHA384", "SHA384", 48>>,
           SHA512WithRSAPSS |-> <<"SHA512", "SHA512", 64>>]
HashOf(algo) == CHOOSE h \in DOMAIN HashedWith : algo \in HashedWith[h]

StdAlgorithms(pub) ==
    CASE KeyType(pub) = "RSA" ->
            {"default", "MD5WithRSA", "SHA1WithRSA", "SHA256WithRSA",
             "SHA384WithRSA", "SHA512WithRSA"} \cup PSSAlgorithms
      [] KeyType(pub) = "ECDSA" ->
            {"default", "ECDSAWithSHA1", "ECDSAWithSHA256",
             "ECDSAWithSHA384", "ECDSAWithSHA512"}
      [] KeyType(pub) = "Ed25519" -> {"default", "PureEd25519"}
      [] OTHER -> {}

StdAlgorithm(pub, algo) == IF algo = "default" THEN StdDefault[pub] ELSE algo

StdIdentifier(pub, algo) ==
    IF algo \in PSSAlgorithms
    THEN [oid |-> "RSAPSS", parameters |-> StdPSS[algo]]
    ELSE [oid |-> algo,
          parameters |-> IF KeyType(pub) = "RSA" THEN NULL ELSE Absent]

\* key.Sign with a plain hash as its options.
Sign(pub, hash, over) ==
    [scheme |-> IF pub = "RSA" THEN "PKCS1v15" ELSE "ECDSA",
     hash |-> hash, over |-> over]

\* The algorithms that an identifier may name.
NamedBy(id) ==
    {a \in UNION {HashedWith[h] : h \in DOMAIN HashedWith} :
        IF a \in PSSAlgorithms
        THEN id = [oid |-> "RSAPSS", parameters |-> StdPSS[a]]
        ELSE id.oid = a \/ (a = "SHA1WithRSA" /\ id.oid = "ISOSHA1WithRSA")}

CheckSignature(pub, request) ==
    \E a \in NamedBy(request.id) \ {"MD5WithRSA"} :
       request.sig = [scheme |-> CASE a \in PSSAlgorithms -> "PSS"
                                   [] KeyType(pub) = "ECDSA" -> "ECDSA"
                                   [] OTHER -> "PKCS1v15",
                      hash |-> HashOf(a), over |-> request.attrs]

-----------------------------------------------------------------------------

AttributeLists ==
    {<<>>} \cup Templates
           \cup {Append(t, Password(c)) : t \in Templates, c \in Challenges}
Identifiers ==
    [oid : {"none", "RSAPSS"}
              \cup UNION {HashedWith[h] : h \in DOMAIN HashedWith},
     parameters : {Absent, NULL} \cup {StdPSS[a] : a \in PSSAlgorithms}]
Requests ==
    [attrs : AttributeLists,
     id : Identifiers,
     sig : [scheme : {"none", "PKCS1v15", "PSS", "ECDSA", "Ed25519"},
            hash : DOMAIN HashedWith, over : AttributeLists]]
NoRequest ==
    [attrs |-> <<>>, id |-> NoParams.id,
     sig |-> [scheme |-> "none", hash |-> "none", over |-> <<>>]]

TypeOK ==
    /\ pc \in {"std", "challenge", "parse", "parsed", "failed", "refused",
              "unsigned"}
    /\ std \in Requests
    /\ csr \in Requests
    /\ password \in Challenges \cup {NoPassword}

Init ==
    /\ key \in Keys
    /\ alg \in Algorithms
    /\ challenge \in Challenges \cup {NoPassword, NotUTF8}
    /\ template \in Templates
    /\ pc = "std"
    /\ std = NoRequest
    /\ csr = NoRequest
    /\ password = NoPassword

\* x509.CreateCertificateRequest refuses an algorithm that does not fit the key,
\* and any key may fail to sign: it is a crypto.Signer, perhaps in a token.
StdFails ==
    /\ pc = "std"
    /\ pc' = "failed"
    /\ UNCHANGED <<args, std, csr, password>>

\* What scheme it signs a request for RSA-PSS with differs between the releases
\* of Go.  Without a challenge its request is what the caller gets.
StdReturns ==
    /\ pc = "std"
    /\ alg \in StdAlgorithms(key)
    /\ \E scheme \in {"PKCS1v15", "PSS", "ECDSA", "Ed25519"} :
          /\ scheme = "PSS" => alg \in PSSAlgorithms
          /\ scheme # "PSS" =>
                scheme = IF KeyType(key) = "RSA" THEN "PKCS1v15"
                         ELSE KeyType(key)
          /\ std' = [attrs |-> template,
                     id |-> StdIdentifier(key, StdAlgorithm(key, alg)),
                     sig |-> [scheme |-> scheme, over |-> template,
                              hash |-> HashOf(StdAlgorithm(key, alg))]]
    /\ IF challenge = NoPassword
       THEN pc' = "parse" /\ csr' = std'
       ELSE pc' = "challenge" /\ UNCHANGED csr
    /\ UNCHANGED <<args, password>>

\* There are no parameters for the key, or asn1 cannot encode the password.
ChallengeFails ==
    /\ pc = "challenge"
    /\ signingParamsForPublicKey(key, alg) = NoParams \/ challenge = NotUTF8
    /\ pc' = "refused"
    /\ UNCHANGED <<args, std, csr, password>>

\* The key, which has signed the library's request, fails to sign again.
SignFails ==
    /\ pc = "challenge"
    /\ signingParamsForPublicKey(key, alg) # NoParams /\ challenge # NotUTF8
    /\ pc' = "unsigned"
    /\ UNCHANGED <<args, std, csr, password>>

\* Fault variant: what is hashed is the request as the library made it.
addChallengeOld ==
    LET p == signingParamsForPublicKey(key, alg)
        attrs == Append(std.attrs, Password(challenge)) IN
    /\ pc = "challenge"
    /\ p # NoParams /\ challenge # NotUTF8
    /\ csr' = [attrs |-> attrs, id |-> p.id,
               sig |-> Sign(key, p.hash, std.attrs)]
    /\ pc' = "parse"
    /\ UNCHANGED <<args, std, password>>

addChallenge ==
    LET p == signingParamsForPublicKey(key, alg)
        attrs == Append(std.attrs, Password(challenge)) IN
    /\ pc = "challenge"
    /\ p # NoParams /\ challenge # NotUTF8
    /\ csr' = [attrs |-> attrs, id |-> p.id, sig |-> Sign(key, p.hash, attrs)]
    /\ pc' = "parse"
    /\ UNCHANGED <<args, std, password>>

\* Fault variant: only the first attribute is looked at.
ParseFirst(attrs) ==
    IF attrs = <<>> \/ Head(attrs).id # "challengePassword" THEN NoPassword
    ELSE Head(attrs).text

\* All attributes are looked at; the last password counts.  One whose value is
\* not a string is an error, which comes with an empty password.
ParsedPassword(attrs) ==
    LET passwords == {i \in DOMAIN attrs : attrs[i].id = "challengePassword"} IN
    IF passwords = {} \/ \E i \in passwords : ~ attrs[i].string
    THEN NoPassword
    ELSE attrs[Max(passwords)].text

ParseChallengePassword ==
    /\ pc = "parse"
    /\ password' = ParsedPassword(csr.attrs)
    /\ pc' = "parsed"
    /\ UNCHANGED <<args, std, csr>>

Next == \/ StdFails \/ StdReturns
        \/ ChallengeFails \/ SignFails \/ addChallenge
        \/ ParseChallengePassword

Spec == Init /\ [][Next]_vars

-----------------------------------------------------------------------------

Resigned == pc \in {"parse", "parsed"} /\ challenge # NoPassword

\* The request signed again names the algorithm that the library chose for it,
\* down to the parameters (signingParamsForPublicKey, rsaPSSParameters).
NamesTheSameAlgorithm == Resigned => csr.id = std.id

\* It verifies, with the password in it, whenever it is not for RSA-PSS and not
\* for MD5, which no verifier accepts (addChallenge).
VerifiesUnlessPSS ==
    Resigned /\ alg \notin PSSAlgorithms \cup {"MD5WithRSA"}
       => CheckSignature(key, csr)

\* The password that was asked for is the one that is read, and none where none
\* was asked for, unless the template has a password of another type, with
\* which every reading fails (ParseChallengePassword).
PasswordReadBack ==
    pc = "parsed" =>
       password = IF \E a \in Range(template) : a.id = "challengePassword"
                  THEN NoPassword ELSE challenge

\* Whatever the library has signed is given its password, unless the key is for
\* Ed25519, the password cannot be encoded, or the key fails to sign again: no
\* other algorithm is refused (signingParamsForPublicKey, addChallenge).
ChallengeRefusals ==
    pc = "refused" => key = "Ed25519" \/ challenge = NotUTF8

\* What the test of the package checks of a request with a password, of every
\* such request.  It does not hold for RSA-PSS.
EveryRequestVerifies ==
    Resigned /\ alg # "MD5WithRSA" => CheckSignature(key, csr)

=============================================================================
