----------------------------- MODULE FeesProofs -----------------------------
(***************************************************************************)
(* Proofs about Fees for every set of users, wallets, params, prices and    *)
(* transactions, and every Prec and Micro.                                  *)
(***************************************************************************)
EXTENDS Fees, WellFoundedInduction, TLAPS

-----------------------------------------------------------------------------
(* Arithmetic of shares.                                                    *)

\* Truncating a decimal yields an integer.
LEMMA TruncateIntType ==
    ASSUME NEW d \in Int
    PROVE  TruncateInt(d) \in Int
BY PrecAssumption DEF TruncateInt

\* Truncation loses less than one unit.
LEMMA TruncateIntBounds ==
    ASSUME NEW d \in Nat
    PROVE  /\ TruncateInt(d) \in Nat
           /\ Prec * TruncateInt(d) <= d
           /\ d < Prec * TruncateInt(d) + Prec
BY PrecAssumption, SMTT(30) DEF TruncateInt

\* The sum of remapped shares never exceeds the amount, whatever the split: the code's
\* correction of the treasury share makes up for any excess.
LEMMA SharesAtMostAmount ==
    ASSUME NEW split \in Split, NEW amount \in Int, NEW to
    PROVE  LET s == Remap(Shares(split, amount), to)
           IN  /\ s.treasury \in Int /\ s.retail \in Int /\ s.dev \in Int /\ s.creator \in Int
               /\ ShareSum(s) <= amount
               /\ to.retail = NoAddr => s.retail = 0
               /\ to.dev = NoAddr => s.dev = 0
               /\ to.creator = NoAddr => s.creator = 0
<1> DEFINE t == TruncateInt(split.treasury * amount)
           r == TruncateInt(split.retail * amount)
           d == TruncateInt(split.dev * amount)
           c == TruncateInt(split.creator * amount)
<1>1. /\ split.treasury * amount \in Int /\ split.retail * amount \in Int
      /\ split.dev * amount \in Int /\ split.creator * amount \in Int
  BY DEF Split
<1>2. t \in Int /\ r \in Int /\ d \in Int /\ c \in Int
  BY <1>1, TruncateIntType
<1> HIDE DEF t, r, d, c
<1>3. Shares(split, amount)
        = [treasury |-> IF t + r + d + c > amount THEN amount - r - d - c ELSE t,
           retail |-> r, dev |-> d, creator |-> c]
  BY DEF Shares, t, r, d, c
<1>4. QED
  BY <1>2, <1>3 DEF Remap, ShareSum

\* With a split that adds up to one the sum falls short of the amount by three at most.
LEMMA SharesLoseAtMostThree ==
    ASSUME NEW split \in Split, WholeSplit(split), NEW amount \in Nat, NEW to
    PROVE  ShareSum(Remap(Shares(split, amount), to)) >= amount - 3
<1> DEFINE pt == split.treasury * amount
           pr == split.retail * amount
           pd == split.dev * amount
           pc == split.creator * amount
           t == TruncateInt(pt)
           r == TruncateInt(pr)
           d == TruncateInt(pd)
           c == TruncateInt(pc)
<1>0. /\ split.treasury \in Nat /\ split.retail \in Nat /\ split.dev \in Nat
      /\ split.creator \in Nat
      /\ split.treasury + split.retail + split.dev + split.creator = Prec
  BY DEF Split, WholeSplit, ShareSum
<1>1. pt \in Nat /\ pr \in Nat /\ pd \in Nat /\ pc \in Nat
  BY <1>0, SMTT(30)
<1>2. pt + pr + pd + pc = Prec * amount
  <2>1. ASSUME NEW x \in Nat, NEW y \in Nat, NEW z \in Nat, NEW w \in Nat
        PROVE  x * amount + y * amount + z * amount + w * amount = (x + y + z + w) * amount
    BY SMTT(30)
  <2>2. QED
    BY <1>0, <2>1
<1>3. /\ t \in Nat /\ pt < Prec * t + Prec
      /\ r \in Nat /\ pr < Prec * r + Prec
      /\ d \in Nat /\ pd < Prec * d + Prec
      /\ c \in Nat /\ pc < Prec * c + Prec
  BY <1>1, TruncateIntBounds
<1>4. Shares(split, amount)
        = [treasury |-> IF t + r + d + c > amount THEN amount - r - d - c ELSE t,
           retail |-> r, dev |-> d, creator |-> c]
  BY DEF Shares
<1> HIDE DEF t, r, d, c, pt, pr, pd, pc
<1>5. Prec * amount < Prec * (t + r + d + c + 4)
  <2>1. Prec * (t + r + d + c + 4)
          = (Prec * t + Prec) + (Prec * r + Prec) + (Prec * d + Prec) + (Prec * c + Prec)
    BY <1>3, PrecAssumption, SMTT(30)
  <2>2. QED
    BY <2>1, <1>1, <1>2, <1>3, PrecAssumption, SMTT(30)
<1>6. amount < t + r + d + c + 4
  <2>1. ASSUME NEW x \in Nat, NEW y \in Nat, Prec * x < Prec * y
        PROVE  x < y
    BY <2>1, PrecAssumption, SMTT(30)
  <2>2. t + r + d + c + 4 \in Nat
    BY <1>3
  <2>3. QED
    BY <1>5, <2>1, <2>2
<1>7. QED
  BY <1>3, <1>4, <1>6 DEF Remap, ShareSum

-----------------------------------------------------------------------------
(* Transfers.                                                               *)

ResultType == [ok : BOOLEAN, bal : [Account -> Nat]]

\* The named accounts are accounts and no user is one of them.
LEMMA NamedAccounts ==
    /\ "fees" \in Account /\ "treasury" \in Account /\ "fee_collector" \in Account
    /\ \A u \in User : u \in Account /\ u # "fees" /\ u # "fee_collector"
    /\ \A w \in Wallet : w \in Account /\ w # "fees"
    /\ NoAddr \notin Account
BY FeesAssumption DEF Account, Modules

\* A transfer keeps every balance a natural number, and takes from no account but the
\* one that pays.
LEMMA SendLemma ==
    ASSUME NEW r \in ResultType, NEW from \in Account, NEW to \in Account,
           NEW amount \in Int
    PROVE  LET s == Send(r, from, to, amount)
           IN  /\ s \in ResultType
               /\ s.ok => r.ok
               /\ \A a \in Account : a # from => s.bal[a] >= r.bal[a]
               /\ s.ok /\ to # from =>
                    /\ amount >= 0
                    /\ s.bal[from] = r.bal[from] - amount
                    /\ s.bal[to] = r.bal[to] + amount
                    /\ \A a \in Account : a # from /\ a # to => s.bal[a] = r.bal[a]
<1>1. r.ok \in BOOLEAN /\ r.bal \in [Account -> Nat]
  BY DEF ResultType
<1>2. CASE r.ok /\ amount >= 0 /\ amount <= r.bal[from]
  <2> DEFINE b == [a \in Account |-> r.bal[a] - (IF a = from THEN amount ELSE 0)
                                              + (IF a = to THEN amount ELSE 0)]
  <2>1. Send(r, from, to, amount) = [ok |-> TRUE, bal |-> b]
    BY <1>2 DEF Send
  <2>2. b \in [Account -> Nat]
    BY <1>1, <1>2
  <2>3. \A a \in Account : a # from => b[a] >= r.bal[a]
    BY <1>1, <1>2
  <2>4. to # from => /\ b[from] = r.bal[from] - amount
                     /\ b[to] = r.bal[to] + amount
                     /\ \A a \in Account : a # from /\ a # to => b[a] = r.bal[a]
    BY <1>1, <1>2
  <2> HIDE DEF b
  <2>5. QED
    BY <1>2, <2>1, <2>2, <2>3, <2>4 DEF ResultType
<1>3. CASE ~(r.ok /\ amount >= 0 /\ amount <= r.bal[from])
  <2>1. Send(r, from, to, amount) = [ok |-> FALSE, bal |-> r.bal]
    BY <1>3 DEF Send
  <2>2. QED
    BY <1>1, <2>1 DEF ResultType
<1>4. QED
  BY <1>2, <1>3

\* Result s pays amount x out of from, starting from r: nobody else loses, and when from
\* is the fees account it loses exactly x.
Pays(r, s, from, x) ==
    /\ s \in ResultType
    /\ s.ok => r.ok
    /\ \A a \in Account : a # from => s.bal[a] >= r.bal[a]
    /\ s.ok /\ from = "fees" => s.bal["fees"] = r.bal["fees"] - x

\* Such is a transfer to another account.
LEMMA SendPays ==
    ASSUME NEW r \in ResultType, NEW from \in Account, NEW to \in Account, to # "fees",
           NEW amount \in Int
    PROVE  Pays(r, Send(r, from, to, amount), from, amount)
<1> DEFINE s == Send(r, from, to, amount)
<1>1. /\ s \in ResultType
      /\ s.ok => r.ok
      /\ \A a \in Account : a # from => s.bal[a] >= r.bal[a]
      /\ s.ok /\ to # from => s.bal[from] = r.bal[from] - amount
  BY SendLemma
<1> HIDE DEF s
<1>2. Pays(r, s, from, amount)
  BY <1>1 DEF Pays
<1>3. QED
  BY <1>2 DEF s

\* And such is paying a share, when an absent recipient has none.
LEMMA PayShareLemma ==
    ASSUME NEW r \in ResultType, NEW from \in Account, NEW to \in Account \cup {NoAddr},
           NEW amount \in Int, to = NoAddr => amount = 0
    PROVE  Pays(r, PayShare(r, from, to, amount), from, amount)
<1>1. r.ok \in BOOLEAN /\ r.bal \in [Account -> Nat]
  BY DEF ResultType
<1>2. CASE amount = 0 \/ to = NoAddr
  <2>1. PayShare(r, from, to, amount) = r
    BY <1>2 DEF PayShare
  <2>2. amount = 0
    BY <1>2
  <2>3. "fees" \in Account
    BY NamedAccounts
  <2>4. \A a \in Account : r.bal[a] \in Nat
    BY <1>1
  <2>5. Pays(r, r, from, amount)
    BY <2>2, <2>3, <2>4 DEF Pays
  <2>6. QED
    BY <2>1, <2>5
<1>3. CASE ~(amount = 0 \/ to = NoAddr) /\ from = "fees" /\ to \in Blocked
  <2>1. PayShare(r, from, to, amount) = [ok |-> FALSE, bal |-> r.bal]
    BY <1>3 DEF PayShare
  <2>2. QED
    BY <1>1, <2>1 DEF ResultType, Pays
<1>4. CASE ~(amount = 0 \/ to = NoAddr) /\ ~(from = "fees" /\ to \in Blocked)
  <2> DEFINE s == Send(r, from, to, amount)
  <2>1. PayShare(r, from, to, amount) = s
    BY <1>4 DEF PayShare
  <2>2. to \in Account
    BY <1>4
  <2>3. from = "fees" => to # from
    BY <1>4 DEF Blocked
  <2>4. /\ s \in ResultType
        /\ s.ok => r.ok
        /\ \A a \in Account : a # from => s.bal[a] >= r.bal[a]
        /\ s.ok /\ to # from => s.bal[from] = r.bal[from] - amount
    BY <2>2, SendLemma
  <2> HIDE DEF s
  <2>5. Pays(r, s, from, amount)
    BY <2>3, <2>4 DEF Pays
  <2>6. QED
    BY <2>1, <2>5
<1>5. QED
  BY <1>2, <1>3, <1>4

-----------------------------------------------------------------------------
(* Distribution.                                                            *)

\* Recipients are accounts or absent.
LEMMA RecipientsType ==
    ASSUME NEW p \in ParamType, NEW md \in MetadataType
    PROVE  LET to == Recipients(p, md)
           IN  /\ to.retail \in Account \cup {NoAddr}
               /\ to.dev \in Account \cup {NoAddr}
               /\ to.creator \in Account \cup {NoAddr}
BY DEF Recipients, FirstAddr, ParamType, MetadataType

\* Distributing a fee takes from nobody but the account that holds it; from the fees
\* account it takes no more than the fee, and no less than the fee but three units when
\* the split adds up to one.
LEMMA DistributeLemma ==
    ASSUME NEW r \in ResultType, NEW p \in ParamType, NEW from \in Account,
           NEW row \in Rows, NEW amount \in Int, NEW md \in MetadataType
    PROVE  LET s == Distribute(r, p, from, row, amount, md)
           IN  /\ s \in ResultType
               /\ s.ok => r.ok
               /\ \A a \in Account : a # from => s.bal[a] >= r.bal[a]
               /\ s.ok /\ from = "fees" =>
                    /\ s.bal["fees"] >= r.bal["fees"] - amount
                    /\ amount >= 0 /\ WholeSplit(p.table[row])
                         => s.bal["fees"] <= r.bal["fees"] - amount + 3
<1> DEFINE to == Recipients(p, md)
           sh == Remap(Shares(p.table[row], amount), to)
           st == sh.treasury
           sr == sh.retail
           sd == sh.dev
           sc == sh.creator
           ar == to.retail
           ad == to.dev
           ac == to.creator
           r1 == Send(r, from, "treasury", st)
           r2 == PayShare(r1, from, ar, sr)
           r3 == PayShare(r2, from, ad, sd)
           r4 == PayShare(r3, from, ac, sc)
<1>1. /\ to.retail \in Account \cup {NoAddr}
      /\ to.dev \in Account \cup {NoAddr}
      /\ to.creator \in Account \cup {NoAddr}
  BY RecipientsType
<1>2. p.table[row] \in Split
  BY DEF ParamType
<1>3. /\ sh.treasury \in Int /\ sh.retail \in Int /\ sh.dev \in Int /\ sh.creator \in Int
      /\ ShareSum(sh) <= amount
      /\ to.retail = NoAddr => sh.retail = 0
      /\ to.dev = NoAddr => sh.dev = 0
      /\ to.creator = NoAddr => sh.creator = 0
  BY <1>2, SharesAtMostAmount
<1>4. amount >= 0 /\ WholeSplit(p.table[row]) => ShareSum(sh) >= amount - 3
  BY <1>2, SharesLoseAtMostThree
<1>5. Distribute(r, p, from, row, amount, md) = r4
  BY DEF Distribute
<1>a. /\ st \in Int /\ sr \in Int /\ sd \in Int /\ sc \in Int
      /\ ar = NoAddr => sr = 0
      /\ ad = NoAddr => sd = 0
      /\ ac = NoAddr => sc = 0
      /\ ar \in Account \cup {NoAddr} /\ ad \in Account \cup {NoAddr}
      /\ ac \in Account \cup {NoAddr}
  BY <1>1, <1>3
<1>b. ShareSum(sh) = st + sr + sd + sc
  BY DEF ShareSum
<1> HIDE DEF st, sr, sd, sc, ar, ad, ac, sh, to
<1>6. Pays(r, r1, from, st) /\ r1 \in ResultType
  <2>1. "treasury" \in Account /\ "treasury" # "fees"
    BY NamedAccounts
  <2>2. Pays(r, r1, from, st)
    BY <1>a, <2>1, SendPays
  <2>3. QED
    BY <2>2 DEF Pays
<1> HIDE DEF r1
<1>7. Pays(r1, r2, from, sr) /\ r2 \in ResultType
  <2>1. Pays(r1, r2, from, sr)
    BY <1>a, <1>6, PayShareLemma
  <2>2. QED
    BY <2>1 DEF Pays
<1> HIDE DEF r2
<1>8. Pays(r2, r3, from, sd) /\ r3 \in ResultType
  <2>1. Pays(r2, r3, from, sd)
    BY <1>a, <1>7, PayShareLemma
  <2>2. QED
    BY <2>1 DEF Pays
<1> HIDE DEF r3
<1>9. Pays(r3, r4, from, sc) /\ r4 \in ResultType
  <2>1. Pays(r3, r4, from, sc)
    BY <1>a, <1>8, PayShareLemma
  <2>2. QED
    BY <2>1 DEF Pays
<1> HIDE DEF r4
<1>10. ASSUME NEW a \in Account, a # from
       PROVE  r4.bal[a] >= r.bal[a]
  <2>1. /\ r.bal[a] \in Nat /\ r1.bal[a] \in Nat /\ r2.bal[a] \in Nat
        /\ r3.bal[a] \in Nat /\ r4.bal[a] \in Nat
    BY <1>6, <1>7, <1>8, <1>9 DEF ResultType
  <2>2. /\ r1.bal[a] >= r.bal[a] /\ r2.bal[a] >= r1.bal[a]
        /\ r3.bal[a] >= r2.bal[a] /\ r4.bal[a] >= r3.bal[a]
    BY <1>6, <1>7, <1>8, <1>9, <1>10 DEF Pays
  <2>3. QED
    BY <2>1, <2>2
<1>11. ASSUME r4.ok, from = "fees"
       PROVE  r4.bal["fees"] = r.bal["fees"] - ShareSum(sh) /\ r.bal["fees"] \in Nat
                /\ ShareSum(sh) \in Int
  <2>1. r4.ok /\ r3.ok /\ r2.ok /\ r1.ok
    BY <1>7, <1>8, <1>9, <1>11 DEF Pays
  <2>2. /\ r1.bal["fees"] = r.bal["fees"] - st
        /\ r2.bal["fees"] = r1.bal["fees"] - sr
        /\ r3.bal["fees"] = r2.bal["fees"] - sd
        /\ r4.bal["fees"] = r3.bal["fees"] - sc
    BY <1>6, <1>7, <1>8, <1>9, <1>11, <2>1 DEF Pays
  <2>3. /\ r.bal["fees"] \in Nat /\ r1.bal["fees"] \in Nat /\ r2.bal["fees"] \in Nat
        /\ r3.bal["fees"] \in Nat /\ r4.bal["fees"] \in Nat
    BY <1>6, <1>7, <1>8, <1>9, NamedAccounts DEF ResultType
  <2>4. QED
    BY <2>2, <2>3, <1>a, <1>b
<1>12. r4.ok => r.ok
  BY <1>6, <1>7, <1>8, <1>9 DEF Pays
<1>13. ASSUME r4.ok, from = "fees"
       PROVE  /\ r4.bal["fees"] >= r.bal["fees"] - amount
              /\ amount >= 0 /\ WholeSplit(p.table[row])
                   => r4.bal["fees"] <= r.bal["fees"] - amount + 3
  BY <1>3, <1>4, <1>11, <1>13
<1>14. QED
  BY <1>5, <1>9, <1>10, <1>12, <1>13

-----------------------------------------------------------------------------
(* The accounts of a fee.                                                   *)

\* Result s, when it is a success, has moved x from one account to another, or nowhere
\* when the recipient is absent.
Moves(r, s, from, to, x) ==
    s.ok => \A a \in Account : s.bal[a] = r.bal[a] - (IF a = from THEN x ELSE 0)
                                                   + (IF a = to THEN x ELSE 0)

\* A transfer does.
LEMMA SendMoves ==
    ASSUME NEW r \in ResultType, NEW from \in Account, NEW to \in Account, NEW x \in Int
    PROVE  Moves(r, Send(r, from, to, x), from, to, x)
BY DEF Send, Moves

\* So does the payment of a share; out of the fees account a blocked address gets none.
LEMMA PayShareMoves ==
    ASSUME NEW r \in ResultType, NEW from \in Account, NEW to \in Account \cup {NoAddr},
           NEW x \in Int, to = NoAddr => x = 0
    PROVE  LET s == PayShare(r, from, to, x)
           IN  /\ Moves(r, s, from, to, x)
               /\ s.ok /\ from = "fees" /\ to \in Blocked => x = 0
<1>1. \A a \in Account : r.bal[a] \in Nat
  BY DEF ResultType
<1>2. CASE x = 0 \/ to = NoAddr
  <2>1. x = 0 /\ PayShare(r, from, to, x) = r
    BY <1>2 DEF PayShare
  <2>2. Moves(r, r, from, to, x)
    BY <1>1, <2>1 DEF Moves
  <2>3. QED
    BY <2>1, <2>2
<1>3. CASE ~(x = 0 \/ to = NoAddr) /\ from = "fees" /\ to \in Blocked
  <2>1. PayShare(r, from, to, x) = [ok |-> FALSE, bal |-> r.bal]
    BY <1>3 DEF PayShare
  <2>2. QED
    BY <2>1 DEF Moves
<1>4. CASE ~(x = 0 \/ to = NoAddr) /\ ~(from = "fees" /\ to \in Blocked)
  <2>1. PayShare(r, from, to, x) = Send(r, from, to, x) /\ to \in Account
    BY <1>4 DEF PayShare
  <2>2. QED
    BY <1>4, <2>1, SendMoves
<1>5. QED
  BY <1>2, <1>3, <1>4

\* A recipient that resolves keeps its truncated share.
LEMMA RemapKeeps ==
    ASSUME NEW split \in Split, NEW amount \in Int, NEW to
    PROVE  LET s == Remap(Shares(split, amount), to)
           IN  /\ to.retail # NoAddr => s.retail = TruncateInt(split.retail * amount)
               /\ to.dev # NoAddr => s.dev = TruncateInt(split.dev * amount)
               /\ to.creator # NoAddr => s.creator = TruncateInt(split.creator * amount)
<1> DEFINE x == TruncateInt(split.retail * amount)
           y == TruncateInt(split.dev * amount)
           z == TruncateInt(split.creator * amount)
<1>1. x \in Int /\ y \in Int /\ z \in Int
  <2>1. /\ split.retail * amount \in Int /\ split.dev * amount \in Int
        /\ split.creator * amount \in Int
    BY DEF Split
  <2>2. QED
    BY <2>1, TruncateIntType
<1>2. LET s == Shares(split, amount) IN s.retail = x /\ s.dev = y /\ s.creator = z
  BY DEF Shares
<1> HIDE DEF x, y, z
<1>3. LET s == Remap(Shares(split, amount), to)
      IN  /\ to.retail # NoAddr => s.retail = x - 0
          /\ to.dev # NoAddr => s.dev = y - 0
          /\ to.creator # NoAddr => s.creator = z - 0
  BY <1>2 DEF Remap
<1>4. QED
  BY <1>1, <1>3 DEF x, y, z

\* What is distributed from the fees account reaches the recipients of the params, and
\* all else of it goes to the treasury or stays.
LEMMA DistributeAccounts ==
    ASSUME NEW r \in ResultType, NEW p \in ParamType, NEW row \in Rows, NEW amount \in Int,
           Distribute(r, p, "fees", row, amount, NoMetadata).ok
    PROVE  LET s == Distribute(r, p, "fees", row, amount, NoMetadata)
               split == p.table[row]
           IN  /\ \A a \in User \cup Wallet :
                     s.bal[a] = r.bal[a] + Receives(p, split, amount, a)
               /\ s.bal["treasury"] + s.bal["fees"]
                     = r.bal["treasury"] + r.bal["fees"]
                       - PaidOut(p, split, amount)
<1> DEFINE split == p.table[row]
           to == Recipients(p, NoMetadata)
           sh == Remap(Shares(split, amount), to)
           st == sh.treasury
           sr == sh.retail
           sd == sh.dev
           sc == sh.creator
           ar == p.retail
           ad == p.dev
           ac == p.creator
           tr == TruncateInt(split.retail * amount)
           td == TruncateInt(split.dev * amount)
           tc == TruncateInt(split.creator * amount)
           r1 == Send(r, "fees", "treasury", st)
           r2 == PayShare(r1, "fees", ar, sr)
           r3 == PayShare(r2, "fees", ad, sd)
           r4 == PayShare(r3, "fees", ac, sc)
<1>1. to.retail = ar /\ to.dev = ad /\ to.creator = ac
  BY DEF Recipients, FirstAddr, NoMetadata
<1>2. /\ ar \in Account \cup {NoAddr} /\ ad \in Account \cup {NoAddr}
      /\ ac \in Account \cup {NoAddr} /\ split \in Split
  BY DEF ParamType
<1>3. /\ st \in Int /\ sr \in Int /\ sd \in Int /\ sc \in Int
      /\ ar = NoAddr => sr = 0
      /\ ad = NoAddr => sd = 0
      /\ ac = NoAddr => sc = 0
  BY <1>1, <1>2, SharesAtMostAmount
<1>4. /\ ar # NoAddr => sr = tr
      /\ ad # NoAddr => sd = td
      /\ ac # NoAddr => sc = tc
  BY <1>1, <1>2, RemapKeeps
<1>5. Distribute(r, p, "fees", row, amount, NoMetadata) = r4
  BY <1>1 DEF Distribute
<1>6. /\ \A a : Receives(p, split, amount, a)
                   = (IF ar = a THEN tr ELSE 0) + (IF ad = a THEN td ELSE 0)
                     + (IF ac = a THEN tc ELSE 0)
      /\ PaidOut(p, split, amount)
           = (IF ar \in User \cup Wallet THEN tr ELSE 0)
             + (IF ad \in User \cup Wallet THEN td ELSE 0)
             + (IF ac \in User \cup Wallet THEN tc ELSE 0)
  BY DEF Receives, PaidOut
<1>7. "fees" \in Account /\ "treasury" \in Account
  BY NamedAccounts
<1> HIDE DEF to, sh, st, sr, sd, sc, ar, ad, ac, tr, td, tc, split
<1>8. r1 \in ResultType /\ Moves(r, r1, "fees", "treasury", st)
  BY <1>3, <1>7, SendMoves, SendPays DEF Pays
<1> HIDE DEF r1
<1>9. /\ r2 \in ResultType /\ Moves(r1, r2, "fees", ar, sr) /\ (r2.ok => r1.ok)
      /\ r2.ok /\ ar \in Blocked => sr = 0
  BY <1>2, <1>3, <1>7, <1>8, PayShareMoves, PayShareLemma DEF Pays
<1> HIDE DEF r2
<1>10. /\ r3 \in ResultType /\ Moves(r2, r3, "fees", ad, sd) /\ (r3.ok => r2.ok)
       /\ r3.ok /\ ad \in Blocked => sd = 0
  BY <1>2, <1>3, <1>7, <1>9, PayShareMoves, PayShareLemma DEF Pays
<1> HIDE DEF r3
<1>11. /\ r4 \in ResultType /\ Moves(r3, r4, "fees", ac, sc) /\ (r4.ok => r3.ok)
       /\ r4.ok /\ ac \in Blocked => sc = 0
  BY <1>2, <1>3, <1>7, <1>10, PayShareMoves, PayShareLemma DEF Pays
<1>12. r4.ok /\ r3.ok /\ r2.ok /\ r1.ok
  BY <1>5, <1>9, <1>10, <1>11
<1> HIDE DEF r4
<1>13. ASSUME NEW a \in Account
       PROVE  /\ r.bal[a] \in Nat /\ r1.bal[a] \in Nat /\ r2.bal[a] \in Nat
              /\ r3.bal[a] \in Nat /\ r4.bal[a] \in Nat
              /\ r1.bal[a] = r.bal[a] - (IF a = "fees" THEN st ELSE 0)
                                      + (IF a = "treasury" THEN st ELSE 0)
              /\ r2.bal[a] = r1.bal[a] - (IF a = "fees" THEN sr ELSE 0)
                                       + (IF a = ar THEN sr ELSE 0)
              /\ r3.bal[a] = r2.bal[a] - (IF a = "fees" THEN sd ELSE 0)
                                       + (IF a = ad THEN sd ELSE 0)
              /\ r4.bal[a] = r3.bal[a] - (IF a = "fees" THEN sc ELSE 0)
                                       + (IF a = ac THEN sc ELSE 0)
  <2>1. /\ r.bal[a] \in Nat /\ r1.bal[a] \in Nat /\ r2.bal[a] \in Nat
        /\ r3.bal[a] \in Nat /\ r4.bal[a] \in Nat
    BY <1>8, <1>9, <1>10, <1>11 DEF ResultType
  <2>2. QED
    BY <1>8, <1>9, <1>10, <1>11, <1>12, <2>1 DEF Moves
<1>14. ASSUME NEW a \in User \cup Wallet
       PROVE  r4.bal[a] = r.bal[a] + Receives(p, split, amount, a)
  <2>1. a \in Account /\ a # "fees" /\ a # "treasury" /\ a # NoAddr
    BY FeesAssumption DEF Account, Modules
  <2>2. r4.bal[a] = r.bal[a] + (IF ar = a THEN sr ELSE 0) + (IF ad = a THEN sd ELSE 0)
                             + (IF ac = a THEN sc ELSE 0)
    BY <1>3, <1>13, <2>1
  <2>3. Receives(p, split, amount, a)
          = (IF ar = a THEN sr ELSE 0) + (IF ad = a THEN sd ELSE 0) + (IF ac = a THEN sc ELSE 0)
    BY <1>4, <1>6, <2>1
  <2>4. r.bal[a] \in Nat
    BY <1>13, <2>1
  <2> DEFINE x == IF ar = a THEN sr ELSE 0
             y == IF ad = a THEN sd ELSE 0
             z == IF ac = a THEN sc ELSE 0
  <2>5. x \in Int /\ y \in Int /\ z \in Int
    BY <1>3
  <2> HIDE DEF x, y, z
  <2>6. r4.bal[a] = r.bal[a] + x + y + z /\ Receives(p, split, amount, a) = x + y + z
    BY <2>2, <2>3 DEF x, y, z
  <2>7. QED
    BY <2>4, <2>5, <2>6
<1>15. r4.bal["treasury"] + r4.bal["fees"]
         = r.bal["treasury"] + r.bal["fees"] - PaidOut(p, split, amount)
  <2> DEFINE W == User \cup Wallet
             x == IF ar \in W THEN sr ELSE 0
             y == IF ad \in W THEN sd ELSE 0
             z == IF ac \in W THEN sc ELSE 0
  <2>1. \A a \in Account \cup {NoAddr} :
           a \in W \/ a = "treasury" \/ a \in Blocked \/ a = NoAddr
    BY DEF Account, Modules, Blocked
  <2>2. /\ "fees" \notin W /\ "treasury" \notin W /\ NoAddr \notin W
        /\ \A a \in Blocked : a \notin W
        /\ "fees" \in Blocked /\ "treasury" \notin Blocked /\ NoAddr \notin Blocked
        /\ NoAddr # "treasury" /\ NoAddr # "fees"
    BY FeesAssumption DEF Account, Modules, Blocked
  <2>3. /\ ar \notin W /\ ar # "treasury" => sr = 0
        /\ ad \notin W /\ ad # "treasury" => sd = 0
        /\ ac \notin W /\ ac # "treasury" => sc = 0
    BY <1>2, <1>3, <1>9, <1>10, <1>11, <1>12, <2>1
  <2> HIDE DEF W
  <2>4. x \in Int /\ y \in Int /\ z \in Int
    BY <1>3
  <2>5. PaidOut(p, split, amount)
          = (IF ar \in W THEN tr ELSE 0) + (IF ad \in W THEN td ELSE 0)
            + (IF ac \in W THEN tc ELSE 0)
    BY <1>6 DEF W
  <2> DEFINE t  == r.bal["treasury"] + r.bal["fees"]
             t1 == r1.bal["treasury"] + r1.bal["fees"]
             t2 == r2.bal["treasury"] + r2.bal["fees"]
             t3 == r3.bal["treasury"] + r3.bal["fees"]
             t4 == r4.bal["treasury"] + r4.bal["fees"]
  <2>6. t1 = t /\ t \in Int
    BY <1>3, <1>7, <1>13
  <2>7. t2 = t1 - x
    BY <1>3, <1>7, <1>13, <2>2, <2>3
  <2>8. t3 = t2 - y
    BY <1>3, <1>7, <1>13, <2>2, <2>3
  <2>9. t4 = t3 - z
    BY <1>3, <1>7, <1>13, <2>2, <2>3
  <2>10. PaidOut(p, split, amount) = x + y + z
    BY <1>4, <2>2, <2>5
  <2> HIDE DEF t, t1, t2, t3, t4, x, y, z
  <2>11. t4 = t - PaidOut(p, split, amount)
    BY <2>4, <2>6, <2>7, <2>8, <2>9, <2>10
  <2>12. QED
    BY <1>7, <1>13, <2>4, <2>10, <2>11 DEF t, t4
<1>16. QED
  BY <1>5, <1>14, <1>15 DEF split

-----------------------------------------------------------------------------
(* The ante chain and MsgChargeFee.                                         *)

\* The row a fee type selects is a row of the table.
LEMMA SplitRowsType ==
    \A t : ModuleSplitRow(t) \in Rows /\ AccountSplitRow(t) \in Rows
BY DEF ModuleSplitRow, AccountSplitRow, Rows

\* Between the balances b and c nobody loses coins but src, and src no more than fee.
LosesAtMost(b, c, src, fee) ==
    \A a \in User \cup Wallet : c[a] >= b[a] \/ (a = src /\ b[a] - c[a] <= fee)

\* The decorator of x/fees leaves in the fees account between nothing and, for a split
\* that adds up to one, three units of the fee.
LEMMA DeductFeeLemma ==
    ASSUME NEW r \in ResultType, NEW p \in ParamType \cup {NoParams}, NEW tx \in TxType,
           NEW feeType
    PROVE  LET s == DeductFee(r, p, tx, feeType)
           IN  /\ s \in ResultType
               /\ s.ok => /\ r.ok
                          /\ LosesAtMost(r.bal, s.bal, FeeSource(tx), tx.fee)
                          /\ s.bal["fees"] >= r.bal["fees"]
                          /\ p # NoParams /\ WholeSplit(p.table[ModuleSplitRow(feeType)])
                               => s.bal["fees"] <= r.bal["fees"] + 3
<1> DEFINE src == FeeSource(tx)
           r1 == Send(r, src, "fees", tx.fee)
<1>1. /\ src \in User /\ tx.fee \in Nat
  BY DEF FeeSource, TxType
<1>2. src \in Account /\ src # "fees" /\ "fees" \in Account
  BY <1>1, NamedAccounts
<1>3. r.ok \in BOOLEAN /\ r.bal["fees"] \in Nat
  BY <1>2 DEF ResultType
<1>a. \A a \in User \cup Wallet : a \in Account /\ a # "fees" /\ r.bal[a] \in Nat
  BY NamedAccounts DEF ResultType
<1>4. CASE tx.fee = 0
  <2>1. DeductFee(r, p, tx, feeType) = r
    BY <1>4 DEF DeductFee
  <2>2. LosesAtMost(r.bal, r.bal, src, tx.fee)
    BY <1>a DEF LosesAtMost
  <2>3. QED
    BY <1>3, <2>1, <2>2
<1>5. CASE tx.fee # 0
  <2>1. /\ r1 \in ResultType /\ (r1.ok => r.ok)
        /\ r1.ok => r1.bal["fees"] = r.bal["fees"] + tx.fee
        /\ r1.ok => r1.bal[src] = r.bal[src] - tx.fee
        /\ \A a \in Account : a # src => r1.bal[a] >= r.bal[a]
    <3> DEFINE f == tx.fee
    <3>1. f \in Int /\ r1 = Send(r, src, "fees", f)
      BY <1>1
    <3> HIDE DEF f, src, r1
    <3>2. /\ r1 \in ResultType /\ (r1.ok => r.ok)
          /\ r1.ok => r1.bal["fees"] = r.bal["fees"] + f
          /\ r1.ok => r1.bal[src] = r.bal[src] - f
          /\ \A a \in Account : a # src => r1.bal[a] >= r.bal[a]
      BY <1>2, <3>1, SendLemma
    <3>3. QED
      BY <3>2 DEF f
  <2>2. DeductFee(r, p, tx, feeType) = DistributeFeeFromModule(r1, p, feeType, tx.fee)
    BY <1>5 DEF DeductFee
  <2> HIDE DEF r1
  <2>3. CASE p = NoParams
    <3>1. DeductFee(r, p, tx, feeType) = [ok |-> FALSE, bal |-> r1.bal]
      BY <2>2, <2>3 DEF DistributeFeeFromModule
    <3>2. QED
      BY <2>1, <3>1 DEF ResultType
  <2>4. CASE p # NoParams
    <3> DEFINE row == ModuleSplitRow(feeType)
               s == Distribute(r1, p, "fees", row, tx.fee, NoMetadata)
    <3>1. DeductFee(r, p, tx, feeType) = s
      BY <2>2, <2>4 DEF DistributeFeeFromModule
    <3>2. NoMetadata \in MetadataType
      BY DEF NoMetadata, MetadataType
    <3>3. row \in Rows
      BY SplitRowsType
    <3> HIDE DEF row
    <3>4. /\ s \in ResultType /\ (s.ok => r1.ok)
          /\ \A a \in Account : a # "fees" => s.bal[a] >= r1.bal[a]
          /\ s.ok => /\ s.bal["fees"] >= r1.bal["fees"] - tx.fee
                     /\ WholeSplit(p.table[row]) => s.bal["fees"] <= r1.bal["fees"] - tx.fee + 3
      BY <2>1, <2>4, <3>2, <3>3, <1>1, <1>2, DistributeLemma
    <3> HIDE DEF s
    <3>5. s.ok => LosesAtMost(r.bal, s.bal, src, tx.fee)
      <4>1. SUFFICES ASSUME s.ok, NEW a \in User \cup Wallet
                     PROVE  s.bal[a] >= r.bal[a] \/ (a = src /\ r.bal[a] - s.bal[a] <= tx.fee)
        BY DEF LosesAtMost
      <4>2. r.bal[a] \in Nat /\ r1.bal[a] \in Nat /\ s.bal[a] \in Nat
        BY <1>a, <2>1, <3>4 DEF ResultType
      <4>3. s.bal[a] >= r1.bal[a]
        BY <1>a, <3>4
      <4> HIDE DEF src
      <4>4. CASE a = src
        BY <1>1, <2>1, <3>4, <4>1, <4>2, <4>3, <4>4
      <4>5. CASE a # src
        BY <1>a, <2>1, <4>2, <4>3, <4>5
      <4>6. QED
        BY <4>4, <4>5
    <3>6. QED
      BY <1>1, <1>3, <2>1, <3>1, <3>4, <3>5 DEF row
  <2>5. QED
    BY <2>3, <2>4
<1>6. QED
  BY <1>4, <1>5

\* From the balances b to c a fee that src pays is accounted for: the shares of the
\* recipients, the fee of the payer, and all else in the treasury and the fees account.
Accounted(b, c, p, split, fee, src) ==
    /\ \A a \in User \cup Wallet :
          c[a] = b[a] + Receives(p, split, fee, a) - (IF a = src THEN fee ELSE 0)
    /\ c["treasury"] + c["fees"]
          = b["treasury"] + b["fees"] + fee - PaidOut(p, split, fee)

\* The decorator accounts for the fee it deducts.
LEMMA DeductFeeAccounts ==
    ASSUME NEW r \in ResultType, NEW p \in ParamType, NEW tx \in TxType, NEW feeType,
           DeductFee(r, p, tx, feeType).ok
    PROVE  Accounted(r.bal, DeductFee(r, p, tx, feeType).bal, p,
                     p.table[ModuleSplitRow(feeType)], tx.fee, FeeSource(tx))
<1> DEFINE src == FeeSource(tx)
           f   == tx.fee
           row == ModuleSplitRow(feeType)
           split == p.table[row]
           r1  == Send(r, src, "fees", f)
           s   == Distribute(r1, p, "fees", row, f, NoMetadata)
           W   == User \cup Wallet
<1>1. src \in User /\ f \in Nat /\ row \in Rows
  BY SplitRowsType DEF FeeSource, TxType
<1>2. /\ "fees" \in Account /\ "treasury" \in Account /\ src \in Account
      /\ src # "fees" /\ src # "treasury"
      /\ \A a \in W : a \in Account /\ a # "fees" /\ a # "treasury"
  BY <1>1, FeesAssumption DEF Account, Modules
<1>3. split \in Split
  BY <1>1 DEF ParamType
<1>4. p # NoParams
  BY FeesAssumption
<1>5. \A a \in Account : r.bal[a] \in Nat
  BY DEF ResultType
<1>6. CASE f = 0
  <2>1. DeductFee(r, p, tx, feeType) = r
    BY <1>6 DEF DeductFee
  <2>2. \A x \in Int : TruncateInt(x * 0) = 0
    BY PrecAssumption, SMTT(30) DEF TruncateInt
  <2>3. split.retail \in Int /\ split.dev \in Int /\ split.creator \in Int
    BY <1>3 DEF Split
  <2>4. PaidOut(p, split, f) = 0 /\ \A a : Receives(p, split, f, a) = 0
    BY <1>6, <2>2, <2>3 DEF Receives, PaidOut
  <2> HIDE DEF f, split, src
  <2>5. Accounted(r.bal, r.bal, p, split, f, src)
    BY <1>2, <1>5, <1>6, <2>4 DEF Accounted
  <2>6. QED
    BY <2>1, <2>5 DEF f, split, src
<1>7. CASE f # 0
  <2>1. DeductFee(r, p, tx, feeType) = s
    BY <1>4, <1>7 DEF DeductFee, DistributeFeeFromModule
  <2>2. s.ok
    BY <2>1
  <2> HIDE DEF f, row, src
  <2>3. r1 \in ResultType /\ Moves(r, r1, src, "fees", f)
    BY <1>1, <1>2, SendLemma, SendMoves
  <2> HIDE DEF r1
  <2>4. /\ \A a \in W : s.bal[a] = r1.bal[a] + Receives(p, split, f, a)
        /\ s.bal["treasury"] + s.bal["fees"]
              = r1.bal["treasury"] + r1.bal["fees"] - PaidOut(p, split, f)
    BY <1>1, <2>2, <2>3, DistributeAccounts
  <2>5. s \in ResultType /\ r1.ok
    <3>1. NoMetadata \in MetadataType
      BY DEF NoMetadata, MetadataType
    <3>2. QED
      BY <1>1, <1>2, <2>2, <2>3, <3>1, DistributeLemma
  <2> HIDE DEF s
  <2>6. \A a \in Account : r1.bal[a] \in Nat /\ s.bal[a] \in Nat
    BY <2>3, <2>5 DEF ResultType
  <2>7. \A a \in Account : r1.bal[a] = r.bal[a] - (IF a = src THEN f ELSE 0)
                                               + (IF a = "fees" THEN f ELSE 0)
    BY <2>3, <2>5 DEF Moves
  <2>8. PaidOut(p, split, f) \in Int /\ \A a : Receives(p, split, f, a) \in Int
    <3>1. /\ TruncateInt(split.retail * f) \in Int /\ TruncateInt(split.dev * f) \in Int
          /\ TruncateInt(split.creator * f) \in Int
      <4>1. split.retail * f \in Int /\ split.dev * f \in Int /\ split.creator * f \in Int
        BY <1>1, <1>3 DEF Split
      <4>2. QED
        BY <4>1, TruncateIntType
    <3>2. QED
      BY <3>1 DEF Receives, PaidOut
  <2> HIDE DEF split, W
  <2>9. ASSUME NEW a \in W
        PROVE  s.bal[a] = r.bal[a] + Receives(p, split, f, a) - (IF a = src THEN f ELSE 0)
    BY <1>1, <1>2, <1>5, <2>4, <2>6, <2>7, <2>8, <2>9
  <2>10. s.bal["treasury"] + s.bal["fees"]
           = r.bal["treasury"] + r.bal["fees"] + f - PaidOut(p, split, f)
    BY <1>1, <1>2, <1>5, <2>4, <2>6, <2>7, <2>8
  <2>11. Accounted(r.bal, s.bal, p, split, f, src)
    BY <2>9, <2>10 DEF Accounted, W
  <2>12. QED
    BY <2>1, <2>11 DEF split, row, f, src
<1>8. QED
  BY <1>6, <1>7

\* A USD amount of the table converts to an integer, of either sign.
LEMMA ConvertType ==
    ASSUME NEW usd \in Int, NEW price \in Int
    PROVE  ConvertUSDToCSV(usd, price) \in Int
<1>1. GetCSVUSDPrice(price) \in Int
  BY PrecAssumption DEF GetCSVUSDPrice
<1>2. ASSUME NEW a \in Int, NEW b \in Int
      PROVE  Mul(a, b) \in Int
  <2>1. a * b \in Int
    OBVIOUS
  <2>2. (a * b) \div Prec \in Int
    BY <2>1, PrecAssumption
  <2>3. QED
    BY <2>2 DEF Mul
<1>3. QED
  BY <1>1, <1>2 DEF ConvertUSDToCSV

\* The amount MsgChargeFee asks for is an integer, of either sign.
LEMMA ChargeAmountType ==
    ASSUME NEW p \in ParamType, NEW price \in Int, NEW row \in Rows
    PROVE  ChargeAmount(p, price, row) \in Int
<1>1. p.table[row].usd \in Int
  BY DEF ParamType, Split
<1>2. ConvertUSDToCSV(p.table[row].usd, price) \in Int
  BY <1>1, ConvertType
<1>3. ConvertUSDToCSV(p.table[row].usd, price) * Micro \in Int
  BY <1>2, MicroAssumption
<1>4. QED
  BY <1>3, TruncateIntType DEF ChargeAmount

\* MsgChargeFee takes from the sender alone.
LEMMA ChargeFeeLemma ==
    ASSUME NEW r \in ResultType, NEW p \in ParamType \cup {NoParams}, NEW price \in Int,
           NEW sender \in User, NEW category, NEW md \in MetadataType
    PROVE  LET s == ChargeFee(r, p, price, sender, category, md)
           IN  /\ s \in ResultType
               /\ \A a \in Account : a # sender => s.bal[a] >= r.bal[a]
<1>1. /\ sender \in Account /\ sender # "fees" /\ "fees" \in Account
  BY NamedAccounts
<1>2. r.ok \in BOOLEAN /\ r.bal \in [Account -> Nat] /\ r.bal["fees"] \in Nat
  BY <1>1 DEF ResultType
<1> DEFINE amount == ChargeAmount(p, price, category)
           row == AccountSplitRow(category)
           paid == Distribute(r, p, sender, row, amount, md)
<1>3. CASE p = NoParams \/ category \notin Rows
  <2>1. ChargeFee(r, p, price, sender, category, md) = [ok |-> FALSE, bal |-> r.bal]
    BY <1>3 DEF ChargeFee
  <2>2. QED
    BY <1>2, <2>1 DEF ResultType
<1>4. CASE p # NoParams /\ category \in Rows /\ category \in {"deploy", "wizard"}
  <2>1. ChargeFee(r, p, price, sender, category, md) = r
    BY <1>4 DEF ChargeFee
  <2>2. QED
    BY <1>2, <2>1
<1>5. CASE /\ p # NoParams /\ category \in Rows /\ category \notin {"deploy", "wizard"}
           /\ r.bal[sender] < amount \/ amount < 0
  <2>1. ChargeFee(r, p, price, sender, category, md) = [ok |-> FALSE, bal |-> r.bal]
    BY <1>5 DEF ChargeFee
  <2>2. QED
    BY <1>2, <2>1 DEF ResultType
<1>6. CASE /\ p # NoParams /\ category \in Rows /\ category \notin {"deploy", "wizard"}
           /\ ~(r.bal[sender] < amount \/ amount < 0)
  <2>1. ChargeFee(r, p, price, sender, category, md) = paid
    BY <1>6 DEF ChargeFee, DistributeFee
  <2>2. amount \in Int
    BY <1>6, ChargeAmountType
  <2>3. row \in Rows
    BY SplitRowsType
  <2> HIDE DEF amount, row
  <2>4. paid \in ResultType /\ \A a \in Account : a # sender => paid.bal[a] >= r.bal[a]
    BY <1>1, <1>6, <2>2, <2>3, DistributeLemma
  <2> HIDE DEF paid
  <2>5. QED
    BY <2>1, <2>4
<1>7. QED
  BY <1>3, <1>4, <1>5, <1>6

\* A set of natural numbers that is not empty has a least element.
LEMMA LeastElement ==
    ASSUME NEW S \in SUBSET Nat, S # {}
    PROVE  \E i \in S : \A j \in S : i <= j
<1> DEFINE R == OpToRel(<, Nat)
<1>1. \E x \in S : \A y \in S : <<y, x>> \notin R
  <2> HIDE DEF R
  <2>1. IsWellFoundedOn(R, Nat)
    BY NatLessThanWellFounded DEF R
  <2>2. QED
    BY <2>1, WFMin, Zenon
<1>2. \A x \in Nat, y \in Nat : <<y, x>> \notin R => x <= y
  BY DEF OpToRel
<1> HIDE DEF R
<1>3. QED
  BY <1>1, <1>2

\* Every transaction has a category.
LEMMA ClassifyTransactionType ==
    ASSUME NEW p \in ParamType, NEW tx \in TxType
    PROVE  ClassifyTransaction(p, tx) \in Categories
<1>1. \A memo : CategoryOfMemo(memo) = "" \/ CategoryOfMemo(memo) \in Categories
  BY DEF CategoryOfMemo, Categories
<1>2. \A kind : CategoryOfKind(kind) = "" \/ CategoryOfKind(kind) \in Categories
  BY DEF CategoryOfKind, Categories
<1> DEFINE kinds == ExpandMessages(tx.msgs)
           sys   == {i \in DOMAIN kinds : IsSystemMsg(p, kinds[i])}
           known == {i \in DOMAIN kinds : CategoryOfKind(kinds[i]) # ""}
           first == CHOOSE i \in known : \A j \in known : i <= j
<1>3. known # {} => first \in known
  <2>1. SUFFICES ASSUME known # {}
                 PROVE  \E i \in known : \A j \in known : i <= j
    BY Zenon
  <2>2. known \subseteq Nat
    <3>1. tx.msgs \in Seq(Msg)
      BY DEF TxType
    <3>2. DOMAIN tx.msgs = 1 .. Len(tx.msgs) /\ Len(tx.msgs) \in Nat
      BY <3>1
    <3>3. DOMAIN kinds = DOMAIN tx.msgs
      BY DEF ExpandMessages
    <3>4. known \subseteq DOMAIN kinds
      OBVIOUS
    <3> HIDE DEF known, kinds
    <3>5. QED
      BY <3>2, <3>3, <3>4
  <2> HIDE DEF known
  <2>3. QED
    BY <2>1, <2>2, LeastElement
<1>4. known # {} => CategoryOfKind(kinds[first]) \in Categories
  BY <1>2, <1>3
<1>5. /\ "system" \in Categories /\ "mixed" \in Categories
      /\ "native_transfer" \in Categories
  BY DEF Categories
<1>6. ClassifyTransaction(p, tx) =
        IF CategoryOfMemo(tx.memo) # "" THEN CategoryOfMemo(tx.memo)
        ELSE IF sys # {} THEN (IF sys = DOMAIN kinds THEN "system" ELSE "mixed")
        ELSE IF known # {} THEN CategoryOfKind(kinds[first])
        ELSE "native_transfer"
  BY DEF ClassifyTransaction
<1> HIDE DEF kinds, sys, known, first
<1>7. QED
  BY <1>1, <1>4, <1>5, <1>6

\* What FeeAnteHandler reports: a category, and the fee type it selects the split by.
LEMMA FeeAnteType ==
    ASSUME NEW p \in ParamType \cup {NoParams}, NEW price, NEW tx \in TxType
    PROVE  LET fa == FeeAnte(p, price, tx)
           IN  /\ fa.cat \in Categories \cup {"unset"}
               /\ p # NoParams =>
                    fa.feeType = IF fa.cat = "system" THEN "native_transfer" ELSE fa.cat
<1>1. CASE p = NoParams
  BY <1>1 DEF FeeAnte
<1>2. CASE p # NoParams
  <2> DEFINE cat == ClassifyTransaction(p, tx)
  <2>1. cat \in Categories
    BY <1>2, ClassifyTransactionType
  <2> HIDE DEF cat
  <2>2. /\ FeeAnte(p, price, tx).cat = cat
        /\ FeeAnte(p, price, tx).feeType = IF cat = "system" THEN "native_transfer" ELSE cat
    BY <1>2 DEF FeeAnte, cat
  <2>3. QED
    BY <2>1, <2>2
<1>3. QED
  BY <1>1, <1>2

\* A transaction that passes the ante chain leaves in the fees account at least what was
\* there, and at most three units more when its split adds up to one.
LEMMA AnteLemma ==
    ASSUME TypeOK, NEW tx \in TxType
    PROVE  LET s == Ante(tx)
               t == FeeAnte(params, csvPerUSD, tx).feeType
           IN  /\ s \in ResultType
               /\ s.ok => /\ LosesAtMost(bal, s.bal, FeeSource(tx), tx.fee)
                          /\ s.bal["fees"] >= bal["fees"]
                          /\ params # NoParams /\ WholeSplit(params.table[ModuleSplitRow(t)])
                               => s.bal["fees"] <= bal["fees"] + 3
<1> DEFINE fa == FeeAnte(params, csvPerUSD, tx)
           t  == fa.feeType
           r  == Result(bal)
           r1 == DeductFee(r, params, tx, t)
<1>1. bal \in [Account -> Nat] /\ params \in ParamType \cup {NoParams}
  BY DEF TypeOK
<1>2. r \in ResultType /\ r.bal = bal
  BY <1>1 DEF Result, ResultType
<1>3. CASE ~fa.ok
  <2>1. Ante(tx) = [ok |-> FALSE, bal |-> bal]
    BY <1>3 DEF Ante
  <2>2. QED
    BY <1>1, <2>1 DEF ResultType
<1>4. CASE fa.ok
  <2>1. Ante(tx) = r1
    BY <1>4 DEF Ante, BaseAnte
  <2> HIDE DEF fa, t, r
  <2>2. /\ r1 \in ResultType
        /\ r1.ok => /\ LosesAtMost(r.bal, r1.bal, FeeSource(tx), tx.fee)
                    /\ r1.bal["fees"] >= r.bal["fees"]
                    /\ params # NoParams /\ WholeSplit(params.table[ModuleSplitRow(t)])
                         => r1.bal["fees"] <= r.bal["fees"] + 3
    BY <1>1, <1>2, DeductFeeLemma
  <2> HIDE DEF r1
  <2>3. QED
    BY <1>2, <2>1, <2>2 DEF t, fa
<1>5. QED
  BY <1>3, <1>4

-----------------------------------------------------------------------------
(* Steps.                                                                   *)

\* FlatFee of one account and one transaction.
LosesByTx(l) ==
    \A a \in User \cup Wallet :
        bal'[a] < bal[a] =>
           /\ l.op = "tx"
           /\ \/ a = l.from /\ bal[a] - bal'[a] <= l.fee
              \/ a = l.payer /\ l.body = "charge"

\* What a delivered transaction does to the types and to the fees account.
LEMMA DeliverTxLemma ==
    ASSUME TypeOK, NEW tx \in Txs, DeliverTx(tx)
    PROVE  /\ TypeOK'
           /\ bal'["fees"] >= bal["fees"]
           /\ LosesByTx(last')
           /\ /\ params # NoParams /\ last'.body = "none"
              /\ WholeSplit(params.table[SplitRow(params, last')])
              => bal'["fees"] <= bal["fees"] + 3
<1> DEFINE ante == Ante(tx)
           fa == FeeAnte(params, csvPerUSD, tx)
           charged == ChargeFee(ante, params, csvPerUSD, tx.payer, tx.body.category,
                                tx.body.md)
           body == IF tx.body.op = "charge" THEN charged ELSE ante
<1>1. /\ tx \in TxType /\ tx.payer \in User /\ tx.gas \in Nat /\ tx.fee \in Nat
      /\ tx.body \in BodyType /\ FeeSource(tx) \in User
  BY FeesAssumption DEF TxType, FeeSource
<1>2. /\ params \in ParamType \cup {NoParams} /\ csvPerUSD \in Int
      /\ bal \in [Account -> Nat] /\ bal["fees"] \in Nat
  BY NamedAccounts DEF TypeOK
<1>3. tx.body.op \in {"none", "charge", "price"}
  BY <1>1 DEF BodyType, NoBody
<1>4. tx.body.op = "charge" => tx.body.md \in MetadataType
  BY <1>1 DEF BodyType, NoBody
<1>5. tx.body.op = "price" => tx.body.price \in Int
  BY <1>1 DEF BodyType, NoBody
<1>6. /\ ante.ok
      /\ last' = [op |-> "tx", cat |-> fa.cat, payer |-> tx.payer, from |-> FeeSource(tx),
                  fee |-> tx.fee, gas |-> tx.gas, body |-> tx.body.op]
      /\ \/ /\ bal' = body.bal
            /\ csvPerUSD' = IF tx.body.op = "price"
                            THEN SetPrice(csvPerUSD, tx.body.price) ELSE csvPerUSD
         \/ bal' = ante.bal /\ csvPerUSD' = csvPerUSD
      /\ params' = params
  BY DEF DeliverTx
<1>7. /\ fa.cat \in Categories \cup {"unset"}
      /\ params # NoParams =>
           fa.feeType = IF fa.cat = "system" THEN "native_transfer" ELSE fa.cat
  BY <1>1, <1>2, FeeAnteType
<1>8. /\ ante \in ResultType
      /\ ante.ok => /\ LosesAtMost(bal, ante.bal, FeeSource(tx), tx.fee)
                    /\ ante.bal["fees"] >= bal["fees"]
                    /\ params # NoParams /\ WholeSplit(params.table[ModuleSplitRow(fa.feeType)])
                         => ante.bal["fees"] <= bal["fees"] + 3
  BY <1>1, AnteLemma
<1> HIDE DEF ante, fa
<1>9. tx.body.op = "charge" =>
        /\ charged \in ResultType /\ charged.bal["fees"] >= ante.bal["fees"]
        /\ \A a \in Account : a # tx.payer => charged.bal[a] >= ante.bal[a]
  <2>1. tx.body.op = "charge" =>
          /\ charged \in ResultType
          /\ \A a \in Account : a # tx.payer => charged.bal[a] >= ante.bal[a]
    BY <1>1, <1>2, <1>4, <1>8, ChargeFeeLemma
  <2>2. "fees" \in Account /\ "fees" # tx.payer
    BY <1>1, NamedAccounts
  <2>3. QED
    BY <2>1, <2>2
<1> HIDE DEF charged
<1>10. /\ bal' \in [Account -> Nat]
       /\ bal'["fees"] >= ante.bal["fees"] /\ ante.bal["fees"] \in Nat
       /\ tx.body.op = "none" => bal' = ante.bal
  <2>1. /\ ante.bal \in [Account -> Nat] /\ ante.bal["fees"] \in Nat
        /\ tx.body.op = "charge" => charged.bal \in [Account -> Nat]
    BY <1>8, <1>9, NamedAccounts DEF ResultType
  <2>2. CASE bal' = ante.bal
    BY <2>1, <2>2
  <2>3. CASE bal' = body.bal /\ tx.body.op = "charge"
    BY <2>1, <2>3, <1>9
  <2>4. CASE bal' = body.bal /\ tx.body.op # "charge"
    BY <2>1, <2>4
  <2>5. QED
    BY <1>6, <2>2, <2>3, <2>4
<1>11. csvPerUSD' \in Int
  BY <1>2, <1>5, <1>6 DEF SetPrice
<1>12. last' \in LastType
  BY <1>1, <1>3, <1>6, <1>7 DEF LastType
<1>13. TypeOK'
  BY <1>2, <1>6, <1>10, <1>11, <1>12 DEF TypeOK
<1>14. bal'["fees"] >= bal["fees"]
  <2>1. ante.bal["fees"] >= bal["fees"]
    BY <1>6, <1>8
  <2>2. bal'["fees"] \in Nat
    BY <1>10, NamedAccounts
  <2>3. QED
    BY <1>2, <1>10, <2>1, <2>2
<1>15. ASSUME params # NoParams, last'.body = "none",
              WholeSplit(params.table[SplitRow(params, last')])
       PROVE  bal'["fees"] <= bal["fees"] + 3
  <2>1. tx.body.op = "none" /\ last'.cat = fa.cat
    BY <1>6, <1>15
  <2>2. SplitRow(params, last') = ModuleSplitRow(fa.feeType)
    BY <1>7, <1>15, <2>1 DEF SplitRow
  <2>3. QED
    BY <1>6, <1>8, <1>10, <1>15, <2>1, <2>2
<1>16. LosesByTx(last')
  <2>1. SUFFICES ASSUME NEW a \in User \cup Wallet, bal'[a] < bal[a]
                 PROVE  \/ a = FeeSource(tx) /\ bal[a] - bal'[a] <= tx.fee
                        \/ a = tx.payer /\ tx.body.op = "charge"
    BY <1>6 DEF LosesByTx
  <2>2. a \in Account
    BY NamedAccounts
  <2>3. bal[a] \in Nat /\ bal'[a] \in Nat /\ ante.bal[a] \in Nat
    BY <1>2, <1>8, <1>10, <2>2 DEF ResultType
  <2>4. ante.bal[a] >= bal[a] \/ (a = FeeSource(tx) /\ bal[a] - ante.bal[a] <= tx.fee)
    BY <1>6, <1>8 DEF LosesAtMost
  <2>5. bal'[a] >= ante.bal[a] \/ (a = tx.payer /\ tx.body.op = "charge")
    <3>1. CASE bal' = ante.bal
      BY <2>3, <3>1
    <3>2. CASE bal' = body.bal /\ tx.body.op = "charge"
      BY <1>9, <2>2, <3>2
    <3>3. CASE bal' = body.bal /\ tx.body.op # "charge"
      BY <2>3, <3>3
    <3>4. QED
      BY <1>6, <3>1, <3>2, <3>3
  <2>6. QED
    BY <1>1, <2>1, <2>3, <2>4, <2>5
<1>17. QED
  BY <1>13, <1>14, <1>15, <1>16

\* Every step keeps the types and never lowers the fees account.
LEMMA NextLemma ==
    ASSUME TypeOK, [Next]_vars
    PROVE  TypeOK' /\ bal'["fees"] >= bal["fees"]
<1>1. bal["fees"] \in Nat
  BY NamedAccounts DEF TypeOK
<1>2. CASE InitGenesis
  BY <1>1, <1>2, FeesAssumption DEF InitGenesis, TypeOK, LastType
<1>3. ASSUME NEW tx \in Txs, DeliverTx(tx)
      PROVE  TypeOK' /\ bal'["fees"] >= bal["fees"]
  BY <1>3, DeliverTxLemma
<1>4. ASSUME NEW signer, NEW p \in ParamChoices, UpdateParams(signer, p)
      PROVE  TypeOK' /\ bal'["fees"] >= bal["fees"]
  BY <1>1, <1>4, FeesAssumption DEF UpdateParams, TypeOK, LastType
<1>5. ASSUME NEW price \in Prices, OraclePrice(price)
      PROVE  TypeOK' /\ bal'["fees"] >= bal["fees"]
  BY <1>1, <1>5, FeesAssumption DEF OraclePrice, TypeOK, LastType
<1>6. CASE UNCHANGED vars
  BY <1>1, <1>6 DEF vars, TypeOK
<1>7. QED
  BY <1>2, <1>3, <1>4, <1>5, <1>6 DEF Next

-----------------------------------------------------------------------------
(* Theorems.                                                                *)

\* Whatever transactions are delivered and whatever sign the price has, balances stay
\* natural numbers, params are absent or well formed and every transaction has a category.
THEOREM TypeCorrect == Spec => []TypeOK
<1>1. Init => TypeOK
  BY FeesAssumption DEF Init, TypeOK, LastType
<1>2. TypeOK /\ [Next]_vars => TypeOK'
  BY NextLemma
<1>3. QED
  BY <1>1, <1>2, PTL DEF Spec

\* x/fees never pays out of its module account more than the fee at hand: for every
\* split, also those params validation skips, and for every recipient.
THEOREM FeesNeverOverdraw == Spec => NeverOverdraws
<1>1. TypeOK /\ [Next]_vars => [bal'["fees"] >= bal["fees"]]_vars
  BY NextLemma
<1>2. QED
  BY <1>1, TypeCorrect, PTL DEF Spec, NeverOverdraws

\* For every Prec, amount and split that adds up to one, a fee leaves at most three units
\* in the fees module account.
THEOREM FeesDustBounded == Spec => DustBounded
<1> DEFINE A == [/\ last'.op = "tx" /\ params # NoParams
                 /\ WholeSplit(params.table[SplitRow(params, last')])
                 /\ last'.body = "none"
                 => bal'["fees"] - bal["fees"] <= 3]_vars
<1>1. ASSUME TypeOK, [Next]_vars
      PROVE  A
  <2>1. bal["fees"] \in Nat /\ bal'["fees"] \in Nat
    BY <1>1, NextLemma, NamedAccounts DEF TypeOK
  <2>2. CASE UNCHANGED vars
    BY <2>2
  <2>3. ASSUME NEW tx \in Txs, DeliverTx(tx)
        PROVE  A
    BY <1>1, <2>1, <2>3, DeliverTxLemma
  <2>4. CASE last' = Idle
    BY <2>4 DEF Idle
  <2>5. QED
    BY <1>1, <2>2, <2>3, <2>4 DEF Next, InitGenesis, UpdateParams, OraclePrice
<1>2. QED
  BY <1>1, TypeCorrect, PTL DEF Spec, DustBounded

\* For every split, recipient and param set: a fee is taken once, from the account the
\* transaction names, and no other account pays for it.
THEOREM FeesFlat == Spec => FlatFee
<1> DEFINE A == [\A a \in User \cup Wallet :
                   bal'[a] < bal[a] =>
                      /\ last'.op = "tx"
                      /\ \/ a = last'.from /\ bal[a] - bal'[a] <= last'.fee
                         \/ a = last'.payer /\ last'.body = "charge"]_vars
<1>1. ASSUME TypeOK, [Next]_vars
      PROVE  A
  <2>1. \A a \in User \cup Wallet : bal[a] \in Nat
    BY <1>1, NamedAccounts DEF TypeOK
  <2>2. CASE UNCHANGED vars
    BY <2>2
  <2>3. ASSUME NEW tx \in Txs, DeliverTx(tx)
        PROVE  A
    BY <1>1, <2>3, DeliverTxLemma DEF LosesByTx
  <2>4. CASE bal' = bal
    BY <2>1, <2>4
  <2>5. QED
    BY <1>1, <2>2, <2>3, <2>4 DEF Next, InitGenesis, UpdateParams, OraclePrice
<1>2. QED
  BY <1>1, TypeCorrect, PTL DEF Spec, FlatFee

\* For every split, also one that adds up to more than one, every precision and every
\* assignment of accounts to roles: what the recipients of the params receive, what the
\* payer loses and what is left to the treasury and the fees account is exact.
THEOREM FeesAccounted == Spec => WalletsPaid
<1> DEFINE A == /\ last'.op = "tx" /\ params # NoParams /\ last'.body # "charge"
                => LET row == params.table[SplitRow(params, last')]
                   IN  /\ \A a \in User \cup Wallet :
                             bal'[a] = bal[a] + Receives(params, row, last'.fee, a)
                                              - (IF a = last'.from THEN last'.fee ELSE 0)
                       /\ bal'["treasury"] + bal'["fees"]
                             = bal["treasury"] + bal["fees"]
                               + last'.fee - PaidOut(params, row, last'.fee)
<1>1. ASSUME TypeOK, Next
      PROVE  A
  <2>1. SUFFICES ASSUME last'.op = "tx", params # NoParams, last'.body # "charge"
                 PROVE  Accounted(bal, bal', params, params.table[SplitRow(params, last')],
                                  last'.fee, last'.from)
    BY DEF Accounted
  <2>2. PICK tx \in Txs : DeliverTx(tx)
    <3>1. last' # Idle
      BY <2>1 DEF Idle
    <3>2. QED
      BY <1>1, <3>1 DEF Next, InitGenesis, UpdateParams, OraclePrice
  <2> DEFINE fa == FeeAnte(params, csvPerUSD, tx)
             ante == Ante(tx)
  <2>3. tx \in TxType
    BY FeesAssumption
  <2>4. /\ ante.ok /\ last'.cat = fa.cat /\ last'.fee = tx.fee /\ last'.from = FeeSource(tx)
        /\ bal' = ante.bal
    BY <2>1, <2>2 DEF DeliverTx
  <2>5. params \in ParamType /\ Result(bal) \in ResultType /\ Result(bal).bal = bal
    BY <1>1, <2>1 DEF TypeOK, Result, ResultType
  <2>6. fa.ok /\ ante = DeductFee(Result(bal), params, tx, fa.feeType)
    BY <2>4 DEF Ante, BaseAnte
  <2>7. SplitRow(params, last') = ModuleSplitRow(fa.feeType)
    BY <2>1, <2>3, <2>4, <2>5, FeeAnteType DEF SplitRow
  <2>8. Accounted(bal, ante.bal, params, params.table[ModuleSplitRow(fa.feeType)],
                  tx.fee, FeeSource(tx))
    BY <2>3, <2>4, <2>5, <2>6, DeductFeeAccounts
  <2>9. QED
    BY <2>4, <2>7, <2>8
<1>2. TypeOK /\ [Next]_vars => [A]_vars
  BY <1>1
<1>3. QED
  BY <1>2, TypeCorrect, PTL DEF Spec, WalletsPaid
=============================================================================
