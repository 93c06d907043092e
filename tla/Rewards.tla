------------------------------ MODULE Rewards ------------------------------
(***************************************************************************)
(* The configuration, minter and achievement instructions: initialize,     *)
(* update_config, register_minter, revoke_minter, reward_xp,               *)
(* create_achievement_type, award_achievement and                          *)
(* deactivate_achievement_type.                                            *)
(*                                                                         *)
(* An operator whose name ends in _x... is a faulty variant of the         *)
(* definition that follows it, used by no specification.                   *)
(***************************************************************************)
EXTENDS AcademyState

PutMinter(m, role) == minters' = [minters EXCEPT ![m] = role]
PutAchievement(t, type) == achievements' = [achievements EXCEPT ![t] = type]

NewMinter(cap) == [live |-> TRUE, active |-> TRUE, cap |-> cap, total |-> 0]

-----------------------------------------------------------------------------
(* initialize: the first caller becomes authority and backend signer, and   *)
(* gets an unlimited MinterRole.  Anchor's init makes it happen once.       *)
Initialize(k) ==
  /\ ~config.live
  /\ ~minters[k].live
  /\ config' = [live |-> TRUE, authority |-> k, backend |-> k]
  /\ PutMinter(k, NewMinter(0))
  /\ UNCHANGED <<now, courseVars, achievements, receipts, nfts, xpSupply, historyVars>>

Retired(role) == [role EXCEPT !.active = FALSE]

(* update_config with a new backend signer s.  The optional remaining       *)
(* account "old" is the MinterRole of the signer being replaced; without it *)
(* that role keeps its minting right.  The new signer gets no role.         *)
UpdateConfig(k, s, old) ==
  /\ IsAuthority(k)
  /\ \A m \in old : minters[m].live /\ m = config.backend
  /\ config' = [config EXCEPT !.backend = s]
  /\ minters' = [m \in Keys |-> IF m \in old THEN Retired(minters[m]) ELSE minters[m]]
  /\ UNCHANGED <<now, courseVars, achievements, receipts, nfts, xpSupply, historyVars>>

-----------------------------------------------------------------------------
(* register_minter and revoke_minter, signed by the authority. *)

RegisterMinter(k, m, cap) ==
  /\ IsAuthority(k)
  /\ ~minters[m].live
  /\ PutMinter(m, NewMinter(cap))
  /\ UNCHANGED <<now, config, courseVars, achievements, receipts, nfts, xpSupply, historyVars>>

(* The account closes and its lifetime total survives only in the event. *)
RevokeMinter(k, m) ==
  /\ IsAuthority(k)
  /\ minters[m].live
  /\ PutMinter(m, NoMinter)
  /\ revokedXp' = revokedXp + minters[m].total
  /\ UNCHANGED <<now, config, courseVars, achievements, receipts, nfts, xpSupply,
                 courseXp, creatorXp, finalisers>>

-----------------------------------------------------------------------------
(* reward_xp, signed by the minter. *)

WithinCap(role, amount) == role.cap > 0 => amount <= role.cap

CanAdd(role, amount) == role.total + amount <= U64Max

Credited_xOnlyTheFirst(role, amount) == [role EXCEPT !.total = IF @ = 0 THEN amount ELSE @]
Credited(role, amount) == [role EXCEPT !.total = @ + amount]

RewardXp(m, amount) ==
  /\ config.live
  /\ minters[m].live
  /\ minters[m].active
  /\ amount > 0
  /\ WithinCap(minters[m], amount)
  /\ CanAdd(minters[m], amount)
  /\ MintXp(amount)
  /\ PutMinter(m, Credited(minters[m], amount))
  /\ UNCHANGED <<now, config, courseVars, achievements, receipts, nfts, historyVars>>

-----------------------------------------------------------------------------
(* Achievement types, defined and retired by the authority. *)

(* The ids, names and URIs the authority passes are within their lengths;   *)
(* max_supply = 0 means unlimited.  The collection created beside the type  *)
(* is the type's own.                                                       *)
CreateAchievementType(k, t, p) ==
  /\ IsAuthority(k)
  /\ ~achievements[t].live
  /\ p.xpReward > 0
  /\ PutAchievement(t, [live |-> TRUE, active |-> TRUE, maxSupply |-> p.maxSupply,
                        supply |-> 0, xpReward |-> p.xpReward])
  /\ UNCHANGED <<now, config, courseVars, minters, receipts, nfts, xpSupply, historyVars>>

DeactivateAchievementType(k, t) ==
  /\ IsAuthority(k)
  /\ achievements[t].live
  /\ PutAchievement(t, [achievements[t] EXCEPT !.active = FALSE])
  /\ UNCHANGED <<now, config, courseVars, minters, receipts, nfts, xpSupply, historyVars>>

-----------------------------------------------------------------------------
(* award_achievement, signed by a minter.  It checks the role's active flag *)
(* but not its cap.                                                         *)

NotAwarded_xNoReceiptCheck(t, l) == TRUE
NotAwarded(t, l) == receipts[t][l] = NoAsset

SupplyLeft_xOffByOne(type) == type.maxSupply > 0 => type.supply <= type.maxSupply
SupplyLeft(type) == type.maxSupply > 0 => type.supply < type.maxSupply

Awardable_xEvenRetired(type) == type.live
Awardable(type) == type.live /\ type.active

AwardAchievement(m, t, l, a) ==
  LET type == achievements[t]
  IN  /\ config.live
      /\ Awardable(type)
      /\ minters[m].live
      /\ minters[m].active
      /\ SupplyLeft(type)
      /\ type.supply < U32Max
      /\ NotAwarded(t, l)
      /\ CanAdd(minters[m], type.xpReward)
      /\ CreateNft(a, l, {}, {t}, {})
      /\ MintXp(type.xpReward)
      /\ PutAchievement(t, [type EXCEPT !.supply = @ + 1])
      /\ PutMinter(m, Credited(minters[m], type.xpReward))
      /\ receipts' = [receipts EXCEPT ![t][l] = a]
      /\ UNCHANGED <<now, config, courseVars, historyVars>>

-----------------------------------------------------------------------------
RewardNext ==
  \/ \E k \in Keys : Initialize(k)
  \/ \E k, s \in Keys, old \in Option(Keys) : UpdateConfig(k, s, old)
  \/ \E k, m \in Keys : \/ \E cap \in Caps : RegisterMinter(k, m, cap)
                        \/ RevokeMinter(k, m)
  \/ \E m \in Keys, amount \in Amounts : RewardXp(m, amount)
  \/ \E k \in Keys, t \in Achievements :
        \/ \E p \in AchievementParams : CreateAchievementType(k, t, p)
        \/ DeactivateAchievementType(k, t)
  \/ \E m \in Keys, t \in Achievements, l \in Learners, a \in Assets :
        AwardAchievement(m, t, l, a)
=============================================================================
