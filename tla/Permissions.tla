---------------------------- MODULE Permissions ----------------------------
(***************************************************************************)
(* What a user may do in a guild and in a channel: the resolver, and the   *)
(* checks of PermissionChecker.  A bit field is the set of its bits.  The  *)
(* reads of one check are one step: the owner of a guild never changes,    *)
(* a member's roles go with the membership, and the rows are not used      *)
(* after the check.                                                        *)
(***************************************************************************)
EXTENDS Requests

CONSTANT AllPermissions  \* the bits of PermAll, "ADMIN" among them

ASSUME PermissionsAssumption == "ADMIN" \in AllPermissions

Everyone == {"VIEW", "SEND", "HISTORY"}

\* The zero value of models.Role, which no override refers to.
NoRole == [id |-> 0, guild |-> 0, position |-> 0, perms |-> {}, default |-> FALSE]

Has(perms, wanted) == wanted \subseteq perms

EveryoneRole(g) ==
  LET defaults == {r \in RolesOfGuild(g) : r.default}
  IN  IF defaults = {} THEN NoRole
      ELSE CHOOSE r \in defaults : \A o \in defaults : r.position <= o.position

Bits(roles) == UNION {r.perms : r \in roles}

ComputeBasePermissions(everyone, roles) ==
  LET perms == everyone.perms \cup Bits(roles)
  IN  IF "ADMIN" \in perms THEN AllPermissions ELSE perms

DenyLast(perms, overrides) ==
  (perms \cup UNION {o.allow : o \in overrides}) \ UNION {o.deny : o \in overrides}
Applied(perms, overrides) ==
  (perms \ UNION {o.deny : o \in overrides}) \cup UNION {o.allow : o \in overrides}

ComputeChannelPermissions(base, everyoneOverride, roleOverrides) ==
  IF "ADMIN" \in base THEN AllPermissions
  ELSE Applied(Applied(base, everyoneOverride), roleOverrides)

\* RequireGuildPermission: the member's own roles, any of the wanted bits.
MayInGuild(g, u, wanted) ==
  LET perms == Bits(RolesOfMember(g, u))
  IN  \/ Owns(g, u)
      \/ /\ HasGuild(g) /\ IsMember(g, u)
         /\ "ADMIN" \in perms \/ perms \cap wanted # {}

\* RequireGuildPermissionByPerm: @everyone counts too, all of the wanted bits.
MayInGuildByPerm(g, u, wanted) ==
  \/ Owns(g, u)
  \/ /\ HasGuild(g) /\ IsMember(g, u)
     /\ Has(ComputeBasePermissions(EveryoneRole(g), RolesOfMember(g, u)), wanted)

ChannelPermissions(g, c, u) ==
  LET everyone == EveryoneRole(g)
      roles == RolesOfMember(g, u)
      base == ComputeBasePermissions(everyone, roles)
  IN  ComputeChannelPermissions(base,
        {o \in OverridesOf(c) : o.role = everyone.id},
        {o \in OverridesOf(c) : o.role # everyone.id /\ \E r \in roles : r.id = o.role})

\* RequireChannelPermission.
MayInChannel(g, c, u, wanted) ==
  \/ Owns(g, u)
  \/ HasGuild(g) /\ IsMember(g, u) /\ Has(ChannelPermissions(g, c, u), wanted)

Highest(roles, floor) ==
  LET positions == {r.position : r \in roles} \cup {floor}
  IN  CHOOSE p \in positions : \A q \in positions : q <= p

HighestRolePosition(g, u) == Highest(RolesOfMember(g, u), 0)
-----------------------------------------------------------------------------
(***************************************************************************)
(* The order of docs/permissions.md, permission by permission: what decides *)
(* about one bit.                                                          *)
(***************************************************************************)
Grants(g, c, u, p) ==
  LET mine == {r.id : r \in RolesOfMember(g, u)} \ {EveryoneRole(g).id}
      allowed(ids) == \E o \in db.overrides : o.channel = c /\ o.role \in ids /\ p \in o.allow
      denied(ids) == \E o \in db.overrides : o.channel = c /\ o.role \in ids /\ p \in o.deny
      held(bit) == \E r \in RolesOfMember(g, u) \cup {EveryoneRole(g)} : bit \in r.perms
  IN  \/ held("ADMIN")
      \/ allowed(mine)
      \/ ~denied(mine) /\ allowed({EveryoneRole(g).id})
      \/ ~denied(mine) /\ ~denied({EveryoneRole(g).id}) /\ held(p)

\* A check in a channel decides as the documented order of precedence says:
\* owner, administrator, overrides of the member's roles, override of
\* @everyone, the roles' own bits, and within each step allow over deny
\* (docs/permissions.md, "Permission Resolution Algorithm").
EffectiveMatchesDocs ==
  \A c \in db.channels, u \in {r.id : r \in db.users}, p \in AllPermissions :
    MayInChannel(c.guild, c.id, u, {p}) <=>
      \/ Owns(c.guild, u)
      \/ IsMember(c.guild, u) /\ Grants(c.guild, c.id, u, p)
=============================================================================
