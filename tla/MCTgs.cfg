SPECIFICATION Spec
CONSTANTS Realms <- MCRealms
          Configs <- MCConfigs
INVARIANTS TransitSound DelegationSound
PROPERTY NothingOutlives
CHECK_DEADLOCK FALSE
