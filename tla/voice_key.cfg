SPECIFICATION VkSpec
CONSTANTS VkBound = TRUE  VkSuppress = 2  VkPresses = 2  VkResets = 0
INVARIANT OneOwnerOneSwitch
CHECK_DEADLOCK FALSE
